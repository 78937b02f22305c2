---------------------------- MODULE WatcherProofs ----------------------------
(***************************************************************************)
(* Theorems about Watcher for any chats, documents, messages and contents, *)
(* any number of targets and any sizes of the batch, the page and the      *)
(* channel.                                                                *)
(***************************************************************************)
EXTENDS Watcher, FiniteSetTheorems, WellFoundedInduction, TLAPS

-----------------------------------------------------------------------------
(* Lists *)

\* `before` orders S strictly and totally.
StrictOrder(before, S) ==
  /\ \A i \in S : <<i, i>> \notin before
  /\ \A i, j, k \in S :
       <<i, j>> \in before /\ <<j, k>> \in before => <<i, k>> \in before
  /\ \A i, j \in S : i # j => <<i, j>> \in before \/ <<j, i>> \in before

\* The list holds each element of S once, in the order: those that come before
\* its n-th element are n - 1.
Lists(list, S, before) ==
  /\ Cardinality(S) \in Nat
  /\ list \in Seq(S) /\ Len(list) = Cardinality(S)
  /\ \A m, n \in 1 .. Len(list) : m < n => <<list[m], list[n]>> \in before
  /\ \A k \in S : \E n \in 1 .. Len(list) : list[n] = k
  /\ \A n \in 1 .. Len(list) : \E T \in SUBSET S :
       /\ Cardinality(T) = n - 1
       /\ \A i \in S : i \in T <=> <<i, list[n]>> \in before

LEMMA ArrangedFacts ==
  ASSUME NEW S, IsFiniteSet(S), NEW before, StrictOrder(before, S),
         NEW list, list = Arranged(S, before)
  PROVE  Lists(list, S, before)
<1> DEFINE below == [k \in S |-> {i \in S : <<i, k>> \in before}]
           rank == [k \in S |-> Cardinality(below[k])]
           count == Cardinality(S)
<1>1. count \in Nat
  BY FS_CardinalityType
<1>2. \A k \in S : below[k] = {i \in S : <<i, k>> \in before}
  OBVIOUS
<1> HIDE DEF below
<1>3. list = [n \in 1 .. count |->
                CHOOSE k \in S : Cardinality({i \in S : <<i, k>> \in before}) = n - 1]
  BY DEF Arranged
<1>4. \A k \in S : rank[k] = Cardinality(below[k])
  OBVIOUS
<1>5. DOMAIN rank = S /\ rank = [k \in S |-> rank[k]]
  OBVIOUS
<1> HIDE DEF rank, count
<1>6. ASSUME NEW k \in S
      PROVE  IsFiniteSet(below[k]) /\ rank[k] \in 0 .. count - 1
  <2>1. below[k] \in SUBSET S /\ k \notin below[k]
    BY <1>2 DEF StrictOrder
  <2>2. /\ IsFiniteSet(below[k])
        /\ Cardinality(below[k]) <= count
        /\ count = Cardinality(below[k]) => S = below[k]
    BY <2>1, FS_Subset DEF count
  <2>3. Cardinality(below[k]) \in Nat
    BY <2>2, FS_CardinalityType
  <2> QED
    BY <1>1, <1>4, <2>1, <2>2, <2>3
<1>7. ASSUME NEW i \in S, NEW k \in S, <<i, k>> \in before
      PROVE  rank[i] < rank[k]
  <2>1. i \in below[k] /\ i \notin below[i]
    BY <1>2, <1>7 DEF StrictOrder
  <2>2. below[i] \in SUBSET below[k]
    BY <1>2, <1>7 DEF StrictOrder
  <2>3. /\ rank[i] <= rank[k]
        /\ rank[k] = rank[i] => below[k] = below[i]
    BY <1>4, <1>6, <2>2, FS_Subset
  <2>4. rank[i] \in Int /\ rank[k] \in Int
    BY <1>1, <1>6
  <2> QED
    BY <2>1, <2>3, <2>4
<1>8. ASSUME NEW i \in S, NEW k \in S, rank[i] = rank[k]
      PROVE  i = k
  <2>1. rank[i] \in Int
    BY <1>1, <1>6
  <2>2. ~(rank[i] < rank[k]) /\ ~(rank[k] < rank[i])
    BY <1>8, <2>1
  <2> QED
    BY <1>7, <2>2 DEF StrictOrder
<1>9. rank \in [S -> 0 .. count - 1]
  BY <1>5, <1>6
<1>10. rank \in Injection(S, 0 .. count - 1)
  <2>1. IsInjective(rank)
    BY <1>5, <1>8 DEF IsInjective
  <2> QED
    BY <1>9, <2>1, Zenon DEF Injection
<1>11. IsFiniteSet(0 .. count - 1) /\ Cardinality(0 .. count - 1) = count
  BY <1>1, FS_Interval
<1>12. \A n \in 0 .. count - 1 : \E k \in S : rank[k] = n
  <2>1. rank \in Surjection(S, 0 .. count - 1)
    BY <1>10, <1>11, FS_Injection DEF count
  <2> QED
    BY <2>1 DEF Surjection
<1>13. ASSUME NEW n \in 1 .. count
       PROVE  list[n] \in S /\ rank[list[n]] = n - 1
  <2>1. \A k \in S : Cardinality({i \in S : <<i, k>> \in before}) = rank[k]
    BY <1>2, <1>4
  <2>2. \E k \in S : Cardinality({i \in S : <<i, k>> \in before}) = n - 1
    <3>1. n - 1 \in 0 .. count - 1
      BY <1>1
    <3>2. PICK k \in S : rank[k] = n - 1
      BY <1>12, <3>1
    <3> QED
      BY <2>1, <3>2
  <2>3. /\ list[n] \in S
        /\ Cardinality({i \in S : <<i, list[n]>> \in before}) = n - 1
    BY <1>3, <2>2
  <2> QED
    BY <2>1, <2>3
<1>14. list \in [1 .. count -> S]
  BY <1>3, <1>13
<1>15. list \in Seq(S) /\ Len(list) = count
  BY <1>1, <1>14
<1>16. ASSUME NEW m \in 1 .. count, NEW n \in 1 .. count, m < n
       PROVE  <<list[m], list[n]>> \in before
  <2>1. /\ list[m] \in S /\ rank[list[m]] = m - 1
        /\ list[n] \in S /\ rank[list[n]] = n - 1
    BY <1>13
  <2>2. list[m] # list[n] /\ ~(rank[list[n]] < rank[list[m]])
    BY <1>16, <2>1
  <2> QED
    BY <1>7, <2>1, <2>2 DEF StrictOrder
<1>17. ASSUME NEW k \in S
       PROVE  \E n \in 1 .. count : list[n] = k
  <2>1. rank[k] + 1 \in 1 .. count /\ rank[k] \in Int
    BY <1>1, <1>6
  <2>2. list[rank[k] + 1] \in S /\ rank[list[rank[k] + 1]] = rank[k]
    BY <1>13, <2>1
  <2>3. list[rank[k] + 1] = k
    BY <1>8, <2>2
  <2> QED
    BY <2>1, <2>3
<1>18. ASSUME NEW n \in 1 .. count
       PROVE  \E T \in SUBSET S :
                /\ Cardinality(T) = n - 1
                /\ \A i \in S : i \in T <=> <<i, list[n]>> \in before
  <2>1. below[list[n]] \in SUBSET S
    BY <1>2, <1>13
  <2>2. Cardinality(below[list[n]]) = n - 1
    BY <1>4, <1>13
  <2>3. \A i \in S : i \in below[list[n]] <=> <<i, list[n]>> \in before
    BY <1>2, <1>13
  <2> QED
    BY <2>1, <2>2, <2>3
<1> QED
  BY <1>1, <1>15, <1>16, <1>17, <1>18 DEF count, Lists

\* Ascending lists each number of the set once, the smaller ones first.
LEMMA AscendingFacts ==
  ASSUME NEW S \in SUBSET Nat, IsFiniteSet(S)
  PROVE  /\ Ascending(S) \in Seq(S)
         /\ Len(Ascending(S)) = Cardinality(S)
         /\ \A m, n \in 1 .. Len(Ascending(S)) :
              m < n => Ascending(S)[m] < Ascending(S)[n]
         /\ \A k \in S : \E n \in 1 .. Len(Ascending(S)) : Ascending(S)[n] = k
         /\ \A n \in 1 .. Len(Ascending(S)) :
              Cardinality({i \in S : i < Ascending(S)[n]}) = n - 1
<1> DEFINE before == {p \in S \X S : p[1] < p[2]}
           list == Ascending(S)
<1>1. \A i, k \in S : <<i, k>> \in before <=> i < k
  OBVIOUS
<1>2. list = Arranged(S, before)
  BY DEF Ascending
<1> HIDE DEF before, list
<1>4. StrictOrder(before, S)
  BY <1>1 DEF StrictOrder
<1>5. Lists(list, S, before)
  BY <1>2, <1>4, ArrangedFacts
<1>6. \A n \in 1 .. Len(list) : list[n] \in S
  BY <1>5 DEF Lists
<1>7. \A m, n \in 1 .. Len(list) : m < n => list[m] < list[n]
  BY <1>1, <1>5, <1>6 DEF Lists
<1>8. ASSUME NEW n \in 1 .. Len(list)
      PROVE  Cardinality({i \in S : i < list[n]}) = n - 1
  <2>1. PICK T \in SUBSET S : /\ Cardinality(T) = n - 1
                             /\ \A i \in S : i \in T <=> <<i, list[n]>> \in before
    BY <1>5 DEF Lists
  <2>2. T = {i \in S : i < list[n]}
    BY <1>1, <1>6, <2>1
  <2> QED
    BY <2>1, <2>2
<1>9. /\ list \in Seq(S) /\ Len(list) = Cardinality(S)
      /\ \A m, n \in 1 .. Len(list) : m < n => list[m] < list[n]
      /\ \A k \in S : \E n \in 1 .. Len(list) : list[n] = k
      /\ \A n \in 1 .. Len(list) : Cardinality({i \in S : i < list[n]}) = n - 1
  BY <1>5, <1>7, <1>8 DEF Lists
<1> QED
  BY <1>9 DEF list

\* EntriesAt lists the entries at the places, in their order.
LEMMA EntriesAtFacts ==
  ASSUME NEW T, NEW s \in Seq(T), NEW places \in SUBSET (DOMAIN s)
  PROVE  LET at == Ascending(places)
             part == EntriesAt(s, places)
         IN  /\ part \in Seq(T) /\ at \in Seq(places) /\ Len(part) = Len(at)
             /\ \A n \in 1 .. Len(at) : part[n] = s[at[n]]
             /\ \A m, n \in 1 .. Len(at) : m < n => at[m] < at[n]
             /\ \A k \in places : \E n \in 1 .. Len(part) : part[n] = s[k]
<1> DEFINE at == Ascending(places)
           part == EntriesAt(s, places)
<1>1. DOMAIN s = 1 .. Len(s) /\ Len(s) \in Nat
  OBVIOUS
<1>2. IsFiniteSet(places) /\ places \in SUBSET Nat
  <2>1. IsFiniteSet(1 .. Len(s))
    BY <1>1, FS_Interval
  <2> QED
    BY <1>1, <2>1, FS_Subset
<1>3. /\ at \in Seq(places)
      /\ \A m, n \in 1 .. Len(at) : m < n => at[m] < at[n]
      /\ \A k \in places : \E n \in 1 .. Len(at) : at[n] = k
  BY <1>2, AscendingFacts
<1>4. part = [n \in DOMAIN at |-> s[at[n]]]
  BY DEF EntriesAt
<1> HIDE DEF at, part
<1>5. DOMAIN at = 1 .. Len(at) /\ Len(at) \in Nat
  BY <1>3
<1>6. \A n \in 1 .. Len(at) : at[n] \in places /\ part[n] = s[at[n]]
  BY <1>3, <1>4, <1>5
<1>7. \A n \in 1 .. Len(at) : part[n] \in T
  BY <1>1, <1>6
<1>8. part \in [1 .. Len(at) -> T]
  BY <1>4, <1>5, <1>7
<1>9. part \in Seq(T) /\ Len(part) = Len(at)
  BY <1>5, <1>8
<1>10. \A k \in places : \E n \in 1 .. Len(part) : part[n] = s[k]
  BY <1>3, <1>6, <1>9
<1> QED
  BY <1>3, <1>6, <1>9, <1>10 DEF at, part

LEMMA MinIsIn ==
  ASSUME NEW S \in SUBSET Nat, S # {}
  PROVE  Min(S) \in S /\ \A x \in S : Min(S) <= x
<1>1. PICK x \in S : \A y \in S : ~ (<<y, x>> \in OpToRel(<, Nat))
  BY NatLessThanWellFounded, WFMin
<1>2. \A y \in S : ~(y < x)
  BY <1>1 DEF OpToRel
<1>3. \A y \in S : x <= y
  BY <1>2
<1> QED
  BY <1>3 DEF Min

LEMMA MinOfTwo ==
  ASSUME NEW a \in Nat, NEW b \in Nat
  PROVE  Min({a, b}) = IF a <= b THEN a ELSE b
<1> DEFINE m == IF a <= b THEN a ELSE b
<1>1. m \in {a, b} /\ \A y \in {a, b} : m <= y
  OBVIOUS
<1>2. \A x \in {a, b} : (\A y \in {a, b} : x <= y) => x = m
  OBVIOUS
<1> HIDE DEF m
<1>3. Min({a, b}) = m
  BY <1>1, <1>2 DEF Min
<1> QED
  BY <1>3 DEF m

\* The first entries of a list, at most as many as the limit.
LEMMA FirstFacts ==
  ASSUME NEW T, NEW s \in Seq(T), NEW limit \in Nat
  PROVE  LET first == SubSeq(s, 1, Min({limit, Len(s)}))
         IN  /\ first \in Seq(T)
             /\ Len(first) = IF limit <= Len(s) THEN limit ELSE Len(s)
             /\ \A n \in 1 .. Len(first) : first[n] = s[n]
<1> DEFINE m == Min({limit, Len(s)})
<1>1. m = IF limit <= Len(s) THEN limit ELSE Len(s)
  BY MinOfTwo
<1> HIDE DEF m
<1>2. m \in 0 .. Len(s)
  BY <1>1
<1>3. /\ SubSeq(s, 1, m) \in Seq(T) /\ Len(SubSeq(s, 1, m)) = m
      /\ \A n \in 1 .. m : SubSeq(s, 1, m)[n] = s[n]
  BY <1>2
<1> QED
  BY <1>1, <1>3 DEF m

\* A list is as long as one it is a suffix of, at most, and ends with the same
\* entries.
LEMMA SuffixFacts ==
  ASSUME NEW T, NEW s \in Seq(T), NEW t \in Seq(T)
  PROVE  IsSuffix(s, t) <=>
           /\ Len(s) <= Len(t)
           /\ \A k \in 1 .. Len(s) : s[k] = t[Len(t) - Len(s) + k]
<1> DEFINE a == Reverse(s)
           b == Reverse(t)
<1>1. /\ a \in Seq(T) /\ Len(a) = Len(s)
      /\ \A k \in 1 .. Len(s) : a[k] = s[Len(s) - k + 1]
  BY DEF Reverse
<1>2. /\ b \in Seq(T) /\ Len(b) = Len(t)
      /\ \A k \in 1 .. Len(t) : b[k] = t[Len(t) - k + 1]
  BY DEF Reverse
<1>3. IsSuffix(s, t) <=> IsPrefix(a, b)
  BY DEF IsSuffix
<1> HIDE DEF a, b
<1>4. Len(s) \in Nat /\ Len(t) \in Nat
  OBVIOUS
<1>5. IsPrefix(a, b) <=>
        Len(a) <= Len(b) /\ \A k \in 1 .. Len(a) : a[k] = b[k]
  <2>1. IsPrefix(a, b) <=>
          Len(a) <= Len(b) /\ SubSeq(a, 1, Len(a)) = SubSeq(b, 1, Len(a))
    BY DEF IsPrefix
  <2>2. ASSUME Len(a) <= Len(b)
        PROVE  SubSeq(a, 1, Len(a)) = SubSeq(b, 1, Len(a))
                 <=> \A k \in 1 .. Len(a) : a[k] = b[k]
    <3>1. /\ SubSeq(a, 1, Len(a)) = [k \in 1 .. Len(a) |-> a[k]]
          /\ SubSeq(b, 1, Len(a)) = [k \in 1 .. Len(a) |-> b[k]]
      BY <1>1, <1>2, <2>2
    <3> QED
      BY <3>1
  <2> QED
    BY <2>1, <2>2
<1>6. ASSUME Len(s) <= Len(t)
      PROVE  (\A k \in 1 .. Len(s) : a[k] = b[k])
               <=> \A k \in 1 .. Len(s) : s[k] = t[Len(t) - Len(s) + k]
  <2>1. \A k \in 1 .. Len(s) : Len(s) - k + 1 \in 1 .. Len(s)
    BY <1>4
  <2>2. ASSUME \A k \in 1 .. Len(s) : a[k] = b[k], NEW k \in 1 .. Len(s)
        PROVE  s[k] = t[Len(t) - Len(s) + k]
    <3>1. a[Len(s) - k + 1] = b[Len(s) - k + 1]
      BY <2>1, <2>2
    <3>2. a[Len(s) - k + 1] = s[k]
      <4>1. a[Len(s) - k + 1] = s[Len(s) - (Len(s) - k + 1) + 1]
        BY <1>1, <2>1
      <4> QED
        BY <1>4, <4>1
    <3>3. b[Len(s) - k + 1] = t[Len(t) - Len(s) + k]
      <4>0. Len(s) - k + 1 \in 1 .. Len(t)
        BY <1>4, <1>6
      <4>1. b[Len(s) - k + 1] = t[Len(t) - (Len(s) - k + 1) + 1]
        BY <1>2, <4>0
      <4> QED
        BY <1>4, <4>1
    <3> QED
      BY <3>1, <3>2, <3>3
  <2>3. ASSUME \A k \in 1 .. Len(s) : s[k] = t[Len(t) - Len(s) + k],
               NEW k \in 1 .. Len(s)
        PROVE  a[k] = b[k]
    <3>1. a[k] = s[Len(s) - k + 1] /\ b[k] = t[Len(t) - k + 1]
      BY <1>1, <1>2, <1>4, <1>6
    <3>2. s[Len(s) - k + 1] = t[Len(t) - Len(s) + (Len(s) - k + 1)]
      BY <2>1, <2>3
    <3> QED
      BY <1>4, <3>1, <3>2
  <2> QED
    BY <2>2, <2>3
<1> QED
  BY <1>1, <1>2, <1>3, <1>5, <1>6

-----------------------------------------------------------------------------
(* What the adapters list and what is made of it *)

LEMMA ListFacts ==
  ASSUME NEW S, NEW s \in Seq(S)
  PROVE  IsList(s)
<1>1. \A k \in 1 .. Len(s) : s[k] \in Range(s)
  BY DEF Range
<1>2. s \in [1 .. Len(s) -> Range(s)] /\ Len(s) \in Nat
  BY <1>1
<1> QED
  BY <1>2 DEF IsList

LEMMA PartOfList ==
  ASSUME NEW T, NEW S \in SUBSET T, NEW s \in Seq(S)
  PROVE  s \in Seq(T) /\ ToSet(s) \subseteq S
BY DEF ToSet

LEMMA ShortLists == IsList(<<>>) /\ \A e : IsList(<<e>>)
<1>1. <<>> \in Seq({}) /\ \A e : <<e>> \in Seq({e})
  OBVIOUS
<1> QED
  BY <1>1, ListFacts

LEMMA AppendIsList ==
  ASSUME NEW s, IsList(s), NEW x
  PROVE  /\ IsList(Append(s, x))
         /\ DOMAIN s = 1 .. Len(s) /\ Len(s) \in Nat
         /\ Len(Append(s, x)) = Len(s) + 1
         /\ DOMAIN Append(s, x) = 1 .. Len(s) + 1
         /\ \A k \in 1 .. Len(s) : Append(s, x)[k] = s[k]
         /\ Append(s, x)[Len(s) + 1] = x
<1> DEFINE S == Range(s) \union {x}
<1>1. s \in Seq(S)
  BY DEF IsList
<1> HIDE DEF S
<1>2. Append(s, x) \in Seq(S)
  BY <1>1 DEF S
<1>3. IsList(Append(s, x))
  BY <1>2, ListFacts
<1> QED
  BY <1>1, <1>3

LEMMA TailIsList ==
  ASSUME NEW s, IsList(s), s # <<>>
  PROVE  /\ IsList(Tail(s)) /\ Len(s) \in Nat \ {0}
         /\ DOMAIN s = 1 .. Len(s) /\ Head(s) = s[1]
         /\ Len(Tail(s)) = Len(s) - 1
         /\ \A k \in 1 .. Len(s) - 1 : Tail(s)[k] = s[k + 1]
<1>1. s \in Seq(Range(s))
  BY DEF IsList
<1>2. Tail(s) \in Seq(Range(s))
  BY <1>1
<1>3. IsList(Tail(s))
  BY <1>2, ListFacts
<1> QED
  BY <1>1, <1>3

\* A history holds messages of the service.
LEMMA BatchedType ==
  ASSUME IsList(posts), WatcherAssumption, config.service \in Watchable,
         HasMessaging(config.service), NEW t
  PROVE  Batched(t) \in Seq(DOMAIN posts)
<1> DEFINE D == DOMAIN posts
<1>1. D = 1 .. Len(posts) /\ Len(posts) \in Nat
  BY DEF IsList
<1>2. ASSUME NEW P \in SUBSET D
      PROVE  Ascending(P) \in Seq(D)
  <2>1. IsFiniteSet(P)
    <3>1. IsFiniteSet(D)
      BY <1>1, FS_Interval
    <3> QED
      BY <3>1, FS_Subset
  <2>2. Ascending(P) \in Seq(P)
    BY <1>1, <2>1, AscendingFacts
  <2> QED
    BY <2>2
<1>3. ASSUME NEW ids \in Seq(D)
      PROVE  Newest(posts, ids, Batch) \in Seq(D)
  <2>1. Reverse(ids) \in Seq(D) /\ Len(Reverse(ids)) = Len(ids)
    BY DEF Reverse
  <2> QED
    BY <2>1, FirstFacts DEF Newest, WatcherAssumption
<1>4. InChat(posts, t) \in Seq(D)
  BY <1>2 DEF InChat
<1>5. AllIds(posts) \in Seq(D)
  BY <1>1 DEF AllIds
<1>6. TelegramHistory(posts, forgotten, Batch) \in Seq(D)
  <2> DEFINE updates == Ascending({k \in D : k > forgotten /\ posts[k].by = "person"})
  <2>1. updates \in Seq(D)
    BY <1>2
  <2> HIDE DEF updates
  <2>2. SubSeq(updates, 1, Min({Batch, Len(updates)})) \in Seq(D)
    BY <2>1, FirstFacts DEF WatcherAssumption
  <2> QED
    BY <2>2 DEF updates, TelegramHistory
<1> HIDE DEF D
<1>7. config.service \in {"slack", "discord", "telegram", "msteams", "imessage"}
  BY DEF Watchable, HasMessaging
<1>8. Batched(t) \in Seq(D)
  BY <1>3, <1>4, <1>5, <1>6, <1>7
  DEF Batched, History, SlackHistory, DiscordHistory, MsTeamsHistory,
      IMessageHistory
<1> QED
  BY <1>8 DEF D

\* What is fresh follows the first message with the id of the last one seen.
LEMMA FreshIsSuffix ==
  ASSUME NEW T, NEW s \in Seq(T), NEW last
  PROVE  \E j \in 0 .. Len(s) :
           /\ Fresh(s, last) \in Seq(T) /\ Len(Fresh(s, last)) = Len(s) - j
           /\ \A n \in 1 .. Len(Fresh(s, last)) : Fresh(s, last)[n] = s[j + n]
           /\ j > 0 => SameId(s[j], last)
           /\ \A n \in 1 .. Len(s) :
                SameId(s[n], last) => j > 0 /\ (j < n \/ j = n)
<1> DEFINE fresh == Fresh(s, last)
           I == {k \in 1 .. Len(s) : SameId(s[k], last)}
           at == SelectInSeq(s, LAMBDA m : SameId(m, last))
<1>1. at = IF I # {} THEN Min(I) ELSE 0
  BY DEF SelectInSeq
<1>2. fresh = IF at = 0 THEN s ELSE SubSeq(s, at + 1, Len(s))
  BY DEF Fresh
<1>3. I \in SUBSET Nat
  OBVIOUS
<1>4. \A n \in 1 .. Len(s) : n \in I <=> SameId(s[n], last)
  OBVIOUS
<1>5. \A n \in I : n \in 1 .. Len(s)
  OBVIOUS
<1> HIDE DEF fresh, at, I
<1>6. CASE I = {}
  <2>1. fresh = s /\ \A n \in 1 .. Len(s) : ~SameId(s[n], last)
    BY <1>1, <1>2, <1>4, <1>6
  <2>2. /\ 0 \in 0 .. Len(s) /\ Len(fresh) = Len(s) - 0 /\ fresh \in Seq(T)
        /\ \A n \in 1 .. Len(fresh) : fresh[n] = s[0 + n]
        /\ ~(0 > 0)
    BY <2>1
  <2> QED
    BY <2>1, <2>2 DEF fresh
<1>7. CASE I # {}
  <2>1. at \in I /\ \A n \in I : at <= n
    BY <1>1, <1>3, <1>7, MinIsIn
  <2>2. at \in 1 .. Len(s) /\ SameId(s[at], last)
    BY <1>4, <1>5, <2>1
  <2>3. fresh = SubSeq(s, at + 1, Len(s))
    BY <1>2, <2>2
  <2>4. /\ fresh \in Seq(T) /\ Len(fresh) = Len(s) - at
        /\ \A n \in 1 .. Len(fresh) : fresh[n] = s[at + n]
    BY <2>2, <2>3
  <2>5. at \in 0 .. Len(s) /\ at > 0
    BY <2>2
  <2>6. \A n \in 1 .. Len(s) : SameId(s[n], last) => at < n \/ at = n
    BY <1>4, <2>1, <2>2
  <2> QED
    BY <2>2, <2>4, <2>5, <2>6 DEF fresh
<1> QED
  BY <1>6, <1>7

-----------------------------------------------------------------------------
(* Types *)

TypeInv ==
  /\ TypeOK
  /\ config.service \in Services
  /\ config.targets = IF HasMessaging(config.service) THEN Polled ELSE Documents
  /\ IsList(posts) /\ IsList(sent) /\ IsList(sending) /\ IsList(channel)
  /\ base \in [Chats -> (DOMAIN posts) \union {None}]
  /\ shown \subseteq DOMAIN posts

LEMMA SuffixIsKept ==
  ASSUME NEW s, NEW t, IsList(s), IsList(t), IsSuffix(s, t)
  PROVE  /\ \A x : IsSuffix(Append(s, x), Append(t, x))
         /\ s # <<>> => IsSuffix(Tail(s), t)
<1> DEFINE S == Range(s) \union Range(t)
<1>1. s \in Seq(S) /\ t \in Seq(S)
  BY DEF IsList
<1> HIDE DEF S
<1>2. /\ Len(s) \in Nat /\ Len(t) \in Nat /\ Len(s) <= Len(t)
      /\ \A k \in 1 .. Len(s) : s[k] = t[Len(t) - Len(s) + k]
  BY <1>1, SuffixFacts
<1>3. ASSUME NEW x
      PROVE  IsSuffix(Append(s, x), Append(t, x))
  <2> DEFINE a == Append(s, x)
             b == Append(t, x)
  <2>1. a \in Seq(S \union {x}) /\ b \in Seq(S \union {x})
    BY <1>1
  <2>2. /\ Len(a) = Len(s) + 1 /\ Len(b) = Len(t) + 1
        /\ \A k \in 1 .. Len(s) : a[k] = s[k]
        /\ \A k \in 1 .. Len(t) : b[k] = t[k]
        /\ a[Len(s) + 1] = x /\ b[Len(t) + 1] = x
    BY AppendIsList
  <2> HIDE DEF a, b
  <2>3. ASSUME NEW k \in 1 .. Len(a)
        PROVE  a[k] = b[Len(b) - Len(a) + k]
    <3>1. CASE k = Len(a)
      BY <1>2, <2>2, <3>1
    <3>2. CASE k # Len(a)
      <4>1. k \in 1 .. Len(s) /\ Len(t) - Len(s) + k \in 1 .. Len(t)
        BY <1>2, <2>2, <3>2
      <4>2. Len(b) - Len(a) + k = Len(t) - Len(s) + k
        BY <1>2, <2>2
      <4> QED
        BY <1>2, <2>2, <4>1, <4>2
    <3> QED
      BY <3>1, <3>2
  <2>4. Len(a) <= Len(b)
    BY <1>2, <2>2
  <2> QED
    BY <2>1, <2>3, <2>4, SuffixFacts DEF a, b
<1>4. ASSUME s # <<>>
      PROVE  IsSuffix(Tail(s), t)
  <2> DEFINE a == Tail(s)
  <2>1. a \in Seq(S) /\ Len(s) \in Nat \ {0} /\ Len(a) = Len(s) - 1
    BY <1>1, <1>4
  <2>2. \A k \in 1 .. Len(a) : a[k] = s[k + 1]
    BY <1>4, TailIsList
  <2> HIDE DEF a
  <2>3. ASSUME NEW k \in 1 .. Len(a)
        PROVE  a[k] = t[Len(t) - Len(a) + k]
    <3>1. k + 1 \in 1 .. Len(s)
      BY <2>1
    <3>2. s[k + 1] = t[Len(t) - Len(s) + (k + 1)]
      BY <1>2, <3>1
    <3>3. Len(t) - Len(s) + (k + 1) = Len(t) - Len(a) + k
      BY <1>2, <2>1
    <3> QED
      BY <2>2, <3>2, <3>3
  <2>4. Len(a) <= Len(t)
    BY <1>2, <2>1
  <2> QED
    BY <1>1, <2>1, <2>3, <2>4, SuffixFacts DEF a
<1> QED
  BY <1>3, <1>4

LEMMA InitType == Init => TypeInv
<1> SUFFICES ASSUME Init
             PROVE  TypeInv
  OBVIOUS
<1> USE WatcherAssumption DEF WatcherAssumption
<1>1. IsList(<<>>)
  BY ShortLists
<1>2. IsSuffix(<<>>, <<>>)
  <2>1. ASSUME NEW s \in Seq({})
        PROVE  IsSuffix(s, s)
    <3>1. /\ Len(s) <= Len(s)
          /\ \A k \in 1 .. Len(s) : s[k] = s[Len(s) - Len(s) + k]
      OBVIOUS
    <3> QED
      BY <3>1, SuffixFacts
  <2>2. <<>> \in Seq({})
    OBVIOUS
  <2> QED
    BY <2>1, <2>2
<1>3. /\ config.service \in Services
      /\ config.targets = IF HasMessaging(config.service) THEN Polled ELSE Documents
  BY DEF Init, WatchConfig
<1>4. TypeOK
  BY <1>2 DEF Init, TypeOK
<1> QED
  BY <1>1, <1>3, <1>4 DEF Init, TypeInv

\* The variables only the watcher's steps change.
PollVars == <<pc, left, seen, sending, base, shown, sent>>

\* A message is posted, by a person or by the bot.
LEMMA PostingType ==
  ASSUME TypeInv, NEW x, posts' = Append(posts, x),
         UNCHANGED <<inputs, forgotten, PollVars, channel>>
  PROVE  TypeInv'
<1>1. /\ IsList(posts') /\ Len(posts') = Len(posts) + 1 /\ Len(posts) \in Nat
      /\ DOMAIN posts = 1 .. Len(posts) /\ DOMAIN posts' = 1 .. Len(posts) + 1
  BY AppendIsList DEF TypeInv
<1>2. DOMAIN posts \subseteq DOMAIN posts'
  BY <1>1
<1>3. forgotten' \in 0 .. Len(posts')
  BY <1>1 DEF TypeInv, TypeOK
<1>4. /\ lastSeen' \in [Chats -> (DOMAIN posts') \union {None}]
      /\ base' \in [Chats -> (DOMAIN posts') \union {None}]
      /\ shown' \subseteq DOMAIN posts'
  BY <1>2 DEF TypeInv, TypeOK, PollVars, seen
<1>5. /\ UNCHANGED <<pc, left, sending, sent, channel, config>>
      /\ IsSuffix(channel', sent') = IsSuffix(channel, sent)
  BY DEF PollVars, inputs
<1>6. TypeOK'
  BY <1>3, <1>4, <1>5 DEF TypeInv, TypeOK
<1> QED
  BY <1>1, <1>4, <1>5, <1>6 DEF TypeInv

\* What is made of a chat's history.
LEMMA VisitedTypes ==
  ASSUME IsList(posts), WatcherAssumption, config.service \in Watchable,
         HasMessaging(config.service), NEW t
  PROVE  /\ Found(t) \in (DOMAIN posts) \union {None}
         /\ FreshIn(t) \in Seq(DOMAIN posts)
         /\ FreshIn(t) # <<>> => Last(FreshIn(t)) \in DOMAIN posts
         /\ WantedIn(t) \in Seq(DOMAIN posts)
         /\ ToSet(Batched(t)) \subseteq DOMAIN posts
<1>1. Batched(t) \in Seq(DOMAIN posts)
  BY BatchedType
<1>2. ASSUME NEW s \in Seq(DOMAIN posts), s # <<>>
      PROVE  Last(s) \in DOMAIN posts
  <2>1. Len(s) \in DOMAIN s
    BY <1>2
  <2> QED
    BY <2>1 DEF Last
<1>3. Found(t) \in (DOMAIN posts) \union {None}
  BY <1>1, <1>2 DEF Found
<1>4. FreshIn(t) \in Seq(DOMAIN posts)
  BY <1>1, FreshIsSuffix DEF FreshIn
<1>5. WantedIn(t) \in Seq(DOMAIN posts)
  <2> DEFINE fresh == FreshIn(t)
             places == {n \in DOMAIN fresh : Wanted(fresh[n])}
  <2>1. places \in SUBSET (DOMAIN fresh) /\ fresh \in Seq(DOMAIN posts)
    BY <1>4
  <2>2. WantedIn(t) = EntriesAt(fresh, places)
    BY DEF WantedIn
  <2> HIDE DEF places, fresh
  <2> QED
    BY <2>1, <2>2, EntriesAtFacts
<1>6. ToSet(Batched(t)) \subseteq DOMAIN posts
  BY <1>1 DEF ToSet
<1> QED
  BY <1>2, <1>3, <1>4, <1>5, <1>6

\* The events of a list of messages are a list.
LEMMA EventsAreList ==
  ASSUME NEW T, NEW s \in Seq(T)
  PROVE  LET events == [k \in DOMAIN s |-> MessageEvent(s[k])]
         IN  /\ IsList(events) /\ Len(events) = Len(s) /\ DOMAIN events = 1 .. Len(s)
             /\ \A k \in 1 .. Len(s) : events[k] = MessageEvent(s[k])
<1> DEFINE events == [k \in DOMAIN s |-> MessageEvent(s[k])]
           all == {MessageEvent(s[k]) : k \in DOMAIN s}
<1>1. DOMAIN s = 1 .. Len(s) /\ Len(s) \in Nat
  OBVIOUS
<1>2. \A k \in 1 .. Len(s) : events[k] = MessageEvent(s[k]) /\ events[k] \in all
  BY <1>1
<1>3. events \in [1 .. Len(s) -> all]
  BY <1>1, <1>2
<1> HIDE DEF events, all
<1>4. events \in Seq(all) /\ Len(events) = Len(s) /\ DOMAIN events = 1 .. Len(s)
  BY <1>1, <1>3
<1>5. IsList(events)
  BY <1>4, ListFacts
<1> QED
  BY <1>2, <1>4, <1>5 DEF events

LEMMA VisitChannelType ==
  ASSUME TypeInv, NEW t \in Chats, VisitChannel(t)
  PROVE  TypeInv'
<1> USE WatcherAssumption
<1>1. /\ HasMessaging(config.service) /\ config.service \in Watchable
      /\ pc = "poll" /\ sending = <<>> /\ left' = left \ {t}
      /\ UNCHANGED <<inputs, service, pc, lastHash, channel, open, job, sent>>
  BY DEF VisitChannel, TypeInv, WatcherAssumption
<1>2. IsList(posts) /\ UNCHANGED <<posts, forgotten, config>>
  BY <1>1 DEF TypeInv, service, inputs
<1> DEFINE Ids == (DOMAIN posts) \union {None}
<1>3. /\ Found(t) \in Ids /\ WantedIn(t) \in Seq(DOMAIN posts)
      /\ FreshIn(t) # <<>> => Last(FreshIn(t)) \in Ids
      /\ ToSet(Batched(t)) \subseteq DOMAIN posts
  BY <1>1, <1>2, VisitedTypes
<1>4. /\ lastSeen \in [Chats -> Ids] /\ base \in [Chats -> Ids]
      /\ IsList(sending) /\ shown \subseteq DOMAIN posts
  BY DEF TypeInv, TypeOK
<1> HIDE DEF Ids
<1>5. lastSeen' \in [Chats -> Ids] /\ base' \in [Chats -> Ids]
  BY <1>3, <1>4 DEF VisitChannel
<1>6. IsList(sending')
  <2>1. IsList([k \in DOMAIN WantedIn(t) |-> MessageEvent(WantedIn(t)[k])])
    BY <1>3, EventsAreList
  <2> QED
    BY <1>4, <2>1 DEF VisitChannel
<1>7. shown' \subseteq DOMAIN posts
  BY <1>3, <1>4 DEF VisitChannel
<1>8. left' \subseteq config.targets
  BY <1>1 DEF TypeInv, TypeOK
<1>9. TypeOK'
  BY <1>1, <1>2, <1>5, <1>8 DEF TypeInv, TypeOK, Ids
<1> QED
  BY <1>1, <1>2, <1>5, <1>6, <1>7, <1>9 DEF TypeInv, Ids

LEMMA VisitDocumentType ==
  ASSUME TypeInv, NEW d, VisitDocument(d)
  PROVE  TypeInv'
<1>1. /\ pc = "poll" /\ left' = left \ {d}
      /\ UNCHANGED <<inputs, service, pc, lastSeen, channel, open, job, ghosts>>
  BY DEF VisitDocument
<1>2. UNCHANGED <<config, posts, forgotten, pc, lastSeen, channel, base, shown, sent>>
  BY <1>1 DEF inputs, service, ghosts
<1>3. IsList(sending')
  BY ShortLists DEF VisitDocument, TypeInv
<1>4. left' \subseteq config'.targets
  BY <1>1, <1>2 DEF TypeInv, TypeOK
<1>5. TypeOK'
  BY <1>1, <1>2, <1>4 DEF TypeInv, TypeOK
<1> QED
  BY <1>2, <1>3, <1>5 DEF TypeInv

LEMMA SendType ==
  ASSUME TypeInv, Send
  PROVE  TypeInv'
<1>1. /\ pc = "poll" /\ sending # <<>>
      /\ UNCHANGED <<config, posts, forgotten, pc, lastSeen, base, shown>>
  BY DEF Send, inputs, service, seen
<1>2. CASE open
  <2>1. /\ channel' = Append(channel, Head(sending))
        /\ sent' = Append(sent, Head(sending))
        /\ sending' = Tail(sending) /\ left' = left /\ Len(channel) < Capacity
    BY <1>2 DEF Send
  <2>2. /\ IsList(channel') /\ IsList(sent') /\ IsList(sending')
        /\ Len(channel') = Len(channel) + 1 /\ Len(channel) \in Nat
    BY <1>1, <2>1, AppendIsList, TailIsList DEF TypeInv
  <2>3. Len(channel') <= Capacity
    BY <2>1, <2>2, WatcherAssumption DEF WatcherAssumption
  <2>4. IsSuffix(channel', sent')
    BY <2>1, SuffixIsKept DEF TypeInv, TypeOK
  <2>5. TypeOK'
    BY <1>1, <2>1, <2>3, <2>4 DEF TypeInv, TypeOK
  <2> QED
    BY <1>1, <2>2, <2>5 DEF TypeInv
<1>3. CASE ~open
  <2>1. sending' = <<>> /\ left' = {} /\ UNCHANGED <<channel, sent>>
    BY <1>3 DEF Send
  <2>2. TypeOK'
    BY <1>1, <2>1 DEF TypeInv, TypeOK
  <2>3. IsList(sending')
    BY <2>1, ShortLists
  <2> QED
    BY <1>1, <2>1, <2>2, <2>3 DEF TypeInv
<1> QED
  BY <1>2, <1>3

LEMMA TakeType ==
  ASSUME TypeInv, Take
  PROVE  TypeInv'
<1>1. /\ channel # <<>> /\ channel' = Tail(channel)
      /\ UNCHANGED <<config, posts, forgotten, pc, left, lastSeen, sending, base,
                     shown, sent>>
  BY DEF Take, inputs, service, seen, ghosts
<1>2. /\ IsList(channel') /\ Len(channel') = Len(channel) - 1
      /\ Len(channel) \in Nat /\ IsSuffix(channel', sent')
  BY <1>1, TailIsList, SuffixIsKept DEF TypeInv, TypeOK
<1>3. TypeOK'
  BY <1>1, <1>2, WatcherAssumption DEF TypeInv, TypeOK, WatcherAssumption
<1> QED
  BY <1>1, <1>2, <1>3 DEF TypeInv

LEMMA DaemonStopsType ==
  ASSUME TypeInv, DaemonStops
  PROVE  TypeInv'
<1>1. /\ channel' = <<>>
      /\ UNCHANGED <<config, posts, forgotten, pc, left, lastSeen, sending, base,
                     shown, sent>>
  BY DEF DaemonStops, inputs, service, seen, ghosts
<1>2. IsList(<<>>)
  BY ShortLists
<1>3. IsSuffix(<<>>, sent)
  <2> DEFINE S == Range(sent)
             none == <<>>
  <2>1. none \in Seq(S) /\ sent \in Seq(S) /\ Len(none) = 0
    BY DEF TypeInv, IsList
  <2>2. Len(none) <= Len(sent) /\ 1 .. Len(none) = {}
    BY <2>1
  <2> HIDE DEF S, none
  <2>3. IsSuffix(none, sent)
    BY <2>1, <2>2, SuffixFacts
  <2> QED
    BY <2>3 DEF none
<1>4. TypeOK'
  BY <1>1, <1>3, WatcherAssumption DEF TypeInv, TypeOK, WatcherAssumption
<1> QED
  BY <1>1, <1>2, <1>4 DEF TypeInv

LEMMA StepType == TypeInv /\ [Next]_vars => TypeInv'
<1> SUFFICES ASSUME TypeInv, [Next]_vars
             PROVE  TypeInv'
  OBVIOUS
<1>1. ASSUME NEW t \in Chats, Post(t)
      PROVE  TypeInv'
  <2>1. /\ \E x : posts' = Append(posts, x)
        /\ UNCHANGED <<inputs, forgotten, PollVars, channel>>
    BY <1>1 DEF Post, PollVars, ghosts
  <2> QED
    BY <2>1, PostingType
<1>2. ASSUME NEW t \in Chats, VisitChannel(t)
      PROVE  TypeInv'
  BY <1>2, VisitChannelType
<1>3. ASSUME NEW d \in Documents, Edit(d)
      PROVE  TypeInv'
  BY <1>3 DEF Edit, TypeInv, TypeOK, inputs, seen, ghosts
<1>4. ASSUME NEW d \in Documents, VisitDocument(d)
      PROVE  TypeInv'
  BY <1>4, VisitDocumentType
<1>5. CASE Forget
  <2>1. /\ forgotten' = forgotten + 1 /\ forgotten < Len(posts)
        /\ UNCHANGED <<config, posts, pc, left, lastSeen, sending, channel, base,
                       shown, sent>>
    BY <1>5 DEF Forget, inputs, seen, ghosts
  <2>2. Len(posts) \in Nat
    BY AppendIsList DEF TypeInv
  <2>3. TypeOK'
    BY <2>1, <2>2 DEF TypeInv, TypeOK
  <2> QED
    BY <2>1, <2>3 DEF TypeInv
<1>6. CASE Wake
  BY <1>6 DEF Wake, TypeInv, TypeOK, inputs, service, seen, ghosts
<1>7. CASE Send
  BY <1>7, SendType
<1>8. CASE EndPoll
  BY <1>8 DEF EndPoll, TypeInv, TypeOK, inputs, service, seen, ghosts
<1>9. CASE Take
  BY <1>9, TakeType
<1>10. CASE Handle
  <2>1. CASE UNCHANGED posts
    BY <1>10, <2>1 DEF Handle, TypeInv, TypeOK, inputs, seen, ghosts
  <2>2. CASE ~UNCHANGED posts
    <3>1. /\ \E x : posts' = Append(posts, x)
          /\ UNCHANGED <<inputs, forgotten, PollVars, channel>>
      BY <1>10, <2>2 DEF Handle, PollVars, ghosts
    <3> QED
      BY <3>1, PostingType
  <2> QED
    BY <2>1, <2>2
<1>11. CASE DaemonStops
  BY <1>11, DaemonStopsType
<1>12. CASE Stop
  BY <1>12 DEF Stop, TypeInv, TypeOK, inputs, service, seen, ghosts
<1>13. CASE UNCHANGED vars
  BY <1>13 DEF vars, TypeInv, TypeOK, inputs, service, seen, ghosts
<1> QED
  BY <1>1, <1>2, <1>3, <1>4, <1>5, <1>6, <1>7, <1>8, <1>9, <1>10, <1>11,
     <1>12, <1>13 DEF Next, Halted

\* Whatever service is watched, the channel never holds more events than it has
\* room for and holds the latest ones sent, the watcher polls only what is
\* configured and waits between two polls with nothing left to visit or to
\* send, and what it saw last in a chat is a message of the service.
THEOREM TypeCorrect == Spec => []TypeOK
<1>1. TypeInv => TypeOK
  BY DEF TypeInv
<1> QED
  BY <1>1, InitType, StepType, PTL DEF Spec

LEMMA TypeAlways == Spec => []TypeInv
BY InitType, StepType, PTL DEF Spec

-----------------------------------------------------------------------------
(* What a poll of Telegram returns *)

\* What getUpdates may return: the messages of people it still keeps.
Updates == {k \in DOMAIN posts : k > forgotten /\ posts[k].by = "person"}

Increasing(s) == \A m, n \in 1 .. Len(s) : m < n => s[m] < s[n]

\* A poll returns the first of the updates: as many as it asks for, the oldest
\* first.
LEMMA TelegramBatch ==
  ASSUME IsList(posts), WatcherAssumption, config.service = "telegram", NEW t
  PROVE  /\ Batched(t) \in Seq(Updates) /\ Increasing(Batched(t))
         /\ \A k \in ToSet(Batched(t)) :
              /\ Cardinality({i \in Updates : i <= k}) <= Batch
              /\ \A i \in Updates : i <= k => i \in ToSet(Batched(t))
         /\ \A k \in Updates : Cardinality({i \in Updates : i <= k}) <= Batch
              => k \in ToSet(Batched(t))
<1> DEFINE u == Ascending(Updates)
           first == Batched(t)
<1>1. DOMAIN posts = 1 .. Len(posts) /\ Len(posts) \in Nat
  BY DEF IsList
<1>2. IsFiniteSet(Updates) /\ Updates \in SUBSET Nat
  <2>1. Updates \in SUBSET (1 .. Len(posts))
    BY <1>1 DEF Updates
  <2>2. IsFiniteSet(1 .. Len(posts))
    BY <1>1, FS_Interval
  <2>3. IsFiniteSet(Updates)
    BY <2>1, <2>2, FS_Subset
  <2>4. 1 .. Len(posts) \subseteq Nat
    BY <1>1
  <2> QED
    BY <2>1, <2>3, <2>4
<1>3. /\ u \in Seq(Updates)
      /\ \A m, n \in 1 .. Len(u) : m < n => u[m] < u[n]
      /\ \A k \in Updates : \E n \in 1 .. Len(u) : u[n] = k
      /\ \A n \in 1 .. Len(u) : Cardinality({i \in Updates : i < u[n]}) = n - 1
  BY <1>2, AscendingFacts
<1>4. first = SubSeq(u, 1, Min({Batch, Len(u)}))
  BY DEF Batched, History, TelegramHistory, Updates
<1>5. Batch \in Nat
  BY DEF WatcherAssumption
<1> HIDE DEF u, first
<1>6. /\ first \in Seq(Updates)
      /\ Len(first) = IF Batch <= Len(u) THEN Batch ELSE Len(u)
      /\ \A n \in 1 .. Len(first) : first[n] = u[n]
  BY <1>3, <1>4, <1>5, FirstFacts
<1>7. Len(u) \in Nat /\ Len(first) \in Nat /\ DOMAIN first = 1 .. Len(first)
  BY <1>3, <1>6, SMTT(30)
<1>8. 1 .. Len(first) \subseteq 1 .. Len(u)
  BY <1>5, <1>6, <1>7
<1>9. Increasing(first)
  BY <1>3, <1>6, <1>8 DEF Increasing
<1>10. \A k : k \in ToSet(first) <=> \E n \in 1 .. Len(first) : u[n] = k
  BY <1>6, <1>7 DEF ToSet
<1>11. ASSUME NEW n \in 1 .. Len(u)
       PROVE  Cardinality({i \in Updates : i <= u[n]}) = n
  <2> DEFINE below == {i \in Updates : i < u[n]}
  <2>0. u[n] \in Updates
    BY <1>3
  <2>1. u[n] \in Nat
    BY <1>2, <2>0
  <2>2. {i \in Updates : i <= u[n]} = below \union {u[n]} /\ u[n] \notin below
    <3>1. \A i \in Updates : i <= u[n] <=> i < u[n] \/ i = u[n]
      BY <1>2, <2>1
    <3>2. ~(u[n] < u[n])
      BY <2>1
    <3> QED
      BY <2>0, <3>1, <3>2
  <2>3. below \in SUBSET Updates
    OBVIOUS
  <2>4. Cardinality(below) = n - 1
    BY <1>3
  <2> HIDE DEF below
  <2>5. IsFiniteSet(below)
    BY <1>2, <2>3, FS_Subset
  <2>6. Cardinality(below \union {u[n]}) = Cardinality(below) + 1
    BY <2>2, <2>5, FS_AddElement
  <2>7. n - 1 + 1 = n
    BY <1>7
  <2> QED
    BY <2>2, <2>4, <2>6, <2>7
<1>12. ASSUME NEW k \in ToSet(first)
       PROVE  /\ Cardinality({i \in Updates : i <= k}) <= Batch
              /\ \A i \in Updates : i <= k => i \in ToSet(first)
  <2>1. PICK n \in 1 .. Len(first) : u[n] = k
    BY <1>10, <1>12
  <2>2. n \in 1 .. Len(u) /\ n <= Batch
    BY <1>5, <1>6, <1>7, <1>8, <2>1
  <2>3. ASSUME NEW i \in Updates, i <= k
        PROVE  i \in ToSet(first)
    <3>1. PICK j \in 1 .. Len(u) : u[j] = i
      BY <1>3
    <3>2. ~(n < j)
      <4>1. i \in Nat /\ u[n] \in Updates /\ u[n] \in Nat
        <5>1. u[n] \in Updates
          BY <1>3, <2>2
        <5> QED
          BY <1>2, <5>1
      <4>2. ~(u[n] < u[j])
        BY <2>1, <2>3, <3>1, <4>1
      <4> QED
        BY <1>3, <2>2, <4>2
    <3>3. j \in 1 .. Len(first)
      BY <1>7, <2>1, <3>2
    <3> QED
      BY <1>10, <3>1, <3>3
  <2> QED
    BY <1>11, <2>1, <2>2, <2>3
<1>13. ASSUME NEW k \in Updates, Cardinality({i \in Updates : i <= k}) <= Batch
       PROVE  k \in ToSet(first)
  <2>1. PICK n \in 1 .. Len(u) : u[n] = k
    BY <1>3
  <2>2. n <= Batch
    BY <1>11, <1>13, <2>1
  <2>3. n \in 1 .. Len(first)
    BY <1>5, <1>6, <1>7, <2>1, <2>2
  <2> QED
    BY <1>10, <2>1, <2>3
<1> QED
  BY <1>6, <1>9, <1>12, <1>13 DEF first

\* Of the messages in the list, only `last` has its id.
OnlyOne(s, last) == \A k \in ToSet(s) : SameId(k, last) => k = last

\* What is fresh in a list that is increasing: everything after the last message
\* seen, if that is in the list, and more when an earlier one has its id.
LEMMA FreshFacts ==
  ASSUME NEW s \in Seq(Nat), Increasing(s), NEW last \in Nat
  PROVE  LET fresh == Fresh(s, last)
         IN  /\ fresh \in Seq(Nat) /\ Increasing(fresh)
             /\ ToSet(fresh) \subseteq ToSet(s)
             /\ last \in ToSet(s) =>
                  \A k \in ToSet(s) : k > last => k \in ToSet(fresh)
             /\ last \in ToSet(s) /\ OnlyOne(s, last) =>
                  \A k \in ToSet(fresh) : k > last
             /\ last \notin ToSet(s) /\ OnlyOne(s, last) =>
                  \A k \in ToSet(s) : k \in ToSet(fresh)
             /\ fresh # <<>> => /\ Last(fresh) \in ToSet(fresh)
                                /\ \A k \in ToSet(s) : k <= Last(fresh)
<1> DEFINE fresh == Fresh(s, last)
<1>1. Len(s) \in Nat /\ DOMAIN s = 1 .. Len(s)
  OBVIOUS
<1>2. \A x : x \in ToSet(s) <=> \E n \in 1 .. Len(s) : s[n] = x
  BY <1>1 DEF ToSet
<1>4. PICK j \in 0 .. Len(s) :
        /\ fresh \in Seq(Nat) /\ Len(fresh) = Len(s) - j
        /\ \A n \in 1 .. Len(fresh) : fresh[n] = s[j + n]
        /\ j > 0 => SameId(s[j], last)
        /\ \A n \in 1 .. Len(s) : SameId(s[n], last) => j > 0 /\ (j < n \/ j = n)
  BY FreshIsSuffix
<1> HIDE DEF fresh
<1>5. /\ Len(fresh) \in Nat /\ DOMAIN fresh = 1 .. Len(fresh)
      /\ \A n \in 1 .. Len(fresh) : fresh[n] \in Nat
  <2>1. fresh \in Seq(Nat)
    BY <1>4
  <2> QED
    BY <2>1
<1>6. \A x : x \in ToSet(fresh) <=> \E n \in 1 .. Len(fresh) : fresh[n] = x
  BY <1>5 DEF ToSet
<1>7. \A n \in 1 .. Len(fresh) : j + n \in 1 .. Len(s) /\ fresh[n] = s[j + n]
  BY <1>1, <1>4, <1>5
<1>8. Increasing(fresh)
  <2> SUFFICES ASSUME NEW m \in 1 .. Len(fresh), NEW n \in 1 .. Len(fresh), m < n
               PROVE  fresh[m] < fresh[n]
    BY DEF Increasing
  <2>1. j + m < j + n
    BY <1>5
  <2> QED
    BY <1>7, <2>1 DEF Increasing
<1>9. ToSet(fresh) \subseteq ToSet(s)
  BY <1>2, <1>6, <1>7
<1>10. \A n \in 1 .. Len(s) : j < n => s[n] \in ToSet(fresh)
  <2> SUFFICES ASSUME NEW n \in 1 .. Len(s), j < n
               PROVE  s[n] \in ToSet(fresh)
    OBVIOUS
  <2>1. n - j \in 1 .. Len(fresh) /\ j + (n - j) = n
    BY <1>1, <1>4
  <2>2. fresh[n - j] = s[n]
    BY <1>7, <2>1
  <2> QED
    BY <1>6, <2>1, <2>2
<1>11. ASSUME last \in ToSet(s)
       PROVE  j \in 1 .. Len(s) /\ s[j] <= last
  <2>1. PICK n \in 1 .. Len(s) : s[n] = last
    BY <1>2, <1>11
  <2>2. j > 0 /\ (j < n \/ j = n)
    BY <1>4, <2>1 DEF SameId
  <2>3. j \in 1 .. Len(s) /\ s[j] \in Nat
    BY <1>1, <2>2
  <2>4. j < n => s[j] < s[n]
    BY <2>3 DEF Increasing
  <2> QED
    BY <2>1, <2>2, <2>3, <2>4
<1>12. ASSUME last \in ToSet(s), NEW k \in ToSet(s), k > last
       PROVE  k \in ToSet(fresh)
  <2>1. PICK n \in 1 .. Len(s) : s[n] = k
    BY <1>2, <1>12
  <2>2. j \in 1 .. Len(s) /\ s[j] \in Nat /\ s[j] <= last /\ k \in Nat
    BY <1>11, <1>12, <2>1
  <2>3. ~(n <= j)
    <3>1. n = j \/ ~(n < j)
      <4>1. n < j => s[n] < s[j]
        BY <2>2 DEF Increasing
      <4> QED
        BY <1>12, <2>1, <2>2, <4>1
    <3>2. n # j
      BY <1>12, <2>1, <2>2
    <3> QED
      BY <2>2, <3>1, <3>2
  <2>4. j < n
    BY <2>2, <2>3
  <2> QED
    BY <1>10, <2>1, <2>4
<1>13. ASSUME last \in ToSet(s), OnlyOne(s, last), NEW k \in ToSet(fresh)
       PROVE  k > last
  <2>1. PICK n \in 1 .. Len(fresh) : fresh[n] = k
    BY <1>6
  <2>2. j \in 1 .. Len(s) /\ SameId(s[j], last) /\ j < j + n
    BY <1>1, <1>4, <1>5, <1>11, <1>13, <2>1
  <2>3. s[j] = last
    BY <1>2, <1>13, <2>2 DEF OnlyOne
  <2> QED
    BY <1>7, <2>1, <2>2, <2>3 DEF Increasing
<1>14. ASSUME last \notin ToSet(s), OnlyOne(s, last), NEW k \in ToSet(s)
       PROVE  k \in ToSet(fresh)
  <2>1. ~(j > 0)
    <3>1. ASSUME j > 0
          PROVE  FALSE
      <4>1. j \in 1 .. Len(s) /\ SameId(s[j], last)
        BY <1>1, <1>4, <3>1
      <4> QED
        BY <1>2, <1>14, <4>1 DEF OnlyOne
    <3> QED
      BY <3>1
  <2>2. \A n \in 1 .. Len(s) : j < n
    BY <1>1, <2>1
  <2> QED
    BY <1>2, <1>10, <2>2
<1>15. ASSUME fresh # <<>>
       PROVE  /\ Last(fresh) \in ToSet(fresh)
              /\ \A k \in ToSet(s) : k <= Last(fresh)
  <2>1. Len(fresh) \in 1 .. Len(fresh)
    BY <1>4, <1>5, <1>15
  <2>2. Last(fresh) = s[Len(s)] /\ Len(s) \in 1 .. Len(s)
    <3>1. Last(fresh) = fresh[Len(fresh)]
      BY <1>15 DEF Last
    <3>2. fresh[Len(fresh)] = s[j + Len(fresh)] /\ j + Len(fresh) = Len(s)
      BY <1>1, <1>4, <1>5, <2>1
    <3>3. Len(s) \in 1 .. Len(s)
      BY <1>7, <2>1, <3>2
    <3> QED
      BY <3>1, <3>2, <3>3
  <2>3. ASSUME NEW n \in 1 .. Len(s)
        PROVE  s[n] <= s[Len(s)]
    <3>1. n = Len(s) \/ n < Len(s)
      <4>1. n \in Nat /\ n <= Len(s) /\ Len(s) \in Nat
        OBVIOUS
      <4> QED
        BY <4>1
    <3>2. s[n] \in Nat /\ s[Len(s)] \in Nat
      BY <2>2
    <3> QED
      BY <2>2, <3>1, <3>2 DEF Increasing
  <2>4. Last(fresh) \in ToSet(fresh)
    <3>1. Last(fresh) = fresh[Len(fresh)]
      BY <1>15 DEF Last
    <3> QED
      BY <1>6, <2>1, <3>1
  <2> QED
    BY <1>2, <2>2, <2>3, <2>4
<1> QED
  BY <1>4, <1>8, <1>9, <1>12, <1>13, <1>14, <1>15 DEF fresh

-----------------------------------------------------------------------------
(* What is known of Telegram's updates at any time *)

Known(t) == lastSeen[t] # None

UpTo(k) == {i \in Updates : i <= k}

\* An id tells the last message seen from the others: none has the same, or
\* Telegram has dropped nothing and lists it.
Clear == forgotten = 0 \/ IdsDiffer

\* In each chat that was found: the last message seen is a person's, not before
\* the one it was found at; while Telegram keeps it a poll reaches it; and what
\* Telegram keeps of the messages between the two was returned by some poll.
Seen(t) ==
  /\ Known(t) <=> base[t] # None
  /\ Known(t) =>
       /\ posts[lastSeen[t]].by = "person"
       /\ base[t] <= lastSeen[t]
       /\ lastSeen[t] > forgotten => Cardinality(UpTo(lastSeen[t])) <= Batch
       /\ \A k \in Updates : base[t] < k /\ k <= lastSeen[t] => k \in shown

SeenInv == config.service = "telegram" /\ Clear => \A t \in Chats : Seen(t)

LEMMA UpToIsFinite ==
  ASSUME IsList(posts), NEW k
  PROVE  IsFiniteSet(UpTo(k)) /\ Updates \in SUBSET Nat
<1>1. DOMAIN posts = 1 .. Len(posts) /\ Len(posts) \in Nat
  BY DEF IsList
<1>2. UpTo(k) \in SUBSET (1 .. Len(posts)) /\ Updates \in SUBSET (1 .. Len(posts))
  BY <1>1 DEF UpTo, Updates
<1>3. IsFiniteSet(1 .. Len(posts))
  BY <1>1, FS_Interval
<1>4. IsFiniteSet(UpTo(k))
  BY <1>2, <1>3, FS_Subset
<1>5. 1 .. Len(posts) \subseteq Nat
  BY <1>1
<1> QED
  BY <1>2, <1>4, <1>5

\* A message is posted or an update dropped, at most.
Posting ==
  \/ /\ \E x : posts' = Append(posts, x)
     /\ UNCHANGED forgotten
  \/ forgotten' = forgotten + 1 /\ UNCHANGED posts
  \/ UNCHANGED <<posts, forgotten>>

\* The messages there were keep their content and their ids, so that ids which
\* differ differed before.
LEMMA IdsStay ==
  ASSUME TypeInv, UNCHANGED config, Posting
  PROVE  /\ DOMAIN posts \subseteq DOMAIN posts'
         /\ \A k \in DOMAIN posts : posts'[k] = posts[k]
         /\ IdsDiffer' => IdsDiffer
         /\ Clear' => Clear
<1>1. DOMAIN posts = 1 .. Len(posts) /\ Len(posts) \in Nat /\ IsList(posts)
  BY AppendIsList DEF TypeInv
<1>2. DOMAIN posts \subseteq DOMAIN posts' /\ \A k \in DOMAIN posts : posts'[k] = posts[k]
  <2>1. ASSUME NEW x, posts' = Append(posts, x)
        PROVE  /\ DOMAIN posts \subseteq DOMAIN posts'
               /\ \A k \in DOMAIN posts : posts'[k] = posts[k]
    <3>1. /\ DOMAIN Append(posts, x) = 1 .. Len(posts) + 1
          /\ \A k \in 1 .. Len(posts) : Append(posts, x)[k] = posts[k]
      BY <1>1, AppendIsList
    <3>2. 1 .. Len(posts) \subseteq 1 .. Len(posts) + 1
      BY <1>1
    <3> QED
      BY <1>1, <2>1, <3>1, <3>2
  <2> QED
    BY <2>1 DEF Posting
<1>3. ASSUME NEW k \in DOMAIN posts
      PROVE  MessageId(config.service, posts, k)' = MessageId(config.service, posts, k)
  <2>1. \A j \in 1 .. k - 1 : j \in DOMAIN posts
    BY <1>1
  <2>2. posts'[k] = posts[k] /\ \A j \in 1 .. k - 1 : posts'[j] = posts[j]
    BY <1>2, <2>1
  <2> DEFINE c == posts[k].chat
  <2>3. {j \in 1 .. k - 1 : posts'[j].chat = c} = {j \in 1 .. k - 1 : posts[j].chat = c}
    BY <2>2
  <2> QED
    BY <2>2, <2>3 DEF MessageId
<1>4. ASSUME IdsDiffer'
      PROVE  IdsDiffer
  <2> SUFFICES ASSUME NEW j \in DOMAIN posts, NEW k \in DOMAIN posts, SameId(j, k)
               PROVE  j = k
    BY DEF IdsDiffer
  <2>1. SameId(j, k)'
    BY <1>3 DEF SameId
  <2>2. j \in DOMAIN posts' /\ k \in DOMAIN posts'
    BY <1>2
  <2> QED
    BY <1>4, <2>1, <2>2 DEF IdsDiffer
<1>5. forgotten' = 0 => forgotten = 0
  <2>1. forgotten \in Nat
    BY <1>1 DEF TypeInv, TypeOK
  <2> QED
    BY <2>1 DEF Posting
<1> QED
  BY <1>2, <1>4, <1>5 DEF Clear

\* What is posted comes after all there was; what is forgotten goes.
LEMMA UpdatesLater ==
  ASSUME TypeInv, Posting, NEW l \in DOMAIN posts
  PROVE  /\ \A k \in Updates' : k <= l => k \in Updates
         /\ posts'[l] = posts[l]
         /\ UpTo(l)' \in SUBSET UpTo(l)
         /\ Cardinality(UpTo(l)') <= Cardinality(UpTo(l))
         /\ Cardinality(UpTo(l)') \in Nat /\ Cardinality(UpTo(l)) \in Nat
         /\ l > forgotten' => l > forgotten
<1>1. DOMAIN posts = 1 .. Len(posts) /\ Len(posts) \in Nat /\ IsList(posts)
  BY AppendIsList DEF TypeInv
<1>2. /\ forgotten \in Nat /\ l \in Nat
      /\ forgotten' = forgotten \/ forgotten' = forgotten + 1
  BY <1>1 DEF TypeInv, TypeOK, Posting
<1>3. /\ posts'[l] = posts[l]
      /\ \A k \in DOMAIN posts' : k <= l => k \in DOMAIN posts /\ posts'[k] = posts[k]
      /\ \A k \in DOMAIN posts' : k \in Nat
  <2>1. ASSUME NEW x, posts' = Append(posts, x)
        PROVE  /\ posts'[l] = posts[l]
               /\ \A k \in DOMAIN posts' : k <= l => k \in DOMAIN posts /\ posts'[k] = posts[k]
               /\ \A k \in DOMAIN posts' : k \in Nat
    <3>1. /\ DOMAIN posts' = 1 .. Len(posts) + 1
          /\ \A k \in 1 .. Len(posts) : posts'[k] = posts[k]
      <4>1. /\ DOMAIN Append(posts, x) = 1 .. Len(posts) + 1
            /\ \A k \in 1 .. Len(posts) : Append(posts, x)[k] = posts[k]
        BY <1>1, AppendIsList
      <4> QED
        BY <2>1, <4>1
    <3>2. \A k \in 1 .. Len(posts) + 1 : k \in Nat /\ (k <= l => k \in 1 .. Len(posts))
      BY <1>1
    <3> QED
      BY <1>1, <3>1, <3>2
  <2>2. ASSUME posts' = posts
        PROVE  \A k \in DOMAIN posts' : k \in Nat
    <3>1. \A k \in 1 .. Len(posts) : k \in Nat
      OBVIOUS
    <3> QED
      BY <1>1, <2>2, <3>1
  <2> QED
    BY <2>1, <2>2 DEF Posting
<1>4. \A k \in Updates' : k <= l => k \in Updates
  BY <1>2, <1>3 DEF Updates
<1>5. UpTo(l)' \in SUBSET UpTo(l)
  BY <1>4 DEF UpTo
<1>6. IsFiniteSet(UpTo(l))
  BY <1>1, UpToIsFinite
<1>7. /\ Cardinality(UpTo(l)') <= Cardinality(UpTo(l))
      /\ Cardinality(UpTo(l)') \in Nat /\ Cardinality(UpTo(l)) \in Nat
  BY <1>5, <1>6, FS_Subset, FS_CardinalityType
<1> QED
  BY <1>2, <1>3, <1>4, <1>5, <1>7

\* Nothing but a visit changes what a watcher knows.
LEMMA SeenUnvisited ==
  ASSUME TypeInv, SeenInv, UNCHANGED <<config, lastSeen, base>>,
         shown \subseteq shown', Posting
  PROVE  SeenInv'
<1> SUFFICES ASSUME config.service = "telegram", Clear', NEW t \in Chats
             PROVE  Seen(t)'
  BY DEF SeenInv
<1>1. Seen(t)
  BY IdsStay DEF SeenInv
<1>2. CASE ~Known(t)
  BY <1>1, <1>2 DEF Seen, Known
<1>3. CASE Known(t)
  <2>0. lastSeen[t] \in DOMAIN posts
    BY <1>3 DEF TypeInv, TypeOK, Known
  <2>1. PICK l \in DOMAIN posts :
          lastSeen[t] = l /\ lastSeen'[t] = l /\ base'[t] = base[t]
    BY <2>0
  <2>2. /\ Known(t)' /\ base[t] # None /\ posts[l].by = "person" /\ base[t] <= l
        /\ l > forgotten => Cardinality(UpTo(l)) <= Batch
        /\ \A k \in Updates : base[t] < k /\ k <= l => k \in shown
    BY <1>1, <1>3, <2>1 DEF Seen, Known
  <2>3. /\ \A k \in Updates' : k <= l => k \in Updates
        /\ posts'[l] = posts[l]
        /\ Cardinality(UpTo(l)') <= Cardinality(UpTo(l))
        /\ Cardinality(UpTo(l)') \in Nat /\ Cardinality(UpTo(l)) \in Nat
        /\ l > forgotten' => l > forgotten
    BY <2>1, UpdatesLater
  <2>4. l > forgotten' => Cardinality(UpTo(l)') <= Batch
    BY <2>2, <2>3, WatcherAssumption DEF WatcherAssumption
  <2>5. \A k \in Updates' : base[t] < k /\ k <= l => k \in shown'
    BY <2>2, <2>3
  <2>6. UpTo(lastSeen[t])' = UpTo(l)'
    BY <2>1 DEF UpTo
  <2> QED
    BY <2>1, <2>2, <2>3, <2>4, <2>5, <2>6 DEF Seen
<1> QED
  BY <1>2, <1>3

\* What a visit makes of an update it has not seen.
LEMMA FreshUpdates ==
  ASSUME TypeInv, config.service = "telegram", Clear,
         NEW t \in Chats, Known(t), Seen(t)
  PROVE  /\ \A k \in ToSet(FreshIn(t)) :
              /\ k \in Updates /\ Cardinality(UpTo(k)) <= Batch
              /\ \A i \in Updates : i <= k => i \in ToSet(Batched(t))
              /\ IdsDiffer => k > lastSeen[t]
         /\ \A k \in ToSet(Batched(t)) : k > lastSeen[t] => k \in ToSet(FreshIn(t))
         /\ ToSet(Batched(t)) \subseteq Updates
         /\ FreshIn(t) # <<>> =>
              /\ Last(FreshIn(t)) \in ToSet(FreshIn(t))
              /\ \A k \in ToSet(FreshIn(t)) : k <= Last(FreshIn(t))
              /\ lastSeen[t] <= Last(FreshIn(t))
         /\ FreshIn(t) \in Seq(Nat) /\ Increasing(FreshIn(t))
<1> DEFINE b == Batched(t)
           fresh == FreshIn(t)
           last == lastSeen[t]
<1>1. IsList(posts) /\ Updates \in SUBSET Nat
  BY UpToIsFinite DEF TypeInv
<1>2. /\ b \in Seq(Updates) /\ Increasing(b)
      /\ \A k \in ToSet(b) :
           /\ Cardinality(UpTo(k)) <= Batch
           /\ \A i \in Updates : i <= k => i \in ToSet(b)
      /\ \A k \in Updates : Cardinality(UpTo(k)) <= Batch => k \in ToSet(b)
  BY <1>1, TelegramBatch, WatcherAssumption DEF UpTo
<1>3. /\ last \in DOMAIN posts /\ last \in Nat /\ last > 0 /\ posts[last].by = "person"
      /\ last > forgotten => Cardinality(UpTo(last)) <= Batch
  <2>1. last \in DOMAIN posts
    BY DEF TypeInv, TypeOK, Known
  <2>2. last \in Nat /\ last > 0
    BY <1>1, <2>1 DEF IsList
  <2> QED
    BY <2>1, <2>2 DEF Seen
<1>4. forgotten \in Nat
  BY <1>1 DEF TypeInv, TypeOK, IsList
<1>5. fresh = Fresh(b, last)
  BY DEF FreshIn
<1>13. IdsDiffer => OnlyOne(b, last)
  <2>1. ToSet(b) \subseteq DOMAIN posts
    <3>1. ToSet(b) \subseteq Updates
      BY <1>1, <1>2, PartOfList
    <3> QED
      BY <3>1 DEF Updates
  <2> QED
    BY <1>3, <2>1 DEF OnlyOne, IdsDiffer
<1> HIDE DEF b, last, fresh
<1>6. b \in Seq(Nat) /\ ToSet(b) \subseteq Updates
  BY <1>1, <1>2, PartOfList
<1>7. /\ fresh \in Seq(Nat) /\ Increasing(fresh)
      /\ ToSet(fresh) \subseteq ToSet(b)
      /\ last \in ToSet(b) => \A k \in ToSet(b) : k > last => k \in ToSet(fresh)
      /\ last \in ToSet(b) /\ OnlyOne(b, last) => \A k \in ToSet(fresh) : k > last
      /\ last \notin ToSet(b) /\ OnlyOne(b, last) =>
           \A k \in ToSet(b) : k \in ToSet(fresh)
      /\ fresh # <<>> => /\ Last(fresh) \in ToSet(fresh)
                         /\ \A k \in ToSet(b) : k <= Last(fresh)
  BY <1>2, <1>3, <1>5, <1>6, FreshFacts
<1>8. last \in ToSet(b) \/ (IdsDiffer /\ \A k \in ToSet(b) : k > last)
  <2>1. CASE last > forgotten
    <3>1. last \in Updates
      BY <1>3, <2>1 DEF Updates
    <3> QED
      BY <1>2, <1>3, <2>1, <3>1
  <2>2. CASE ~(last > forgotten)
    <3>1. IdsDiffer
      BY <1>3, <2>2 DEF Clear
    <3>2. ASSUME NEW k \in ToSet(b)
          PROVE  k > last
      <4>1. k \in Nat /\ k > forgotten
        BY <1>1, <1>6 DEF Updates
      <4> QED
        BY <1>3, <1>4, <2>2, <4>1
    <3> QED
      BY <3>1, <3>2
  <2> QED
    BY <2>1, <2>2
<1>9. \A k \in ToSet(fresh) :
        /\ k \in Updates /\ Cardinality(UpTo(k)) <= Batch
        /\ \A i \in Updates : i <= k => i \in ToSet(b)
        /\ IdsDiffer => k > last
  BY <1>2, <1>6, <1>7, <1>8, <1>13
<1>10. \A k \in ToSet(b) : k > last => k \in ToSet(fresh)
  BY <1>7, <1>8, <1>13
<1>11. fresh # <<>> => /\ Last(fresh) \in ToSet(fresh)
                      /\ \A k \in ToSet(fresh) : k <= Last(fresh)
  BY <1>7
<1>12. fresh # <<>> => last <= Last(fresh)
  <2> SUFFICES ASSUME fresh # <<>>
               PROVE  last <= Last(fresh)
    OBVIOUS
  <2>1. Last(fresh) \in ToSet(b)
    BY <1>7
  <2>2. Last(fresh) \in Nat
    BY <1>1, <1>6, <2>1
  <2>3. last \in ToSet(b) \/ Last(fresh) > last
    BY <1>8, <2>1
  <2> QED
    BY <1>3, <1>7, <2>2, <2>3
<1> QED
  BY <1>6, <1>7, <1>9, <1>10, <1>11, <1>12 DEF b, last, fresh

\* Of those, the wanted ones are emitted, in their order.
LEMMA WantedUpdates ==
  ASSUME TypeInv, config.service = "telegram", Clear,
         NEW t \in Chats, Known(t), Seen(t)
  PROVE  /\ WantedIn(t) \in Seq(Nat) /\ Increasing(WantedIn(t))
         /\ \A n \in 1 .. Len(WantedIn(t)) : WantedIn(t)[n] \in ToSet(FreshIn(t))
         /\ \A k \in ToSet(FreshIn(t)) : Wanted(k) =>
              \E n \in 1 .. Len(WantedIn(t)) : WantedIn(t)[n] = k
<1> DEFINE fresh == FreshIn(t)
           places == {n \in DOMAIN fresh : Wanted(fresh[n])}
           at == Ascending(places)
           part == EntriesAt(fresh, places)
<1>1. fresh \in Seq(Nat) /\ Increasing(fresh)
  BY FreshUpdates
<1>2. part = WantedIn(t)
  BY DEF WantedIn
<1>3. places \in SUBSET (DOMAIN fresh)
  OBVIOUS
<1>4. \A n \in DOMAIN fresh : n \in places <=> Wanted(fresh[n])
  OBVIOUS
<1> HIDE DEF fresh, places
<1>5. /\ part \in Seq(Nat) /\ at \in Seq(places) /\ Len(part) = Len(at)
      /\ \A n \in 1 .. Len(at) : part[n] = fresh[at[n]]
      /\ \A m, n \in 1 .. Len(at) : m < n => at[m] < at[n]
      /\ \A k \in places : \E n \in 1 .. Len(part) : part[n] = fresh[k]
  BY <1>1, <1>3, EntriesAtFacts
<1> HIDE DEF at, part
<1>6. \A n \in 1 .. Len(part) : at[n] \in 1 .. Len(fresh) /\ part[n] = fresh[at[n]]
  <2>1. \A n \in 1 .. Len(at) : at[n] \in places
    BY <1>5
  <2>2. DOMAIN fresh = 1 .. Len(fresh)
    BY <1>1
  <2> QED
    BY <1>3, <1>5, <2>1, <2>2
<1>7. Increasing(part)
  BY <1>1, <1>5, <1>6 DEF Increasing
<1>8. \A n \in 1 .. Len(part) : part[n] \in ToSet(fresh)
  BY <1>1, <1>6 DEF ToSet
<1>9. \A k \in ToSet(fresh) : Wanted(k) => \E n \in 1 .. Len(part) : part[n] = k
  <2> SUFFICES ASSUME NEW k \in ToSet(fresh), Wanted(k)
               PROVE  \E n \in 1 .. Len(part) : part[n] = k
    OBVIOUS
  <2>1. PICK i \in DOMAIN fresh : fresh[i] = k
    BY DEF ToSet
  <2>2. i \in places
    BY <1>4, <2>1
  <2> QED
    BY <1>5, <2>1, <2>2
<1> QED
  BY <1>2, <1>5, <1>7, <1>8, <1>9 DEF fresh

\* A visit that succeeds moves the last message seen forward, over messages it
\* returns.
LEMMA SeenVisited ==
  ASSUME TypeInv, SeenInv, config.service = "telegram", Clear,
         NEW t \in Chats, VisitChannel(t)
  PROVE  SeenInv' /\ (Known(t) => Known(t)' /\ lastSeen[t] <= lastSeen'[t])
<1>1. /\ UNCHANGED <<config, posts, forgotten>>
      /\ \A u \in Chats \ {t} : lastSeen'[u] = lastSeen[u] /\ base'[u] = base[u]
      /\ shown \subseteq shown'
      /\ lastSeen \in [Chats -> (DOMAIN posts) \union {None}]
      /\ base \in [Chats -> (DOMAIN posts) \union {None}]
  BY DEF VisitChannel, TypeInv, TypeOK, inputs, service
<1>2. /\ IsList(posts) /\ Updates \in SUBSET Nat /\ DOMAIN posts \subseteq Nat
      /\ None \notin Nat /\ Batch \in Nat /\ forgotten \in Nat
  <2>1. IsList(posts) /\ Updates \in SUBSET Nat
    BY UpToIsFinite DEF TypeInv
  <2>2. DOMAIN posts \subseteq Nat /\ forgotten \in Nat
    BY <2>1 DEF IsList, TypeInv, TypeOK
  <2> QED
    BY <2>1, <2>2, WatcherAssumption, AdaptersAssumption
    DEF WatcherAssumption, AdaptersAssumption
<1>3. Updates' = Updates /\ \A k : UpTo(k)' = UpTo(k)
  BY <1>1 DEF Updates, UpTo
<1>4. ASSUME NEW u \in Chats, u # t
      PROVE  Seen(u)'
  <2>1. Seen(u) /\ lastSeen'[u] = lastSeen[u] /\ base'[u] = base[u]
    BY <1>1, <1>4 DEF SeenInv
  <2>2. UpTo(lastSeen[u])' = UpTo(lastSeen[u])
    BY <2>1, <1>3 DEF UpTo
  <2> QED
    BY <1>1, <1>3, <2>1, <2>2 DEF Seen, Known
<1>5. Seen(t)
  BY DEF SeenInv
<1>6. CASE UNCHANGED <<lastSeen, base>>
  <2>1. UpTo(lastSeen[t])' = UpTo(lastSeen[t])
    BY <1>3, <1>6 DEF UpTo
  <2>2. Seen(t)'
    BY <1>1, <1>3, <1>5, <1>6, <2>1 DEF Seen, Known
  <2>3. Known(t) => lastSeen[t] <= lastSeen'[t]
    BY <1>1, <1>2, <1>6 DEF Known
  <2> QED
    BY <1>4, <1>6, <2>2, <2>3 DEF SeenInv, Known
<1>7. CASE /\ lastSeen[t] = None
           /\ lastSeen' = [lastSeen EXCEPT ![t] = Found(t)]
           /\ base' = [base EXCEPT ![t] = Found(t)]
  <2>1. lastSeen'[t] = Found(t) /\ base'[t] = Found(t)
    BY <1>1, <1>7
  <2>2. CASE Batched(t) = <<>>
    <3>1. Found(t) = None
      BY <2>2 DEF Found
    <3>2. Seen(t)'
      BY <2>1, <3>1 DEF Seen, Known
    <3> QED
      BY <1>4, <1>7, <3>2 DEF SeenInv, Known
  <2>3. CASE Batched(t) # <<>>
    <3>1. PICK k : k = Found(t) /\ k \in ToSet(Batched(t)) /\ k \in Updates
      <4>1. Batched(t) \in Seq(Updates)
        BY <1>2, TelegramBatch, WatcherAssumption
      <4>2. Len(Batched(t)) \in DOMAIN Batched(t)
        BY <2>3, <4>1
      <4>3. Found(t) = Batched(t)[Len(Batched(t))]
        BY <2>3 DEF Found, Last
      <4> QED
        BY <4>1, <4>2, <4>3 DEF ToSet
    <3>2. Cardinality(UpTo(k)) <= Batch
      BY <1>2, <3>1, TelegramBatch, WatcherAssumption DEF UpTo
    <3>3. UpTo(lastSeen[t])' = UpTo(k)
      BY <1>3, <2>1, <3>1 DEF UpTo
    <3>4. k \in Nat /\ posts'[k].by = "person"
      BY <1>1, <1>2, <3>1 DEF Updates
    <3>5. \A i \in Updates : ~(k < i /\ i <= k)
      BY <1>2, <3>4
    <3>6. Seen(t)'
      BY <1>2, <1>3, <2>1, <3>1, <3>2, <3>3, <3>4, <3>5 DEF Seen, Known
    <3> QED
      BY <1>4, <1>7, <3>6 DEF SeenInv, Known
  <2> QED
    BY <2>2, <2>3
<1>8. CASE /\ Known(t)
           /\ lastSeen' = [lastSeen EXCEPT ![t] =
                             IF FreshIn(t) = <<>> THEN @ ELSE Last(FreshIn(t))]
           /\ shown' = shown \union {m \in ToSet(Batched(t)) : m > base[t]}
           /\ UNCHANGED base
  <2>1. PICK l \in DOMAIN posts : l = lastSeen[t]
    BY <1>1, <1>8 DEF Known
  <2>2. /\ base[t] # None /\ base[t] \in Nat /\ l \in Nat /\ base[t] <= l
        /\ \A k \in Updates : base[t] < k /\ k <= l => k \in shown
    BY <1>1, <1>2, <1>5, <1>8, <2>1 DEF Seen, Known
  <2>3. CASE FreshIn(t) = <<>>
    <3>1. lastSeen' = lastSeen
      BY <1>1, <1>8, <2>3
    <3> QED
      BY <1>6, <1>8, <3>1
  <2>4. CASE FreshIn(t) # <<>>
    <3>1. PICK k \in ToSet(FreshIn(t)) : k = Last(FreshIn(t))
      BY <1>5, <1>8, <2>4, FreshUpdates
    <3>2. /\ k \in Updates /\ l <= k /\ Cardinality(UpTo(k)) <= Batch
          /\ \A i \in Updates : i <= k => i \in ToSet(Batched(t))
      BY <1>5, <1>8, <2>1, <2>4, <3>1, FreshUpdates
    <3>3. lastSeen'[t] = k /\ base'[t] = base[t]
      BY <1>1, <1>8, <2>4, <3>1
    <3>4. UpTo(lastSeen[t])' = UpTo(k)
      BY <1>3, <3>3 DEF UpTo
    <3>5. k \in Nat /\ posts'[k].by = "person"
      BY <1>1, <1>2, <3>2 DEF Updates
    <3>6. \A i \in Updates : base[t] < i /\ i <= k => i \in shown'
      BY <1>2, <1>8, <2>2, <3>2
    <3>7. base[t] <= k /\ lastSeen[t] <= k
      BY <2>1, <2>2, <3>2, <3>5
    <3>8. Seen(t)'
      BY <1>2, <1>3, <2>2, <3>2, <3>3, <3>4, <3>5, <3>6, <3>7 DEF Seen, Known
    <3> QED
      BY <1>2, <1>4, <3>3, <3>5, <3>7, <3>8 DEF SeenInv, Known
  <2> QED
    BY <2>3, <2>4
<1> QED
  BY <1>6, <1>7, <1>8 DEF VisitChannel, Known

-----------------------------------------------------------------------------
(* What is emitted *)

LEMMA ConcatFacts ==
  ASSUME NEW s, IsList(s), NEW t, IsList(t)
  PROVE  /\ Len(s \o t) = Len(s) + Len(t) /\ DOMAIN (s \o t) = 1 .. Len(s) + Len(t)
         /\ Len(s) \in Nat /\ Len(t) \in Nat
         /\ \A n \in 1 .. Len(s) : (s \o t)[n] = s[n]
         /\ \A n \in 1 .. Len(t) : (s \o t)[Len(s) + n] = t[n]
<1> DEFINE S == Range(s) \union Range(t)
<1>1. s \in Seq(S) /\ t \in Seq(S)
  BY DEF IsList
<1> HIDE DEF S
<1>2. Len(s) \in Nat /\ Len(t) \in Nat /\ Len(s \o t) = Len(s) + Len(t)
  BY <1>1
<1>3. DOMAIN (s \o t) = 1 .. Len(s) + Len(t)
  BY <1>1, SMTT(30)
<1>4. \A n \in 1 .. Len(s) : (s \o t)[n] = s[n]
  BY <1>1, SMTT(30)
<1>5. \A n \in 1 .. Len(t) : (s \o t)[Len(s) + n] = t[n]
  BY <1>1, SMTT(30)
<1> QED
  BY <1>2, <1>3, <1>4, <1>5

\* The events emitted after a step are those emitted before, and `news`.
Extended(news) ==
  /\ IsList(news) /\ Len(Events) \in Nat /\ Len(news) \in Nat
  /\ DOMAIN Events = 1 .. Len(Events)
  /\ DOMAIN Events' = 1 .. Len(Events) + Len(news)
  /\ \A n \in 1 .. Len(Events) : Events'[n] = Events[n]
  /\ \A n \in 1 .. Len(news) : Events'[Len(Events) + n] = news[n]

\* Some of the last events will not be sent; the others are as they were.
Shortened ==
  /\ Len(Events) \in Nat /\ DOMAIN Events = 1 .. Len(Events)
  /\ DOMAIN Events' \subseteq DOMAIN Events
  /\ \A n \in DOMAIN Events' : Events'[n] = Events[n]

LEMMA VisitExtends ==
  ASSUME TypeInv, TypeInv', sending = <<>>, UNCHANGED sent
  PROVE  Extended(sending')
<1>1. Len(sending) = 0
  OBVIOUS
<1>2. IsList(sent) /\ IsList(sending) /\ IsList(sending')
  BY DEF TypeInv
<1>3. /\ Len(Events) = Len(sent) + 0 /\ DOMAIN Events = 1 .. Len(sent) + 0
      /\ Len(sent) \in Nat
      /\ \A n \in 1 .. Len(sent) : Events[n] = sent[n]
  BY <1>1, <1>2, ConcatFacts DEF Events
<1>4. /\ Len(sent \o sending') = Len(sent) + Len(sending')
      /\ DOMAIN (sent \o sending') = 1 .. Len(sent) + Len(sending')
      /\ Len(sending') \in Nat
      /\ \A n \in 1 .. Len(sent) : (sent \o sending')[n] = sent[n]
      /\ \A n \in 1 .. Len(sending') : (sent \o sending')[Len(sent) + n] = sending'[n]
  BY <1>2, ConcatFacts
<1>5. Events' = sent \o sending' /\ Len(Events) = Len(sent)
  BY <1>3 DEF Events
<1> QED
  BY <1>2, <1>3, <1>4, <1>5 DEF Extended

\* Sending an event leaves it one of those emitted.
LEMMA SendShortens ==
  ASSUME TypeInv, TypeInv', Send
  PROVE  Shortened /\ (open => Events' = Events)
<1>1. IsList(sent) /\ IsList(sending) /\ IsList(sending') /\ sending # <<>>
  BY DEF TypeInv, Send
<1>2. /\ Len(Events) = Len(sent) + Len(sending)
      /\ DOMAIN Events = 1 .. Len(sent) + Len(sending)
      /\ Len(sent) \in Nat /\ Len(sending) \in Nat
      /\ \A n \in 1 .. Len(sent) : Events[n] = sent[n]
  BY <1>1, ConcatFacts DEF Events
<1>3. CASE open
  <2>1. sent' = Append(sent, Head(sending)) /\ sending' = Tail(sending)
    BY <1>3 DEF Send
  <2> DEFINE S == Range(sent) \union Range(sending)
  <2>2. sent \in Seq(S) /\ sending \in Seq(S)
    BY <1>1 DEF IsList
  <2> HIDE DEF S
  <2>3. Append(sent, Head(sending)) \o Tail(sending) = sent \o sending
    <3> DEFINE a == Append(sent, Head(sending)) \o Tail(sending)
               b == sent \o sending
    <3>1. Head(sending) \in S /\ Tail(sending) \in Seq(S)
      BY <1>1, <2>2
    <3>2. a \in Seq(S) /\ b \in Seq(S) /\ Len(a) = Len(b)
      BY <1>1, <2>2, <3>1
    <3>3. \A n \in 1 .. Len(b) : a[n] = b[n]
      BY <1>1, <2>2, <3>1
    <3> HIDE DEF a, b
    <3>4. a = b
      BY <3>2, <3>3
    <3> QED
      BY <3>4 DEF a, b
  <2>4. Events' = Events
    BY <2>1, <2>3 DEF Events
  <2> QED
    BY <1>2, <2>4 DEF Shortened
<1>4. CASE ~open
  <2>1. sent' = sent /\ sending' = <<>>
    BY <1>4 DEF Send
  <2>2. Len(<<>>) = 0 /\ IsList(<<>>)
    BY ShortLists
  <2>3. /\ DOMAIN (sent \o <<>>) = 1 .. Len(sent) + 0
        /\ \A n \in 1 .. Len(sent) : (sent \o <<>>)[n] = sent[n]
    BY <1>1, <2>2, ConcatFacts
  <2>4. Events' = sent \o <<>>
    BY <2>1 DEF Events
  <2>5. /\ 1 .. Len(sent) + 0 = 1 .. Len(sent)
        /\ 1 .. Len(sent) \subseteq 1 .. Len(sent) + Len(sending)
    BY <1>2
  <2> QED
    BY <1>2, <1>4, <2>3, <2>4, <2>5 DEF Shortened
<1> QED
  BY <1>3, <1>4

\* A step that is no visit.
LEMMA OtherSteps ==
  ASSUME TypeInv, TypeInv', [Next]_vars,
         ~ \E t \in Chats : VisitChannel(t), ~ \E d \in Documents : VisitDocument(d)
  PROVE  /\ Shortened /\ (open' => open /\ Events' = Events)
         /\ UNCHANGED <<config, lastSeen, base, shown>>
         /\ Posting
<1> USE DEF Posting
<1>1. UNCHANGED <<sent, sending>> => Shortened /\ Events' = Events
  <2>1. IsList(sent) /\ IsList(sending)
    BY DEF TypeInv
  <2>2. /\ Len(sent \o sending) = Len(sent) + Len(sending)
        /\ DOMAIN (sent \o sending) = 1 .. Len(sent) + Len(sending)
        /\ Len(sent) \in Nat /\ Len(sending) \in Nat
    BY <2>1, ConcatFacts
  <2>3. /\ Len(Events) \in Nat /\ DOMAIN Events = 1 .. Len(Events)
    BY <2>2 DEF Events
  <2>4. UNCHANGED <<sent, sending>> => Events' = Events
    BY DEF Events
  <2> QED
    BY <2>3, <2>4 DEF Shortened
<1>2. ASSUME NEW t \in Chats, Post(t)
      PROVE  /\ UNCHANGED <<sent, sending, open, config, lastSeen, base, shown, forgotten>>
             /\ \E x : posts' = Append(posts, x)
  BY <1>2 DEF Post, inputs, seen, ghosts
<1>3. CASE Forget
  BY <1>1, <1>3 DEF Forget, inputs, seen, ghosts
<1>4. CASE Send
  BY <1>4, SendShortens DEF Send, inputs, service, seen
<1>5. CASE Handle
  BY <1>1, <1>5 DEF Handle, inputs, seen, ghosts
<1>6. CASE DaemonStops
  BY <1>1, <1>6 DEF DaemonStops, inputs, service, seen, ghosts
<1>7. CASE \/ Wake \/ EndPoll \/ Take \/ Stop \/ UNCHANGED vars
           \/ \E d \in Documents : Edit(d)
  <2>1. /\ UNCHANGED <<sent, sending, open, config, lastSeen, base, shown>>
        /\ UNCHANGED <<posts, forgotten>>
    BY <1>7 DEF Wake, EndPoll, Take, Stop, Edit, vars, inputs, service, seen, ghosts
  <2> QED
    BY <1>1, <2>1
<1> QED
  BY <1>1, <1>2, <1>3, <1>4, <1>5, <1>6, <1>7 DEF Next, Halted

\* A message is emitted as one, and asked for as it was posted.
LEMMA MessageFacts ==
  ASSUME NEW k
  PROVE  /\ IsMessage(MessageEvent(k)) /\ MessageEvent(k).of = k
         /\ (posts'[k] = posts[k] /\ UNCHANGED config) => Wanted(k)' = Wanted(k)
<1>1. MessageEvent(k).of = k /\ MessageEvent(k).type \in {"NewMessage", "Mention"}
  BY DEF MessageEvent
<1>2. IsMessage(MessageEvent(k))
  BY <1>1 DEF IsMessage
<1>3. ASSUME posts'[k] = posts[k], UNCHANGED config
      PROVE  Wanted(k)' = Wanted(k)
  <2>1. MessageEvent(k)' = MessageEvent(k)
    BY <1>3 DEF MessageEvent
  <2> QED
    BY <1>3, <2>1 DEF Wanted
<1> QED
  BY <1>1, <1>2, <1>3

\* What a visit of Telegram does with the events.
LEMMA TelegramVisit ==
  ASSUME TypeInv, TypeInv', SeenInv, config.service = "telegram", Clear,
         NEW t \in Chats, VisitChannel(t)
  PROVE  /\ Extended(sending')
         /\ \A n \in 1 .. Len(sending') :
              /\ IsMessage(sending'[n]) /\ sending'[n].of \in Nat
              /\ Known(t) /\ sending'[n].of <= lastSeen'[t]
              /\ IdsDiffer => lastSeen[t] < sending'[n].of
         /\ \A m, n \in 1 .. Len(sending') : m < n => sending'[m].of < sending'[n].of
         /\ \A k \in shown' : k \in shown \/ (Wanted(k) =>
              \E n \in 1 .. Len(sending') : sending'[n].of = k)
<1>1. sending = <<>> /\ UNCHANGED sent
  BY DEF VisitChannel
<1>2. Extended(sending')
  BY <1>1, VisitExtends
<1>3. CASE UNCHANGED <<sending, shown>>
  <2>1. Len(sending') = 0
    BY <1>1, <1>3
  <2>2. 1 .. Len(sending') = {}
    BY <2>1
  <2> QED
    BY <1>2, <1>3, <2>2
<1>4. CASE /\ Known(t)
           /\ lastSeen' = [lastSeen EXCEPT ![t] =
                             IF FreshIn(t) = <<>> THEN @ ELSE Last(FreshIn(t))]
           /\ sending' = [k \in DOMAIN WantedIn(t) |-> MessageEvent(WantedIn(t)[k])]
           /\ shown' = shown \union {m \in ToSet(Batched(t)) : m > base[t]}
  <2> DEFINE w == WantedIn(t)
             fresh == FreshIn(t)
             last == lastSeen[t]
  <2>1. Seen(t)
    BY DEF SeenInv
  <2>2. /\ w \in Seq(Nat) /\ Increasing(w)
        /\ \A n \in 1 .. Len(w) : w[n] \in ToSet(fresh)
        /\ \A k \in ToSet(fresh) : Wanted(k) => \E n \in 1 .. Len(w) : w[n] = k
    BY <1>4, <2>1, WantedUpdates
  <2>3. /\ IdsDiffer => \A k \in ToSet(fresh) : k > last
        /\ \A k \in ToSet(Batched(t)) : k > last => k \in ToSet(fresh)
        /\ ToSet(Batched(t)) \subseteq Updates
        /\ fresh # <<>> => \A k \in ToSet(fresh) : k <= Last(fresh)
        /\ fresh = <<>> => ToSet(fresh) = {}
    BY <1>4, <2>1, FreshUpdates DEF ToSet
  <2>4. /\ fresh # <<>> => lastSeen'[t] = Last(fresh)
        /\ last \in DOMAIN posts /\ last \in Nat /\ Updates \in SUBSET Nat
    <3>1. IsList(posts) /\ Updates \in SUBSET Nat
      BY UpToIsFinite DEF TypeInv
    <3>2. lastSeen \in [Chats -> (DOMAIN posts) \union {None}]
      BY DEF TypeInv, TypeOK
    <3> QED
      BY <1>4, <3>1, <3>2 DEF Known, IsList
  <2>5. sending' = [k \in DOMAIN w |-> MessageEvent(w[k])]
    BY <1>4
  <2>6. \A k \in Updates : base[t] < k /\ k <= last => k \in shown
    BY <1>4, <2>1 DEF Seen
  <2>7. shown' = shown \union {m \in ToSet(Batched(t)) : m > base[t]}
    BY <1>4
  <2>12. base[t] \in Nat
    <3>1. base[t] \in DOMAIN posts
      BY <1>4, <2>1 DEF Seen, TypeInv
    <3> QED
      BY <3>1 DEF TypeInv, IsList
  <2> HIDE DEF w, fresh, last
  <2>8. /\ Len(sending') = Len(w)
        /\ \A n \in 1 .. Len(w) : IsMessage(sending'[n]) /\ sending'[n].of = w[n]
    <3>1. /\ Len(sending') = Len(w)
          /\ \A n \in 1 .. Len(w) : sending'[n] = MessageEvent(w[n])
      BY <2>2, <2>5, EventsAreList
    <3> QED
      BY <3>1, MessageFacts
  <2>9. ASSUME NEW n \in 1 .. Len(w)
        PROVE  /\ IsMessage(sending'[n]) /\ sending'[n].of \in Nat
               /\ IdsDiffer => last < sending'[n].of
               /\ sending'[n].of <= lastSeen'[t]
    <3>1. w[n] \in Nat /\ w[n] \in ToSet(fresh) /\ fresh # <<>>
      BY <2>2, <2>3
    <3>2. (IdsDiffer => w[n] > last) /\ w[n] <= Last(fresh)
      BY <2>3, <3>1
    <3>3. lastSeen'[t] = Last(fresh)
      BY <2>4, <3>1
    <3>4. IsMessage(sending'[n]) /\ sending'[n].of = w[n]
      BY <2>8
    <3> QED
      BY <2>4, <3>1, <3>2, <3>3, <3>4
  <2>10. \A m, n \in 1 .. Len(sending') : m < n => sending'[m].of < sending'[n].of
    BY <2>2, <2>8 DEF Increasing
  <2>11. ASSUME NEW k \in shown', k \notin shown, Wanted(k)
         PROVE  \E n \in 1 .. Len(sending') : sending'[n].of = k
    <3>1. k \in ToSet(Batched(t)) /\ k > base[t] /\ k \in Updates
      BY <2>3, <2>7, <2>11
    <3>2. ~(k <= last)
      BY <2>4, <2>6, <2>12, <2>11, <3>1
    <3>3. k > last
      <4>1. k \in Nat /\ last \in Nat
        BY <2>4, <3>1
      <4> QED
        BY <3>2, <4>1
    <3>4. k \in ToSet(fresh)
      BY <2>3, <3>1, <3>3
    <3> QED
      BY <2>2, <2>8, <2>11, <3>4
  <2> QED
    BY <1>2, <1>4, <2>8, <2>9, <2>10, <2>11 DEF last
<1> QED
  BY <1>3, <1>4 DEF VisitChannel, Known

\* Without messages there is nothing to show.
NoneShown == config.service # "telegram" => shown = {}

LEMMA ShownStep ==
  ASSUME Services \subseteq {"telegram", "notion"},
         TypeInv, TypeInv', SeenInv, NoneShown, ShownIsEmitted, [Next]_vars
  PROVE  SeenInv' /\ NoneShown' /\ ShownIsEmitted'
<1>1. config.service \in {"telegram", "notion"}
  BY DEF TypeInv
<1>2. ASSUME NEW t \in Chats, VisitChannel(t)
      PROVE  SeenInv' /\ NoneShown' /\ ShownIsEmitted'
  <2>1. /\ config.service = "telegram"
        /\ UNCHANGED <<config, posts, open>>
    BY <1>1, <1>2 DEF VisitChannel, HasMessaging, inputs, service
  <2>5. Clear' = Clear /\ (forgotten = 0 \/ IdsDiffer)' = (forgotten = 0 \/ IdsDiffer)
    BY <1>2, <2>1 DEF VisitChannel, service, Clear, IdsDiffer, SameId
  <2>2. SeenInv'
    <3>1. CASE Clear
      BY <1>2, <2>1, <3>1, SeenVisited
    <3>2. CASE ~Clear
      BY <2>5, <3>2 DEF SeenInv
    <3> QED
      BY <3>1, <3>2
  <2>3. Extended(sending')
    BY <1>2, VisitExtends DEF VisitChannel
  <2>4. ASSUME open', Clear, NEW k \in shown', Wanted(k)'
        PROVE  Emitted(k)'
    <3>1. Wanted(k) /\ open
      BY <2>1, <2>4, MessageFacts
    <3>2. CASE k \in shown
      <4>1. PICK n \in DOMAIN Events : IsMessage(Events[n]) /\ Events[n].of = k
        BY <2>4, <3>1, <3>2 DEF ShownIsEmitted, Emitted, Clear
      <4>2. n \in DOMAIN Events' /\ Events'[n] = Events[n]
        BY <2>3, <4>1 DEF Extended
      <4> QED
        BY <4>1, <4>2 DEF Emitted, IsMessage
    <3>3. CASE k \notin shown
      <4>1. PICK n \in 1 .. Len(sending') :
              IsMessage(sending'[n]) /\ sending'[n].of = k
        BY <1>2, <2>1, <2>4, <3>1, <3>3, TelegramVisit
      <4>2. Len(Events) + n \in DOMAIN Events' /\ Events'[Len(Events) + n] = sending'[n]
        BY <2>3, <4>1 DEF Extended
      <4> QED
        BY <4>1, <4>2 DEF Emitted, IsMessage
    <3> QED
      BY <3>2, <3>3
  <2> QED
    BY <2>1, <2>2, <2>4, <2>5 DEF NoneShown, ShownIsEmitted, Clear
<1>3. ASSUME NEW d \in Documents, VisitDocument(d)
      PROVE  SeenInv' /\ NoneShown' /\ ShownIsEmitted'
  <2>1. /\ config.service # "telegram"
        /\ UNCHANGED <<config, shown>>
    BY <1>3 DEF VisitDocument, HasMessaging, inputs, ghosts
  <2> QED
    BY <2>1 DEF SeenInv, NoneShown, ShownIsEmitted
<1>4. ASSUME ~ \E t \in Chats : VisitChannel(t), ~ \E d \in Documents : VisitDocument(d)
      PROVE  SeenInv' /\ NoneShown' /\ ShownIsEmitted'
  <2>1. /\ (open' => open /\ Events' = Events)
        /\ UNCHANGED <<config, lastSeen, base, shown>>
        /\ Posting
    BY <1>4, OtherSteps
  <2>2. SeenInv'
    BY <2>1, SeenUnvisited
  <2>3. ASSUME open', Clear', NEW k \in shown', Wanted(k)'
        PROVE  Emitted(k)'
    <3>1. k \in DOMAIN posts /\ k \in shown
      BY <2>1, <2>3 DEF TypeInv
    <3>2. posts'[k] = posts[k]
      BY <2>1, <3>1, UpdatesLater
    <3>3. Wanted(k)
      BY <2>1, <2>3, <3>2, MessageFacts
    <3>4. Emitted(k)
      <4>1. Clear
        BY <2>1, <2>3, IdsStay
      <4> QED
        BY <2>1, <2>3, <3>1, <3>3, <4>1 DEF ShownIsEmitted, Clear
    <3> QED
      BY <2>1, <2>3, <3>4 DEF Emitted, IsMessage
  <2> QED
    BY <2>1, <2>2, <2>3 DEF NoneShown, ShownIsEmitted, Clear
<1> QED
  BY <1>2, <1>3, <1>4

LEMMA InitSeen == Init => SeenInv /\ NoneShown /\ ShownIsEmitted
BY DEF Init, SeenInv, Seen, Known, NoneShown, ShownIsEmitted

\* When the service lists the oldest updates first (Telegram), whatever number
\* of chats is watched and whatever the sizes of the batch and the channel: once
\* a chat has been found, every wanted message a poll returned after that is
\* emitted, although the watcher only keeps the id of the last message it saw
\* (watcher.rs:155-166), requests fail, updates are dropped and every chat is
\* given the updates of all; where messages of two chats have the same id, as
\* long as no update was dropped.  (For services that list the newest first, and
\* where ids are the same, the watcher does emit what it emitted before, as the
\* runs WatcherNewestFirst and WatcherSameId show.)
THEOREM TelegramShownIsEmitted ==
  ASSUME Services \subseteq {"telegram", "notion"}
  PROVE  Spec => []ShownIsEmitted
<1> DEFINE Inv == TypeInv /\ SeenInv /\ NoneShown /\ ShownIsEmitted
<1>1. Init => Inv
  BY InitType, InitSeen
<1>2. Inv /\ [Next]_vars => Inv'
  BY StepType, ShownStep
<1>3. Inv => ShownIsEmitted
  OBVIOUS
<1> QED
  BY <1>1, <1>2, <1>3, PTL DEF Spec

\* Only Telegram has messages to emit, and where ids differ they are emitted for a
\* chat that was found, up to the last one seen there.
EmittedSeen ==
  \A n \in DOMAIN Events : IsMessage(Events[n]) =>
    /\ config.service = "telegram"
    /\ IdsDiffer => /\ Events[n].of \in Nat
                    /\ \E t \in Polled : Known(t) /\ Events[n].of <= lastSeen[t]

LEMMA OrderStep ==
  ASSUME Services \subseteq {"telegram", "notion"}, \A t, u \in Polled : t = u,
         TypeInv, TypeInv', SeenInv, EmittedSeen, EmittedInOrder, [Next]_vars
  PROVE  EmittedSeen' /\ EmittedInOrder'
<1>1. config.service \in {"telegram", "notion"}
  BY DEF TypeInv
<1>2. ASSUME NEW t \in Chats, VisitChannel(t)
      PROVE  EmittedSeen' /\ EmittedInOrder'
  <2>1. config.service = "telegram" /\ UNCHANGED config /\ t \in Polled
    BY <1>1, <1>2 DEF VisitChannel, HasMessaging, inputs, TypeInv, TypeOK
  <2>10. IdsDiffer' = IdsDiffer
    BY <1>2, <2>1 DEF VisitChannel, service, IdsDiffer, SameId
  <2> SUFFICES ASSUME IdsDiffer
               PROVE  EmittedSeen' /\ EmittedInOrder'
    BY <2>1, <2>10 DEF EmittedSeen, EmittedInOrder
  <2>2. /\ Extended(sending')
        /\ \A n \in 1 .. Len(sending') :
             /\ sending'[n].of \in Nat
             /\ Known(t) /\ lastSeen[t] < sending'[n].of
             /\ sending'[n].of <= lastSeen'[t]
        /\ \A m, n \in 1 .. Len(sending') : m < n => sending'[m].of < sending'[n].of
    BY <1>2, <2>1, TelegramVisit DEF Clear
  <2>3. /\ Known(t) => Known(t)' /\ lastSeen[t] <= lastSeen'[t]
        /\ Known(t) => lastSeen[t] \in Nat /\ lastSeen'[t] \in Nat
    <3>1. Known(t) => Known(t)' /\ lastSeen[t] <= lastSeen'[t]
      BY <1>2, <2>1, SeenVisited DEF Clear
    <3>2. IsList(posts) /\ IsList(posts')
      BY DEF TypeInv
    <3>3. /\ Known(t) => lastSeen[t] \in DOMAIN posts
          /\ Known(t)' => lastSeen'[t] \in DOMAIN posts'
      BY DEF TypeInv, TypeOK, Known
    <3> QED
      BY <3>1, <3>2, <3>3 DEF IsList
  <2>4. ASSUME NEW n \in DOMAIN Events'
        PROVE  \/ n \in DOMAIN Events /\ Events'[n] = Events[n]
               \/ /\ n > Len(Events) /\ n - Len(Events) \in 1 .. Len(sending')
                  /\ Events'[n] = sending'[n - Len(Events)]
    <3>1. /\ n \in 1 .. Len(Events) + Len(sending') /\ DOMAIN Events = 1 .. Len(Events)
          /\ Len(Events) \in Nat /\ Len(sending') \in Nat
      BY <2>2 DEF Extended
    <3>2. CASE n <= Len(Events)
      BY <2>2, <3>1, <3>2 DEF Extended
    <3>3. CASE n > Len(Events)
      <4>1. n - Len(Events) \in 1 .. Len(sending') /\ Len(Events) + (n - Len(Events)) = n
        BY <3>1, <3>3
      <4>2. Events'[Len(Events) + (n - Len(Events))] = sending'[n - Len(Events)]
        BY <2>2, <4>1 DEF Extended
      <4> QED
        BY <3>3, <4>1, <4>2
    <3> QED
      BY <3>1, <3>2, <3>3
  <2>5. ASSUME NEW n \in DOMAIN Events, IsMessage(Events[n])
        PROVE  /\ Known(t) /\ Events[n].of \in Nat
               /\ Events[n].of <= lastSeen[t] /\ Events[n].of <= lastSeen'[t]
    <3>1. /\ Events[n].of \in Nat
          /\ \E u \in Polled : Known(u) /\ Events[n].of <= lastSeen[u]
      BY <2>5 DEF EmittedSeen
    <3>2. Known(t) /\ Events[n].of <= lastSeen[t]
      BY <2>1, <3>1
    <3> QED
      BY <2>3, <3>1, <3>2
  <2>6. ASSUME NEW n \in DOMAIN Events', IsMessage(Events'[n])
        PROVE  /\ Events'[n].of \in Nat /\ Known(t)'
               /\ Events'[n].of <= lastSeen'[t]
    BY <2>2, <2>3, <2>4, <2>5, <2>6
  <2>7. EmittedSeen'
    <3>1. ASSUME NEW n \in DOMAIN Events', IsMessage(Events'[n])
          PROVE  /\ config'.service = "telegram" /\ Events'[n].of \in Nat
                 /\ \E u \in Polled : Known(u)' /\ Events'[n].of <= lastSeen'[u]
      BY <2>1, <2>6, <3>1
    <3> QED
      BY <3>1 DEF EmittedSeen, IsMessage
  <2>8. ASSUME NEW m \in DOMAIN Events', NEW n \in DOMAIN Events', m < n,
               IsMessage(Events'[m]), IsMessage(Events'[n])
        PROVE  Events'[m].of < Events'[n].of
    <3>1. CASE m \in DOMAIN Events /\ Events'[m] = Events[m]
      <4>1. CASE n \in DOMAIN Events /\ Events'[n] = Events[n]
        BY <2>8, <3>1, <4>1 DEF EmittedInOrder
      <4>2. CASE /\ n - Len(Events) \in 1 .. Len(sending')
                 /\ Events'[n] = sending'[n - Len(Events)]
        <5>1. Events'[m].of \in Nat /\ Events'[m].of <= lastSeen[t] /\ Known(t)
          BY <2>5, <2>8, <3>1
        <5>2. Events'[n].of \in Nat /\ lastSeen[t] < Events'[n].of
          BY <2>2, <4>2
        <5> QED
          BY <2>3, <5>1, <5>2
      <4> QED
        BY <2>4, <4>1, <4>2
    <3>2. CASE /\ m > Len(Events) /\ m - Len(Events) \in 1 .. Len(sending')
               /\ Events'[m] = sending'[m - Len(Events)]
      <4>1. m \in Nat /\ n \in Nat /\ Len(Events) \in Nat
        BY <2>2 DEF Extended
      <4>2. n \notin DOMAIN Events
        BY <2>2, <2>8, <3>2, <4>1 DEF Extended
      <4>3. /\ n - Len(Events) \in 1 .. Len(sending')
            /\ Events'[n] = sending'[n - Len(Events)]
        BY <2>4, <4>2
      <4>4. m - Len(Events) < n - Len(Events)
        BY <2>8, <4>1
      <4> QED
        BY <2>2, <3>2, <4>3, <4>4
    <3> QED
      BY <2>4, <3>1, <3>2
  <2>9. EmittedInOrder'
    BY <2>8 DEF EmittedInOrder, IsMessage
  <2> QED
    BY <2>7, <2>9
<1>3. ASSUME NEW d \in Documents, VisitDocument(d)
      PROVE  EmittedSeen' /\ EmittedInOrder'
  <2>1. config.service # "telegram" /\ sending = <<>> /\ UNCHANGED sent
    BY <1>3 DEF VisitDocument, HasMessaging, ghosts
  <2>2. Extended(sending')
    BY <2>1, VisitExtends
  <2>3. \A n \in 1 .. Len(sending') : ~IsMessage(sending'[n])
    <3>1. CASE sending' = <<>>
      BY <3>1
    <3>2. ASSUME NEW c, sending' = <<DocumentEvent(d, c)>>
          PROVE  \A n \in 1 .. Len(sending') : ~IsMessage(sending'[n])
      BY <3>2 DEF IsMessage, DocumentEvent
    <3> QED
      BY <1>3, <2>1, <3>1, <3>2 DEF VisitDocument
  <2>4. \A n \in DOMAIN Events : ~IsMessage(Events[n])
    BY <2>1 DEF EmittedSeen
  <2>5. ASSUME NEW n \in DOMAIN Events'
        PROVE  ~IsMessage(Events'[n])
    <3>1. /\ n \in 1 .. Len(Events) + Len(sending') /\ DOMAIN Events = 1 .. Len(Events)
          /\ Len(Events) \in Nat /\ Len(sending') \in Nat
      BY <2>2 DEF Extended
    <3>2. CASE n <= Len(Events)
      BY <2>2, <2>4, <3>1, <3>2 DEF Extended
    <3>3. CASE n > Len(Events)
      <4>1. n - Len(Events) \in 1 .. Len(sending') /\ Len(Events) + (n - Len(Events)) = n
        BY <3>1, <3>3
      <4>2. Events'[Len(Events) + (n - Len(Events))] = sending'[n - Len(Events)]
        BY <2>2, <4>1 DEF Extended
      <4> QED
        BY <2>3, <4>1, <4>2
    <3> QED
      BY <3>1, <3>2, <3>3
  <2> QED
    BY <2>5 DEF EmittedSeen, EmittedInOrder, IsMessage
<1>4. ASSUME ~ \E t \in Chats : VisitChannel(t), ~ \E d \in Documents : VisitDocument(d)
      PROVE  EmittedSeen' /\ EmittedInOrder'
  <2>1. Shortened /\ UNCHANGED <<config, lastSeen>>
    BY <1>4, OtherSteps
  <2>5. IdsDiffer' => IdsDiffer
    BY <1>4, OtherSteps, IdsStay
  <2>2. \A n \in DOMAIN Events' : n \in DOMAIN Events /\ Events'[n] = Events[n]
    BY <2>1 DEF Shortened
  <2>3. EmittedSeen'
    BY <2>1, <2>2, <2>5 DEF EmittedSeen, IsMessage, Known
  <2>4. EmittedInOrder'
    BY <2>2, <2>5 DEF EmittedInOrder, IsMessage
  <2> QED
    BY <2>3, <2>4
<1> QED
  BY <1>2, <1>3, <1>4

LEMMA InitOrder == Init => EmittedSeen /\ EmittedInOrder
<1> SUFFICES ASSUME Init
             PROVE  DOMAIN Events = {}
  BY DEF EmittedSeen, EmittedInOrder
<1>1. sent = <<>> /\ sending = <<>>
  BY DEF Init
<1>2. Events = <<>>
  BY <1>1 DEF Events
<1> QED
  BY <1>2

\* With one chat watched on Telegram, and no two messages of the same id, messages
\* are emitted in the order they were posted and none is emitted twice, for any
\* sizes of the batch and the channel and whatever requests fail and updates are
\* dropped (watcher.rs:138): the last message seen always lies in the next batch
\* unless Telegram has dropped it, and then everything in the batch is newer.
\* (Several chats are each given the updates of all, and would emit them twice;
\* other services list the newest first.)
THEOREM TelegramInOrder ==
  ASSUME Services \subseteq {"telegram", "notion"}, \A t, u \in Polled : t = u
  PROVE  Spec => []EmittedInOrder
<1> DEFINE Inv == /\ TypeInv /\ SeenInv /\ NoneShown /\ ShownIsEmitted
                  /\ EmittedSeen /\ EmittedInOrder
<1>1. Init => Inv
  BY InitType, InitSeen, InitOrder
<1>2. Inv /\ [Next]_vars => Inv'
  BY StepType, ShownStep, OrderStep
<1>3. Inv => EmittedInOrder
  OBVIOUS
<1> QED
  BY <1>1, <1>2, <1>3, PTL DEF Spec
=============================================================================

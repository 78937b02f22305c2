--------------------------- MODULE ListOperators ----------------------------
(***************************************************************************)
(* Lists made from a finite set and an order, from another list and the    *)
(* positions kept of it, and the size of a list: what iterators with       *)
(* filter(), sort_by() and sum() make, without recursion.                  *)
(***************************************************************************)
EXTENDS Integers, FiniteSets, SequencesExt

IsList(s) == s \in Seq(Range(s))

\* The elements of S, each after those that come before it: `before` is the set
\* of the pairs <<i, k>> where i does.
Arranged(S, before) ==
  [n \in 1 .. Cardinality(S) |->
    CHOOSE k \in S : Cardinality({i \in S : <<i, k>> \in before}) = n - 1]

Ascending(S) == Arranged(S, {p \in S \X S : p[1] < p[2]})

\* The entries of a list at some of its positions, in their order.
EntriesAt(list, places) ==
  LET at == Ascending(places) IN [n \in DOMAIN at |-> list[at[n]]]

\* The tokens of a list of items, counted one by one.
TokensOf(items) ==
  Cardinality(UNION {{k} \X (1 .. items[k].tokens) : k \in DOMAIN items})
=============================================================================

--------------------------------- MODULE Lists ---------------------------------
(***************************************************************************)
(* The list operations of the language that the computations use, where    *)
(* what the community modules have for them is made of folds, and what     *)
(* their properties say with lists.                                        *)
(***************************************************************************)
EXTENDS Integers, Sequences, FiniteSets

\* list.sort(), and ORDER BY, of what is all different: Before is a strict total
\* order of S.
Sorted(S, Before(_, _)) ==
  CHOOSE list \in [1 .. Cardinality(S) -> S] :
    \A i, j \in 1 .. Cardinality(S) : i < j => Before(list[i], list[j])

\* The lists of S that an ORDER BY may give that does not tell all of S apart:
\* none of them puts After(i, j) the wrong way round.
Orderings(S, After(_, _)) ==
  {list \in [1 .. Cardinality(S) -> S] :
     \A i, j \in 1 .. Cardinality(S) :
       i < j => list[i] # list[j] /\ ~After(list[i], list[j])}

\* sum()
Total(numbers) ==
  LET sum[n \in 0 .. Len(numbers)] == IF n = 0 THEN 0 ELSE sum[n - 1] + numbers[n]
  IN sum[Len(numbers)]

-----------------------------------------------------------------------------
\* One list after another.
Joined(lists) ==
  LET joined[n \in 0 .. Len(lists)] == IF n = 0 THEN <<>> ELSE joined[n - 1] \o lists[n]
  IN joined[Len(lists)]

\* The sum of the values of a function, in some order.
SumOf(f) ==
  LET n == Cardinality(DOMAIN f)
      list == CHOOSE list \in [1 .. n -> DOMAIN f] :
                \A i, j \in 1 .. n : i # j => list[i] # list[j]
  IN Total([k \in 1 .. n |-> f[list[k]]])
=============================================================================

------------------------------- MODULE Listing -------------------------------
(* What a sorted and limited query answers: the first rows of a set in an     *)
(* order that is given as a relation, <<a, b>> when row a comes before row b. *)
EXTENDS Naturals, Sequences

\* orderBy: {id: "asc"}, the order that cursors by id rely on.
ById(rows) == {x \in rows \X rows : x[1] < x[2]}

\* findMany({orderBy, take: limit}): the one sequence of at most limit rows in
\* which every row is, but for those that come after a full answer.
Listed(rows, before, limit) ==
  {f \in UNION {[1..n -> rows] : n \in 0..limit} :
     /\ \A i, j \in DOMAIN f : i < j => <<f[i], f[j]>> \in before
     /\ \A x \in rows :
          \/ \E i \in DOMAIN f : f[i] = x
          \/ Len(f) = limit /\ \A i \in DOMAIN f : <<f[i], x>> \in before}
=============================================================================

------------------------------ MODULE UpdatedAt ------------------------------
(***************************************************************************)
(* Rows ordered by their @updatedAt column, as a relation: <<p, o>> when   *)
(* row p was written before row o was.                                     *)
(***************************************************************************)
EXTENDS Naturals, Sequences

\* Row o is written again: it becomes the newest of all rows.
Refresh(older, o, rows) ==
  {x \in older : x[1] # o} \cup {<<p, o>> : p \in rows \ {o}}

\* findMany({orderBy: {updatedAt: "asc"}, take: limit}) over the rows in due.
Oldest(due, older, limit) ==
  {f \in UNION {[1..n -> due] : n \in 1..limit} :
     /\ \A i, j \in DOMAIN f : i < j => <<f[i], f[j]>> \in older
     /\ \A o \in due :
          \/ \E i \in DOMAIN f : f[i] = o
          \/ Len(f) = limit /\ <<f[limit], o>> \in older}
=============================================================================

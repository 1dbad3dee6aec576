---------------------------------- MODULE Sums ----------------------------------
(* Sums over finite sets, as the SUM queries of PostgreSQL return them.        *)
EXTENDS Integers, FiniteSets

\* x is worth f[x] units, a natural number: a sum counts the units.
Units(f, S) == UNION {{x} \X (1..f[x]) : x \in S}

Total(f, S) == Cardinality(Units(f, S))

===============================================================================

----------------------------- MODULE MCSearchCache -----------------------------
(* SearchCache for TLC: the queries are interchangeable.                     *)
EXTENDS SearchCache

Symmetry == Permutations(Query)
================================================================================

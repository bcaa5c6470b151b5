------------------------------ MODULE Selection ------------------------------
(***************************************************************************)
(* The elements of a vector at some of its positions, in the order of the  *)
(* vector: what std::erase_if leaves, and what a loop collects that calls  *)
(* push_back for the elements it is looking for.                           *)
(***************************************************************************)
EXTENDS Naturals, Sequences, FiniteSets

\* The positions of a finite set, from the first to the last.
Enumeration(P) ==
    CHOOSE f \in [1 .. Cardinality(P) -> P] :
        \A i, j \in 1 .. Cardinality(P) : i < j => f[i] < f[j]

Selected(s, P) ==
    LET f == Enumeration(P) IN [k \in 1 .. Cardinality(P) |-> s[f[k]]]
=============================================================================

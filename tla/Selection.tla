------------------------------ MODULE Selection ------------------------------
(***************************************************************************)
(* The elements of a sequence at some of its places, in their order: what   *)
(* the code writes as filter, retain or filter_map.  It says the same as    *)
(* SelectSeq, in a form that theorems can be proved about.                  *)
(***************************************************************************)
EXTENDS Naturals, Sequences, FiniteSets

\* How many of the places D there are up to place i.
CountUpTo(D, i) == Cardinality({j \in D : j <= i})

\* The k-th of the places D.
Nth(D, k) == CHOOSE i \in D : CountUpTo(D, i) = k

SelectAt(s, D) == [k \in 1 .. Cardinality(D) |-> s[Nth(D, k)]]
=============================================================================

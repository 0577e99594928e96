------------------------------ MODULE Selection ------------------------------
(* Part of a sequence, in its order.                                        *)
EXTENDS Integers, Sequences, FiniteSets

\* The entries of q at the positions in at.
Entries(q, at) ==
  LET nth(k) == CHOOSE n \in at : Cardinality({m \in at : m < n}) = k - 1
  IN  [k \in 1 .. Cardinality(at) |-> q[nth(k)]]
=============================================================================

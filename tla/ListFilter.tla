-------------------------------- MODULE ListFilter --------------------------------
(***************************************************************************)
(* Lists as the pages filter them (Array.prototype.filter).                *)
(***************************************************************************)
EXTENDS Naturals, Sequences, FiniteSets

Positions(s, T) == {i \in DOMAIN s : s[i] \in T}

Before(ps, i) == {j \in ps : j < i}

\* The entries of s at the positions ps, in their order: the n-th has n - 1 before it.
KeepAt(s, ps) ==
  [n \in 1 .. Cardinality(ps) |-> s[CHOOSE i \in ps : Cardinality(Before(ps, i)) = n - 1]]

\* The entries of s that are in T.
Keep(s, T) == KeepAt(s, Positions(s, T))
=============================================================================

---------------------------- MODULE Subsequences ----------------------------
(***************************************************************************)
(* What remains of an array or of the insertion order of a map when some   *)
(* of its entries are deleted.  The definitions are not recursive, so that *)
(* facts about them can be proved.                                         *)
(***************************************************************************)
EXTENDS Naturals, Sequences, FiniteSets

\* The n-th smallest element of a set of numbers.
Nth(kept, n) == CHOOSE i \in kept : Cardinality({j \in kept : j <= i}) = n

\* The elements of the sequence s that are in S, in their order.  (TLC keeps a function
\* as it is defined, and a concatenation as a sequence.)
Among(s, S) ==
  LET kept == {i \in DOMAIN s : s[i] \in S}
  IN IF kept = DOMAIN s THEN s
     ELSE <<>> \o [n \in 1 .. Cardinality(kept) |-> s[Nth(kept, n)]]
=============================================================================

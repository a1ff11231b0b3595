---------------------------- MODULE Subsequences ----------------------------
(***************************************************************************)
(* Two operators on queues that are defined without recursion, so that the *)
(* modules that use them can be proved about.                              *)
(***************************************************************************)
EXTENDS Naturals, Sequences, FiniteSets

\* The number of positions of I up to i.
Rank(I, i) == Cardinality({j \in I : j <= i})

\* What is left of the sequence s when only the positions I are kept, in order.
Keep(s, I) ==
    [k \in 1 .. Cardinality(I) |-> s[CHOOSE i \in I : Rank(I, i) = k]]

\* The places of the elements of a family of sequences: there are as many as
\* the sequences have elements together.
Places(q) == UNION {{d} \X (1 .. Len(q[d])) : d \in DOMAIN q}
=============================================================================

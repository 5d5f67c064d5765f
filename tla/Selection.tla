------------------------------ MODULE Selection ------------------------------
(***************************************************************************)
(* A sequence without some of its entries, the others in their order: what *)
(* std::list::remove_if leaves, and std::remove_if in front of what it     *)
(* returns.  It is defined by the rank of the positions and not by         *)
(* recursion, so that it can be reasoned about.                            *)
(***************************************************************************)
EXTENDS Integers, Sequences, FiniteSets

\* The position that is the i-th of those in K
Place(K, i) == CHOOSE p \in K : Cardinality({q \in K : q <= p}) = i

\* The entries of s at the positions in K
Selected(s, K) == [i \in 1 .. Cardinality(K) |-> s[Place(K, i)]]
=============================================================================

----------------------------- MODULE MCShutdown -----------------------------
(* A small instance of Shutdown for TLC. *)
EXTENDS Shutdown, TLC

CONSTANTS c1, c2

TwoClients == {c1, c2}
Symmetry   == Permutations({c1, c2})
=============================================================================

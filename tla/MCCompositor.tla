---------------------------- MODULE MCCompositor ----------------------------
(* A small instance of Compositor for TLC. *)
EXTENDS Compositor

CONSTANTS c1, c2

TwoClients == {c1, c2}

TwoAndOne == [c \in TwoClients |-> IF c = c1 THEN 2 ELSE 1]
=============================================================================

-------------------------- MODULE MCDestroyRequest --------------------------
(* A small instance of DestroyRequest for TLC. *)
EXTENDS DestroyRequest

CONSTANTS c1

OneClient == {c1}

OneBinding == [c \in OneClient |-> 1]
=============================================================================

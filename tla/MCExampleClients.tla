-------------------------- MODULE MCExampleClients --------------------------
(* A small instance of ExampleClients for TLC. *)
EXTENDS ExampleClients

CONSTANTS c1, c2, c3

ThreeClients == {c1, c2, c3}
OneTest1     == {c3}
TheBuffer    == {buffer}
=============================================================================

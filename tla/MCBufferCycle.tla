--------------------------- MODULE MCBufferCycle ---------------------------
(* A small instance of BufferCycle for TLC. *)
EXTENDS BufferCycle, TLC

CONSTANTS b1, b2, c1, c2

TwoClients  == {c1, c2}
TwoBuffers  == {b1, b2}

\* c1 asks for a callback with every frame, c2 as it likes
MCCallbacks == c1 :> {1} @@ c2 :> {NoCallback, 1}
OneCareless == {c2}
=============================================================================

----------------------------- MODULE MCSurface -----------------------------
(* A small instance of Surface for TLC. *)
EXTENDS Surface

CONSTANTS b1, b2

MCBuffers == {b1, b2}
MCOffsets == {0, 1}
=============================================================================

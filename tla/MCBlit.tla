------------------------------- MODULE MCBlit -------------------------------
(* A small instance of Blit for TLC. *)
EXTENDS Blit

\* From more than a frame before the display to more than a display behind it
MCPositions == -6 .. 5

\* A gap, none, and an overlap of one pixel
MCPaddings == -1 .. 1
=============================================================================

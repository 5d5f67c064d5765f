----------------------------- MODULE SurfaceStack -----------------------------
(***************************************************************************)
(* What the compositor promises about its surfaces, whatever it takes to   *)
(* keep them: a stack with the newest surface on top, from which a client  *)
(* leaves with everything it has and at once, and nobody else's surface    *)
(* moves or goes.  Class Compositor (module Compositor) implements it as   *)
(* long as the process has not broken down.                                *)
(***************************************************************************)
EXTENDS Selection

CONSTANTS Clients,
          Surfaces    \* numbers, in the order of creation

VARIABLES stack,    \* the surfaces from bottom to top, each with its client
          broken    \* has undefined behaviour ended the promise?

Init == stack = <<>> /\ broken = FALSE

\* A client creates a surface: it is newer than all others and on top of them
Create(c, n) ==
  /\ ~ broken
  /\ \A p \in DOMAIN stack : stack[p].surface < n
  /\ stack' = Append(stack, [surface |-> n, client |-> c])
  /\ UNCHANGED broken

\* A client leaves, with all its surfaces in one step
Leave(c) ==
  /\ ~ broken
  /\ stack' = Selected(stack, {p \in DOMAIN stack : stack[p].client # c})
  /\ UNCHANGED broken

Break ==
  /\ broken' = TRUE
  /\ stack' = <<>>

Next ==
  \/ \E c \in Clients, n \in Surfaces : Create(c, n)
  \/ \E c \in Clients : Leave(c)
  \/ Break

Spec == Init /\ [][Next]_<<stack, broken>>
=============================================================================

--------------------------- MODULE DestroyRequest ---------------------------
(***************************************************************************)
(* The request wl_surface.destroy in front of the compositor's list.  Its  *)
(* handler WaylandSurface::surfaceDestroy is empty and class Surface does  *)
(* not override it: the resource, and with it the Surface, stays until its *)
(* client disconnects.                                                     *)
(***************************************************************************)
EXTENDS Compositor

VARIABLES askedToGo     \* surfaces whose client has asked for destruction

destroyVars == <<vars, askedToGo>>

DestroyInit == Init /\ askedToGo = {}

\* hookSurfaceDestroy and surfaceDestroy: the client forgets its surface
SurfaceDestroy(c, n) ==
  /\ Running
  /\ n \in OwnedBy(c) \ askedToGo
  /\ askedToGo' = askedToGo \cup {n}
  /\ UNCHANGED vars

DestroyNext ==
  \/ Next /\ UNCHANGED askedToGo
  \/ \E c \in Clients, n \in Surfaces : SurfaceDestroy(c, n)

DestroySpec ==
  /\ DestroyInit
  /\ [][DestroyNext]_destroyVars
  /\ WF_destroyVars(Repaint /\ UNCHANGED askedToGo)
  /\ WF_destroyVars(Disconnecting /\ UNCHANGED askedToGo)

-----------------------------------------------------------------------------
(* Properties *)

(* The test destroy_surface (tests/test1.cpp:74) calls wl_surface_destroy  *)
(* on a surface of a client that stays connected: the surface goes.        *)
DestroyedSurfaceGoes ==
  \A n \in Surfaces : n \in askedToGo ~> n \notin alive
=============================================================================

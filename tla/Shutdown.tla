------------------------------ MODULE Shutdown ------------------------------
(***************************************************************************)
(* What outlives what when the server goes down.  Surfaces leave with      *)
(* their clients (module Compositor shows how); regions and pointers stay  *)
(* in mRegions and mPointerList until ~WaylandServer, while their          *)
(* wl_resources are freed when the client disconnects.  The base class     *)
(* destructor WaylandResource::~WaylandResource then writes to a resource  *)
(* that is gone.  (Shell surfaces go with their surfaces, so theirs may    *)
(* write within the disconnection itself: that is in module Compositor and *)
(* not counted here.)  A pointer also keeps a plain pointer to the Surface *)
(* its client sets as the cursor; Seat::move, which would move it, is      *)
(* never called, since the server connects no listener to its backend.     *)
(***************************************************************************)
EXTENDS Naturals

CONSTANTS Clients,
          MaxObjects        \* bound: objects created in all

ASSUME ShutdownAssumption == MaxObjects \in Nat

Kinds   == {"surface", "region", "pointer"}
Objects == [n : 1 .. MaxObjects, kind : Kinds, client : Clients]

VARIABLES phase,      \* "running", and then what was destroyed last
          connected,  \* clients that are connected
          created,    \* number of objects created so far
          objects,    \* C++ objects not deleted yet
          resources,  \* objects whose wl_resource is not freed yet
          touched,    \* objects whose freed wl_resource ~WaylandServer wrote to
          abandoned,  \* regions and pointers whose client has left
          cursors     \* Pointer::mSurface of every pointer that has it set

bookkeeping == <<connected, created, resources, abandoned, cursors>>
vars == <<phase, objects, touched, bookkeeping>>

Init ==
  /\ phase = "running"
  /\ connected = {} /\ created = 0
  /\ objects = {} /\ resources = {}
  /\ touched = {} /\ abandoned = {} /\ cursors = {}

-----------------------------------------------------------------------------
(* The server runs *)

Running(c) == phase = "running" /\ c \in connected

Connect(c) ==
  /\ phase = "running"
  /\ c \notin connected
  /\ connected' = connected \cup {c}
  /\ UNCHANGED <<phase, created, objects, resources, touched, abandoned, cursors>>

\* Mutant: the objects are not numbered
CreateUncounted(c, kind) ==
  /\ Running(c)
  /\ created < MaxObjects
  /\ LET o == [n |-> created + 1, kind |-> kind, client |-> c]
     IN  objects' = objects \cup {o} /\ resources' = resources \cup {o}
  /\ UNCHANGED <<phase, connected, created, touched, abandoned, cursors>>

\* WaylandResourceFactory::create, and a unique_ptr in a list of the server
Create(c, kind) ==
  /\ Running(c)
  /\ created < MaxObjects
  /\ created' = created + 1
  /\ LET o == [n |-> created', kind |-> kind, client |-> c]
     IN  objects' = objects \cup {o} /\ resources' = resources \cup {o}
  /\ UNCHANGED <<phase, connected, touched, abandoned, cursors>>

CreateSurface(c) == Create(c, "surface")
CreateRegion(c)  == Create(c, "region")
GetPointer(c)    == Create(c, "pointer")

\* add, subtract and destroy of a region, release of a pointer: all empty
EmptyRequest(c) ==
  /\ Running(c)
  /\ \E o \in resources : o.client = c /\ o.kind \in {"region", "pointer"}
  /\ UNCHANGED vars

\* Pointer::setCursor: libwayland has checked that both belong to the client
SetCursor(c, p, s) ==
  /\ Running(c)
  /\ {p, s} \subseteq resources /\ p.client = c /\ s.client = c
  /\ p.kind = "pointer" /\ s.kind = "surface"
  /\ cursors' = {k \in cursors : k.pointer # p}
                 \cup {[pointer |-> p, surface |-> s]}
  /\ UNCHANGED <<phase, connected, created, objects, resources, touched, abandoned>>

\* Without a surface, which hides the cursor, it dereferences a null pointer
HideCursor(c, p) ==
  /\ Running(c)
  /\ p \in resources /\ p.client = c /\ p.kind = "pointer"
  /\ phase' = "crashed"
  /\ UNCHANGED <<objects, touched, bookkeeping>>

\* Mutant: the surfaces stay as well
KeptAlways(o, c) == TRUE

\* Only surfaces are deleted when their client leaves
Kept(o, c) == o.client # c \/ o.kind # "surface"

\* libwayland frees the client's resources.  What the destructors of its
\* surfaces and shell surfaces write to meanwhile is left to module Compositor
Disconnect(c) ==
  /\ Running(c)
  /\ connected' = connected \ {c}
  /\ objects' = {o \in objects : Kept(o, c)}
  /\ resources' = {o \in resources : o.client # c}
  /\ abandoned' = abandoned \cup
       {o \in resources : o.client = c /\ o.kind \in {"region", "pointer"}}
  /\ UNCHANGED <<phase, created, touched, cursors>>

-----------------------------------------------------------------------------
(* ~WaylandServer, when run has returned *)

Delete(kind) ==
  LET gone == {o \in objects : o.kind = kind}
  IN  /\ objects' = objects \ gone
      /\ touched' = touched \cup (gone \ resources)
      /\ UNCHANGED bookkeeping

\* Its body: wl_display_destroy, which leaves the clients connected
DestroyDisplay ==
  /\ phase = "running"
  /\ phase' = "display"
  /\ UNCHANGED <<objects, touched, bookkeeping>>

\* Mutant: mPointerList holds plain pointers
DestroySeatOnly ==
  /\ phase = "display"
  /\ phase' = "seat"
  /\ UNCHANGED <<objects, touched, bookkeeping>>

\* mSeat, the last member, is the first to go, and its mPointerList with it
DestroySeat == phase = "display" /\ phase' = "seat" /\ Delete("pointer")

\* mCompositor: of its members, mRegions goes first ...
DestroyRegions == phase = "seat" /\ phase' = "regions" /\ Delete("region")

\* ... and mSurfacesList last
DestroySurfaces == phase = "regions" /\ phase' = "done" /\ Delete("surface")

Next ==
  \/ \E c \in Clients : Connect(c) \/ Disconnect(c)
  \/ \E c \in Clients : CreateSurface(c) \/ CreateRegion(c) \/ GetPointer(c)
  \/ \E c \in Clients : EmptyRequest(c)
  \/ \E c \in Clients, p, s \in resources : SetCursor(c, p, s)
  \/ \E c \in Clients, p \in resources : HideCursor(c, p)
  \/ DestroyDisplay \/ DestroySeat \/ DestroyRegions \/ DestroySurfaces

Spec == Init /\ [][Next]_vars

-----------------------------------------------------------------------------
(* Properties *)

TypeOK ==
  /\ phase \in {"running", "crashed", "display", "seat", "regions", "done"}
  /\ connected \subseteq Clients
  /\ created \in 0 .. MaxObjects
  /\ \A o \in objects \cup resources \cup touched \cup abandoned :
       o \in Objects /\ o.n <= created
  /\ cursors \subseteq [pointer : Objects, surface : Objects]

(* A cursor dangles exactly when its pointer is abandoned: the surface of  *)
(* a connected client's cursor is never deleted, whatever it destroys or   *)
(* sets instead, and that of a client that has left always is, while the   *)
(* seat still lists the pointer that leads to it.                          *)
CursorsDangle ==
  phase = "running" =>
    \A k \in cursors : /\ k.pointer \in objects
                       /\ k.surface \notin objects <=> k.pointer \in abandoned

(* ~WaylandServer writes to the freed resources of the regions and         *)
(* pointers whose client has left before, of each of them, and of nothing  *)
(* else: not of a surface, nor of a client that is still connected.  At    *)
(* the end every object is deleted, those of connected clients included.   *)
ShutdownTouchesAbandoned ==
  /\ touched \subseteq abandoned
  /\ phase = "done" => touched = abandoned /\ objects = {}
=============================================================================

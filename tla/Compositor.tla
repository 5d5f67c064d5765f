----------------------------- MODULE Compositor -----------------------------
(***************************************************************************)
(* Class Compositor and the lifetime of what it owns: surfaces come with   *)
(* requests and go with their client's connection.                         *)
(*                                                                         *)
(* Every object a client creates exists twice: as a wl_resource, which     *)
(* libwayland frees when the client disconnects, lowest id first, and as a *)
(* C++ object, which mSurfacesList (or, for a shell surface, its Surface)  *)
(* owns.  The destructor hook of the resource is the only link back.       *)
(*                                                                         *)
(* The server has one thread.  A disconnection is a run of steps, one per  *)
(* resource, that nothing interrupts.  What a surface shows is the subject *)
(* of module Surface; here a surface is only an entry of the list.  What   *)
(* all this amounts to for the clients is module SurfaceStack.             *)
(***************************************************************************)
EXTENDS Selection, FiniteSetsExt

CONSTANTS Clients,        \* connections; a closed one may be opened again
          NoClient,
          MaxSurfaces,    \* bound: surfaces created in all
          MaxBindings,    \* bound: each client's wl_compositor objects at one time
          MaxId           \* bound: ids a client uses at one time

ASSUME CompositorAssumption ==
  /\ NoClient \notin Clients
  /\ MaxSurfaces \in Nat /\ MaxId \in Nat \ {0}
  /\ MaxBindings \in [Clients -> Nat \ {0}]

Ids      == 1 .. MaxId
Surfaces == 1 .. MaxSurfaces     \* in the order of creation
Null     == 0                    \* a unique_ptr that was moved from
NoId     == 0

NoResource == [kind |-> "none", of |-> Null]

VARIABLES resource,   \* each client's live wl_resources, by id: the kind, and the
                      \* Surface a "surface" or "shell" belongs to
          hooked,     \* the ids whose destructor hook is set
          created,    \* number of surfaces created so far
          alive,      \* the Surface objects not deleted yet
          owner,      \* Surface::mClient
          surfaceId,  \* Surface::mResource
          shellId,    \* mResource of Surface::mShellSurface, or NoId
          list,       \* mSurfacesList
          dying,      \* the client being disconnected, or NoClient
          crashed,    \* has undefined behaviour ended the process?
          touchedFreed, \* was a freed wl_resource written to?
          overtaken,  \* did a client leave surfaces of others behind its own?
          inverted    \* did a shell surface get an id below its surface's?

ghosts == <<touchedFreed, overtaken, inverted>>
objects == <<created, alive, owner, surfaceId, shellId>>
vars == <<resource, hooked, objects, list, dying, crashed, ghosts>>

Init ==
  /\ resource = [c \in Clients |-> [i \in Ids |-> NoResource]]
  /\ hooked = [c \in Clients |-> {}]
  /\ created = 0
  /\ alive = {}
  /\ owner = [n \in Surfaces |-> NoClient]
  /\ surfaceId = [n \in Surfaces |-> NoId]
  /\ shellId = [n \in Surfaces |-> NoId]
  /\ list = <<>>
  /\ dying = NoClient
  /\ crashed = FALSE
  /\ touchedFreed = FALSE /\ overtaken = FALSE /\ inverted = FALSE

-----------------------------------------------------------------------------
(* Requests.  The event loop is free to take one when no client is being   *)
(* disconnected.                                                           *)

Running == ~ crashed /\ dying = NoClient

LiveIds(c) == {i \in Ids : resource[c][i] # NoResource}

Connected(c) == LiveIds(c) # {}

OwnedBy(c) == {n \in alive : owner[n] = c}

\* The ids the client's library may choose for a new object: an id that
\* became free, that of a wl_display.sync say, may be below those in use
NewIds(c) == Ids \ LiveIds(c)

\* wl_resource_create and wl_resource_set_implementation
AddResource(c, i, r) ==
  /\ resource' = [resource EXCEPT ![c][i] = r]
  /\ hooked' = [hooked EXCEPT ![c] = @ \cup {i}]

Bindings(c) == {i \in Ids : resource[c][i].kind = "compositor"}

\* hookBind: a client binds wl_compositor, its first object here, or once more
Bind(c, i) ==
  /\ Running
  /\ i \in NewIds(c)
  /\ Cardinality(Bindings(c)) < MaxBindings[c]
  /\ AddResource(c, i, [kind |-> "compositor", of |-> Null])
  /\ UNCHANGED <<objects, list, dying, crashed, ghosts>>

CreateSurface(c, i) ==
  /\ Running
  /\ Connected(c) /\ i \in NewIds(c)
  /\ created < MaxSurfaces
  /\ LET n == created + 1
     IN  /\ AddResource(c, i, [kind |-> "surface", of |-> n])
         /\ created' = n
         /\ alive' = alive \cup {n}
         /\ owner' = [owner EXCEPT ![n] = c]
         /\ surfaceId' = [surfaceId EXCEPT ![n] = i]
         /\ list' = Append(list, n)
  /\ UNCHANGED <<shellId, dying, crashed, ghosts>>

\* Shell::getShellSurface; a second role object deletes the first, whose
\* destructor unhooks its resource
GetShellSurface(c, n, i) ==
  /\ Running
  /\ n \in OwnedBy(c)
  /\ i \in NewIds(c)
  /\ resource' = [resource EXCEPT ![c][i] = [kind |-> "shell", of |-> n]]
  /\ hooked' = [hooked EXCEPT ![c] = (@ \cup {i}) \ {shellId[n]}]
  /\ shellId' = [shellId EXCEPT ![n] = i]
  /\ inverted' = (inverted \/ i < surfaceId[n])
  /\ UNCHANGED <<created, alive, owner, surfaceId, list, dying, crashed,
                 touchedFreed, overtaken>>

\* pong, set_toplevel, move and the other requests: all handlers are empty
ShellSurfaceRequest(c, i) ==
  /\ Running
  /\ resource[c][i].kind = "shell"
  /\ UNCHANGED vars

-----------------------------------------------------------------------------
(* Disconnection: wl_client_destroy runs the hooks of the client's         *)
(* resources and frees them, in the order of their ids.                    *)

\* The entries for which the predicate of remove_if is false, in their order
Unmatched(s, Matches) == Selected(s, {p \in DOMAIN s : s[p] \notin Matches})

\* Mutant: the entries are copied, not moved
CompactedByCopy(s, Matches) ==
  LET kept == Unmatched(s, Matches)
  IN  [p \in DOMAIN s |-> IF p <= Len(kept) THEN kept[p] ELSE s[p]]

\* Mutant: with the erase
CompactedAndErased(s, Matches) == Unmatched(s, Matches)

\* Mutant: everything behind the entries that are kept becomes null
CompactedAndNulled(s, Matches) ==
  LET kept == Unmatched(s, Matches)
  IN  [p \in DOMAIN s |-> IF p <= Len(kept) THEN kept[p] ELSE Null]

\* std::remove_if without the erase: what is kept moves to the front; behind
\* it stay the entries that match and were not overwritten, and the nulls of
\* those that were moved
Compacted(s, Matches) ==
  LET kept == Unmatched(s, Matches)
  IN  [p \in DOMAIN s |-> IF p <= Len(kept) THEN kept[p]
                          ELSE IF s[p] \in Matches THEN s[p] ELSE Null]

Erased(s, n) == Unmatched(s, {n})

Entries(s) == {s[p] : p \in DOMAIN s} \ {Null}

\* Mutant: the destructors leave the hooks of their resources set
UnhookNothing(gone) == UNCHANGED <<hooked, touchedFreed>> /\ crashed' = FALSE

\* ~WaylandResource of the surfaces and of their shell surfaces:
\* wl_resource_set_destructor(mResource, nullptr), also for a resource that
\* has been freed already
Unhook(gone) ==
  LET freed == \E n \in gone :
                 shellId[n] # NoId /\ resource[dying][shellId[n]] = NoResource
  IN  /\ hooked' = [hooked EXCEPT ![dying] =
                      @ \ UNION {{surfaceId[n], shellId[n]} : n \in gone}]
      /\ touchedFreed' = (touchedFreed \/ freed)
      /\ crashed' \in {FALSE, freed}

DeleteSurfaces(gone) ==
  /\ alive' = alive \ gone
  /\ owner' = [n \in Surfaces |-> IF n \in gone THEN NoClient ELSE owner[n]]
  /\ surfaceId' = [n \in Surfaces |-> IF n \in gone THEN NoId ELSE surfaceId[n]]
  /\ shellId' = [n \in Surfaces |-> IF n \in gone THEN NoId ELSE shellId[n]]
  /\ Unhook(gone)

BeginDisconnect(c) ==
  /\ Running
  /\ Connected(c)
  /\ dying' = c
  /\ UNCHANGED <<resource, hooked, objects, list, crashed, ghosts>>

\* The next resource to go, and its freeing once its hook has run
Doomed == Min(LiveIds(dying))

FreeDoomed == resource' = [resource EXCEPT ![dying][Doomed] = NoResource]

DoomedIs(kind) ==
  /\ ~ crashed
  /\ dying # NoClient
  /\ LiveIds(dying) # {}
  /\ resource[dying][Doomed].kind = kind

\* Entries of other clients behind an entry of the leaving one
Overtakes(c) ==
  \E p, q \in DOMAIN list :
    p < q /\ list[p] \in OwnedBy(c) /\ list[q] \notin OwnedBy(c)

\* hookClientDisconects and Compositor::clientDisconnects
ClientDisconnects ==
  /\ DoomedIs("compositor")
  /\ IF \E p \in DOMAIN list : list[p] = Null
     THEN /\ crashed' = TRUE       \* the predicate calls client() on nullptr
          /\ UNCHANGED <<hooked, objects, list, touchedFreed, overtaken>>
     ELSE /\ list' = Compacted(list, OwnedBy(dying))
          /\ DeleteSurfaces(Entries(list) \ Entries(list'))
          /\ overtaken' = (overtaken \/ Overtakes(dying))
  /\ FreeDoomed
  /\ UNCHANGED <<created, dying, inverted>>

\* Mutant: Surface::destroy does not notify
SurfaceDestroyedUnnoticed ==
  /\ DoomedIs("surface")
  /\ FreeDoomed
  /\ UNCHANGED <<hooked, objects, list, dying, crashed, ghosts>>

\* hookDestroy, Surface::destroy and Compositor::notify
SurfaceDestroyed ==
  /\ DoomedIs("surface")
  /\ IF Doomed \in hooked[dying]
     THEN /\ list' = Erased(list, resource[dying][Doomed].of)
          /\ DeleteSurfaces(Entries(list) \ Entries(list'))
     ELSE UNCHANGED <<hooked, objects, list, touchedFreed, crashed>>
  /\ FreeDoomed
  /\ UNCHANGED <<created, dying, overtaken, inverted>>

\* hookDestroy of a ShellSurface, whose destroy does nothing
ShellDestroyed ==
  /\ DoomedIs("shell")
  /\ FreeDoomed
  /\ UNCHANGED <<hooked, objects, list, dying, crashed, ghosts>>

EndDisconnect ==
  /\ ~ crashed
  /\ dying # NoClient
  /\ LiveIds(dying) = {}
  /\ hooked' = [hooked EXCEPT ![dying] = {}]
  /\ dying' = NoClient
  /\ UNCHANGED <<resource, objects, list, crashed, ghosts>>

-----------------------------------------------------------------------------
(* The repaint timer *)

\* Mutant: relayoutSurfaces skips null entries, as repaint does
RepaintSkipsNull == Running /\ UNCHANGED vars

\* repaint: relayoutSurfaces calls isShellSurface() on every entry, null or
\* not.  Where surfaces are put is the subject of module Layout
Repaint ==
  /\ Running
  /\ crashed' = \E p \in DOMAIN list : list[p] = Null
  /\ UNCHANGED <<resource, hooked, objects, list, dying, ghosts>>

Disconnecting ==
  ClientDisconnects \/ SurfaceDestroyed \/ ShellDestroyed \/ EndDisconnect

Next ==
  \/ \E c \in Clients, i \in Ids : Bind(c, i)
  \/ \E c \in Clients, i \in Ids : CreateSurface(c, i)
  \/ \E c \in Clients, n \in Surfaces, i \in Ids : GetShellSurface(c, n, i)
  \/ \E c \in Clients, i \in Ids : ShellSurfaceRequest(c, i)
  \/ \E c \in Clients : BeginDisconnect(c)
  \/ Disconnecting
  \/ Repaint

Spec == Init /\ [][Next]_vars

\* The loop finishes a disconnection, and its timer is armed again and again
FairSpec == Spec /\ WF_vars(Repaint) /\ WF_vars(Disconnecting)

-----------------------------------------------------------------------------
(* Properties *)

(* A destructor hook that is set leads to an object that exists: hookDestroy *)
(* never runs on a deleted Surface or ShellSurface, in whatever order their  *)
(* resources go (the "sigsegv in hookDestroy" of waylandresource.hpp:31).    *)
HookedObjectsExist ==
  ~ crashed =>
    \A c \in Clients : \A i \in hooked[c] :
      LET r == resource[c][i]
      IN  /\ r.kind = "surface" => r.of \in alive /\ surfaceId[r.of] = i
          /\ r.kind = "shell"   => r.of \in alive /\ shellId[r.of] = i

(* mSurfacesList owns every surface once: none leaks and none is deleted     *)
(* twice, even while std::remove_if has left entries behind.                 *)
ListOwnsSurfaces ==
  ~ crashed =>
    /\ Entries(list) = alive
    /\ \A p, q \in DOMAIN list :
         list[p] = list[q] /\ list[p] # Null => p = q

\* What the list stands for: a client that is being disconnected has left
\* already, and null entries do not count
Broken == crashed \/ touchedFreed

Stacked ==
  LET present == Unmatched(list, {Null} \cup OwnedBy(dying))
  IN  [p \in DOMAIN present |->
         [surface |-> present[p], client |-> owner[present[p]]]]

Stack == INSTANCE SurfaceStack WITH
  stack <- IF Broken THEN <<>> ELSE Stacked, broken <- Broken

(* Until the process breaks down, the list is a stack of surfaces in the   *)
(* order of their creation, and a client leaves it in one step with all    *)
(* its surfaces: neither the entries that the missing erase leaves behind, *)
(* nor the nulls, nor the order in which resources go show afterwards, and *)
(* no other client's surface is moved or lost.                             *)
ImplementsStack == Stack!Spec

(* When the list gets a null entry: exactly when a client leaves while a     *)
(* surface of another client is stacked above one of its own, and its        *)
(* wl_compositor goes before that surface.                                   *)
NullsByOvertaking ==
  Running => (overtaken <=> \E p \in DOMAIN list : list[p] = Null)

(* Nothing else breaks the server: without a null entry, and without a     *)
(* shell surface whose id is below its surface's, the process neither      *)
(* crashes nor writes to a freed resource, in whatever order clients come  *)
(* and go.                                                                 *)
BreaksOnlyByNulls ==
  /\ crashed \/ touchedFreed => overtaken \/ inverted
  /\ crashed => overtaken \/ touchedFreed

(* A null entry is not survived: the next repaint or disconnection ends the  *)
(* process, although repaint itself tests its entries for null.              *)
NullEntryKills ==
  (Running /\ \E p \in DOMAIN list : list[p] = Null) ~> crashed
=============================================================================

--------------------------- MODULE ShutdownProofs ---------------------------
(***************************************************************************)
(* Proofs about how the server ends and how its clients begin: module      *)
(* Shutdown, for every set of clients and every number of objects, and     *)
(* module ClientStartup, whose three programs are fixed.  The two do not   *)
(* share variables.                                                        *)
(*                                                                         *)
(* The inductive invariant of Shutdown is IInv.  To what the run checks it *)
(* adds which objects have lost their resource, what each phase of the     *)
(* shutdown has deleted, and that a cursor and its surface lose their      *)
(* resources in the same step.  That of ClientStartup is StartupInv: how   *)
(* far each program is, and which globals it has found by then.            *)
(***************************************************************************)
EXTENDS Shutdown, ClientStartup, TLAPS

(* An object has lost its resource exactly if its client has left, and     *)
(* only regions and pointers can: while the server runs it keeps them all, *)
(* and what the shutdown has deleted of them is what it has touched.       *)
(* While the server runs every resource has its object.                    *)
LostResource ==
  /\ abandoned \cap resources = {}
  /\ objects \ resources = abandoned \ touched
  /\ touched \subseteq abandoned
  /\ phase = "running" => touched = {} /\ resources \subseteq objects
  /\ \A o \in abandoned : o.kind \in {"region", "pointer"}

(* What each phase of the shutdown has left, in the reverse order of the   *)
(* members' declaration.                                                   *)
DeletedByPhase ==
  /\ phase \in {"seat", "regions", "done"} =>
       \A o \in objects : o.kind # "pointer"
  /\ phase \in {"regions", "done"} => \A o \in objects : o.kind # "region"
  /\ phase = "done" => \A o \in objects : o.kind # "surface"

(* A pointer and the surface of its cursor belong to one client.  So while *)
(* the server runs both have their resources or neither has, and a pointer *)
(* that has none is abandoned.                                             *)
CursorsShareClient ==
  \A k \in cursors :
    /\ k.pointer.kind = "pointer" /\ k.surface.kind = "surface"
    /\ k.pointer.client = k.surface.client
    /\ k.pointer.n <= created /\ k.surface.n <= created
    /\ phase = "running" => /\ k.pointer \in resources \cup abandoned
                            /\ k.pointer \in resources <=> k.surface \in resources

IInv == TypeOK /\ LostResource /\ DeletedByPhase /\ CursorsShareClient

-----------------------------------------------------------------------------
(* Steps of the running server *)

(* An object that is created is new, so it has not been abandoned before.  *)
LEMMA CreateInductive ==
  ASSUME IInv, NEW c \in Clients, NEW kind \in Kinds, Create(c, kind)
  PROVE  IInv'
<1> DEFINE o == [n |-> created + 1, kind |-> kind, client |-> c]
<1>1. /\ phase = "running" /\ phase' = "running"
      /\ created < MaxObjects /\ created' = created + 1
      /\ created \in 0 .. MaxObjects
      /\ objects' = objects \cup {o} /\ resources' = resources \cup {o}
      /\ connected' = connected /\ touched' = touched /\ abandoned' = abandoned
      /\ cursors' = cursors /\ cursors \subseteq [pointer : Objects, surface : Objects]
  BY DEF IInv, TypeOK, Create, Running
<1>2. o \in Objects /\ o.n = created + 1
  BY <1>1, ShutdownAssumption DEF Objects
<1>3. \A p \in objects \cup resources \cup touched \cup abandoned :
        p \in Objects /\ p.n <= created /\ p.n \in Nat
  BY ShutdownAssumption DEF IInv, TypeOK, Objects
<1>4. TypeOK'
  <2>1. ASSUME NEW p \in objects' \cup resources' \cup touched' \cup abandoned'
        PROVE  p \in Objects /\ p.n <= created'
    <3>1. CASE p = o
      BY <1>1, <1>2, <3>1
    <3>2. CASE p # o
      BY <1>1, <1>3, <3>2
    <3>3. QED
      BY <3>1, <3>2
  <2>2. created' \in 0 .. MaxObjects
    BY <1>1, ShutdownAssumption
  <2>3. QED
    BY <1>1, <2>1, <2>2 DEF IInv, TypeOK
<1>5. o \notin abandoned
  BY <1>1, <1>2, <1>3
<1>6. LostResource'
  <2> HIDE DEF o
  <2>1. QED
    BY <1>1, <1>5 DEF IInv, LostResource
<1>7. DeletedByPhase'
  BY <1>1 DEF DeletedByPhase
<1>8. CursorsShareClient'
  <2> SUFFICES ASSUME NEW k \in cursors'
               PROVE  CursorsShareClient!(k)'
    BY DEF CursorsShareClient
  <2>1. k \in cursors /\ CursorsShareClient!(k)
    BY <1>1 DEF IInv, CursorsShareClient
  <2>2. k.pointer.n \in Nat /\ k.surface.n \in Nat
    BY <1>1, <2>1 DEF Objects
  <2>3. k.pointer # o /\ k.surface # o
    BY <1>1, <1>2, <2>1, <2>2
  <2> HIDE DEF o
  <2>4. QED
    BY <1>1, <2>1, <2>2, <2>3
<1>9. QED
  BY <1>4, <1>6, <1>7, <1>8 DEF IInv

(* A client that leaves takes its surfaces along and abandons the rest.    *)
LEMMA DisconnectInductive ==
  ASSUME IInv, NEW c \in Clients, Disconnect(c)
  PROVE  IInv'
<1> DEFINE left == {o \in resources : o.client = c /\ o.kind \in {"region", "pointer"}}
<1>1. /\ phase = "running" /\ phase' = "running"
      /\ connected' = connected \ {c}
      /\ created' = created /\ touched' = touched
      /\ objects' = {o \in objects : o.client # c \/ o.kind # "surface"}
      /\ resources' = {o \in resources : o.client # c}
      /\ abandoned' = abandoned \cup left
      /\ cursors' = cursors
  BY DEF Disconnect, Running, Kept
<1>2. objects' \subseteq objects /\ resources' \subseteq resources
      /\ abandoned' \subseteq abandoned \cup resources
  BY <1>1
<1>3. TypeOK'
  BY <1>1, <1>2 DEF IInv, TypeOK
<1>4. LostResource'
  <2>1. touched = {} /\ resources \subseteq objects
        /\ objects \ resources = abandoned
        /\ \A o \in abandoned : o.kind \in {"region", "pointer"}
    BY <1>1 DEF IInv, LostResource
  <2>2. \A o \in resources : o.kind \in {"surface", "region", "pointer"}
    BY DEF IInv, TypeOK, Objects, Kinds
  <2>3. abandoned' \cap resources' = {}
    BY <1>1 DEF IInv, LostResource
  <2>4. objects' \ resources' = abandoned'
    <3>1. ASSUME NEW o \in objects', o \notin resources'
          PROVE  o \in abandoned'
      BY <1>1, <2>1, <2>2, <3>1
    <3>2. ASSUME NEW o \in abandoned'
          PROVE  o \in objects' /\ o \notin resources'
      BY <1>1, <2>1, <2>3, <3>2
    <3>3. QED
      BY <3>1, <3>2
  <2>5. resources' \subseteq objects'
    BY <1>1, <2>1
  <2>6. \A o \in abandoned' : o.kind \in {"region", "pointer"}
    BY <1>1, <2>1
  <2>7. touched' \subseteq abandoned' /\ touched' = {}
        /\ abandoned' \ touched' = abandoned'
    BY <1>1, <2>1
  <2>8. QED
    BY <2>3, <2>4, <2>5, <2>6, <2>7 DEF LostResource
<1>5. DeletedByPhase'
  BY <1>1 DEF DeletedByPhase
<1>6. CursorsShareClient'
  BY <1>1 DEF IInv, CursorsShareClient
<1>7. QED
  BY <1>3, <1>4, <1>5, <1>6 DEF IInv

(* A cursor that is set joins two resources of one client.                 *)
LEMMA SetCursorInductive ==
  ASSUME IInv, NEW c \in Clients, NEW p \in resources, NEW s \in resources,
         SetCursor(c, p, s)
  PROVE  IInv'
<1> DEFINE k0 == [pointer |-> p, surface |-> s]
<1>1. /\ phase = "running" /\ phase' = phase /\ connected' = connected
      /\ created' = created /\ objects' = objects /\ resources' = resources
      /\ touched' = touched /\ abandoned' = abandoned
      /\ cursors' \subseteq cursors \cup {k0}
  BY DEF SetCursor, Running
<1>2. /\ p \in Objects /\ p.n <= created /\ p.kind = "pointer"
      /\ s \in Objects /\ s.n <= created /\ s.kind = "surface"
      /\ p.client = s.client
  BY DEF SetCursor, IInv, TypeOK
<1>3. TypeOK'
  <2>1. k0 \in [pointer : Objects, surface : Objects]
    BY <1>2
  <2>2. QED
    BY <1>1, <2>1 DEF IInv, TypeOK
<1>4. LostResource' /\ DeletedByPhase'
  BY <1>1 DEF IInv, LostResource, DeletedByPhase
<1>5. CursorsShareClient'
  <2> SUFFICES ASSUME NEW k \in cursors'
               PROVE  CursorsShareClient!(k)'
    BY DEF CursorsShareClient
  <2>1. CASE k = k0
    BY <1>1, <1>2, <2>1
  <2>2. CASE k # k0
    BY <1>1, <2>2 DEF IInv, CursorsShareClient
  <2>3. QED
    BY <2>1, <2>2
<1>6. QED
  BY <1>3, <1>4, <1>5 DEF IInv

-----------------------------------------------------------------------------
(* Steps of the shutdown *)

(* A destructor deletes the objects of one kind, and touches those of them *)
(* that have no resource, which are the abandoned ones of this kind.       *)
LEMMA DeleteKeeps ==
  ASSUME IInv, NEW kind \in Kinds, Delete(kind),
         phase' \in {"seat", "regions", "done"}
  PROVE  /\ TypeOK'
         /\ LostResource' /\ CursorsShareClient'
         /\ objects' = {o \in objects : o.kind # kind}
<1> DEFINE gone == {o \in objects : o.kind = kind}
<1>1. /\ objects' = objects \ gone
      /\ touched' = touched \cup (gone \ resources)
      /\ connected' = connected /\ created' = created
      /\ resources' = resources /\ abandoned' = abandoned
      /\ cursors' = cursors
  BY DEF Delete, bookkeeping
<1>2. objects' \subseteq objects /\ touched' \subseteq touched \cup objects
  BY <1>1
<1>3. TypeOK'
  BY <1>1, <1>2 DEF IInv, TypeOK
<1>4. LostResource'
  <2>1. gone \ resources \subseteq abandoned
    BY DEF IInv, LostResource
  <2>2. objects' \ resources' = abandoned' \ touched'
    BY <1>1, <2>1 DEF IInv, LostResource
  <2>3. phase' # "running"
    OBVIOUS
  <2>4. QED
    BY <1>1, <2>1, <2>2, <2>3 DEF IInv, LostResource
<1>5. CursorsShareClient'
  BY <1>1 DEF IInv, CursorsShareClient
<1>6. QED
  BY <1>1, <1>3, <1>4, <1>5

(* Each destructor removes the kind its phase is about.                    *)
LEMMA DestroyInductive ==
  ASSUME IInv, DestroySeat \/ DestroyRegions \/ DestroySurfaces
  PROVE  IInv'
<1>1. CASE DestroySeat
  <2>1. phase' = "seat" /\ Delete("pointer") /\ "pointer" \in Kinds
    BY <1>1 DEF DestroySeat, Kinds
  <2>2. TypeOK' /\ LostResource' /\ CursorsShareClient'
        /\ objects' = {o \in objects : o.kind # "pointer"}
    BY <2>1, DeleteKeeps
  <2>3. DeletedByPhase'
    BY <2>1, <2>2 DEF DeletedByPhase
  <2>4. QED
    BY <2>2, <2>3 DEF IInv
<1>2. CASE DestroyRegions
  <2>1. /\ phase = "seat" /\ phase' = "regions"
        /\ Delete("region") /\ "region" \in Kinds
    BY <1>2 DEF DestroyRegions, Kinds
  <2>2. TypeOK' /\ LostResource' /\ CursorsShareClient'
        /\ objects' = {o \in objects : o.kind # "region"}
    BY <2>1, DeleteKeeps
  <2>3. DeletedByPhase'
    BY <2>1, <2>2 DEF IInv, DeletedByPhase
  <2>4. QED
    BY <2>2, <2>3 DEF IInv
<1>3. CASE DestroySurfaces
  <2>1. /\ phase = "regions" /\ phase' = "done"
        /\ Delete("surface") /\ "surface" \in Kinds
    BY <1>3 DEF DestroySurfaces, Kinds
  <2>2. TypeOK' /\ LostResource' /\ CursorsShareClient'
        /\ objects' = {o \in objects : o.kind # "surface"}
    BY <2>1, DeleteKeeps
  <2>3. DeletedByPhase'
    BY <2>1, <2>2 DEF IInv, DeletedByPhase
  <2>4. QED
    BY <2>2, <2>3 DEF IInv
<1>4. QED
  BY <1>1, <1>2, <1>3

-----------------------------------------------------------------------------
(* Theorems *)

(* The inductive invariant holds in every state of the server and of its   *)
(* shutdown.                                                               *)
THEOREM ShutdownInvariance == Spec => []IInv
<1>1. Init => IInv
  BY ShutdownAssumption
  DEF Init, IInv, TypeOK, LostResource, DeletedByPhase, CursorsShareClient
<1>2. IInv /\ [Next]_vars => IInv'
  <2> SUFFICES ASSUME IInv, [Next]_vars PROVE IInv'
    OBVIOUS
  <2>1. ASSUME NEW c \in Clients, Connect(c) PROVE IInv'
    BY <2>1 DEF Connect, IInv, TypeOK, LostResource, DeletedByPhase, CursorsShareClient
  <2>2. ASSUME NEW c \in Clients, Disconnect(c) PROVE IInv'
    BY <2>2, DisconnectInductive
  <2>3. ASSUME NEW c \in Clients, CreateSurface(c) \/ CreateRegion(c) \/ GetPointer(c)
        PROVE  IInv'
    BY <2>3, CreateInductive DEF CreateSurface, CreateRegion, GetPointer, Kinds
  <2>4. ASSUME NEW c \in Clients, NEW p \in resources, NEW s \in resources,
               SetCursor(c, p, s)
        PROVE  IInv'
    BY <2>4, SetCursorInductive
  <2>5. ASSUME NEW c \in Clients, NEW p \in resources, HideCursor(c, p)
        PROVE  IInv'
    BY <2>5 DEF HideCursor, Running, bookkeeping, IInv, TypeOK, LostResource,
                DeletedByPhase, CursorsShareClient
  <2>6. CASE DestroyDisplay
    BY <2>6 DEF DestroyDisplay, bookkeeping, IInv, TypeOK, LostResource,
                DeletedByPhase, CursorsShareClient
  <2>7. CASE DestroySeat \/ DestroyRegions \/ DestroySurfaces
    BY <2>7, DestroyInductive
  <2>8. CASE UNCHANGED vars
    BY <2>8 DEF vars, bookkeeping, IInv, TypeOK, LostResource, DeletedByPhase,
                CursorsShareClient
  <2>9. ASSUME NEW c \in Clients, EmptyRequest(c) PROVE IInv'
    BY <2>8, <2>9 DEF EmptyRequest
  <2>10. QED
    BY <2>1, <2>2, <2>3, <2>4, <2>5, <2>6, <2>7, <2>8, <2>9 DEF Next
<1>3. QED
  BY <1>1, <1>2, PTL DEF Spec

(* The bookkeeping of Shutdown stays well formed: only objects that were   *)
(* created are ever listed, owned or touched.                              *)
THEOREM ShutdownTypeCorrect == Spec => []TypeOK
<1>1. IInv => TypeOK
  BY DEF IInv
<1>2. QED
  BY <1>1, ShutdownInvariance, PTL

(* The running server keeps the regions and pointers of every client that  *)
(* has left: mRegions and mPointerList are cleared by ~WaylandServer only. *)
THEOREM AbandonedObjectsPileUp ==
  Spec => [](phase = "running" => abandoned \subseteq objects)
<1>1. IInv => (phase = "running" => abandoned \subseteq objects)
  BY DEF IInv, LostResource
<1>2. QED
  BY <1>1, ShutdownInvariance, PTL

(* While the server runs the surface of a cursor is deleted exactly when   *)
(* its pointer is abandoned, and the pointer is still there: what          *)
(* Pointer::move would write to.                                           *)
THEOREM CursorsDangleOnlyWhenAbandoned == Spec => []CursorsDangle
<1>1. IInv => CursorsDangle
  <2> SUFFICES ASSUME IInv, phase = "running", NEW k \in cursors
               PROVE  /\ k.pointer \in objects
                      /\ k.surface \notin objects <=> k.pointer \in abandoned
    BY DEF CursorsDangle
  <2>1. /\ resources \subseteq objects /\ objects \ resources = abandoned
        /\ abandoned \cap resources = {}
        /\ \A o \in abandoned : o.kind \in {"region", "pointer"}
    BY DEF IInv, LostResource
  <2>2. /\ k.surface.kind = "surface"
        /\ k.pointer \in resources \cup abandoned
        /\ k.pointer \in resources <=> k.surface \in resources
    BY DEF IInv, CursorsShareClient
  <2>3. k.surface \notin abandoned
    BY <2>1, <2>2
  <2>4. QED
    BY <2>1, <2>2, <2>3
<1>2. QED
  BY <1>1, ShutdownInvariance, PTL

(* The destructors of the members write to the freed resources of          *)
(* abandoned regions and pointers, to each of them and to nothing else,    *)
(* and delete every object.                                                *)
THEOREM OnlyAbandonedTouched == Spec => []ShutdownTouchesAbandoned
<1>1. IInv => ShutdownTouchesAbandoned
  <2> SUFFICES ASSUME IInv PROVE ShutdownTouchesAbandoned
    OBVIOUS
  <2>1. touched \subseteq abandoned
    BY DEF IInv, LostResource
  <2>2. ASSUME phase = "done"
        PROVE  touched = abandoned /\ objects = {}
    <3>1. \A o \in objects : o.kind \in {"surface", "region", "pointer"}
      BY DEF IInv, TypeOK, Objects, Kinds
    <3>2. objects = {}
      BY <2>2, <3>1 DEF IInv, DeletedByPhase
    <3>3. abandoned \ touched = {}
      BY <3>2 DEF IInv, LostResource
    <3>4. QED
      BY <2>1, <3>2, <3>3
  <2>3. QED
    BY <2>1, <2>2 DEF ShutdownTouchesAbandoned
<1>2. QED
  BY <1>1, ShutdownInvariance, PTL

-----------------------------------------------------------------------------
(* The start of the programs (module ClientStartup) *)

Stages == {"start", "dispatch", "roundtrip", "check", "creating", "running",
           "failed", "starved", "crashed", "ended", "spinning"}

\* The globals that program p finds
Found(p) == Announced \cap Known(p)

\* A program finds all its globals in one dispatch or none: the answer to its
\* first request is all of them
FoundTogether(p) ==
  /\ bound[p] \in {{}, Found(p)}
  /\ pc[p] = "start" => requests[p] = <<>> /\ inbox[p] = <<>>
  /\ pc[p] = "dispatch" =>
       \/ requests[p] = <<"get_registry">> /\ inbox[p] = <<>>
       \/ requests[p] = <<>> /\ inbox[p] = <<"globals">>
  /\ pc[p] \notin {"start", "dispatch", "failed"} /\ server # "gone" =>
       bound[p] = Found(p)
  /\ pc[p] = "creating" => bound[p] = Found(p)
  /\ pc[p] # "crashed"

StartupInv ==
  /\ pc \in [Programs -> Stages]
  /\ bound \in [Programs -> SUBSET Announced]
  /\ DOMAIN requests = Programs
  /\ DOMAIN inbox = Programs
  /\ \A p \in Programs : FoundTogether(p)

(* Programs that have found all their globals, or none, use none that they *)
(* have not found, and the three programs need no more than there are.     *)
LEMMA FoundSuffices ==
  ASSUME NEW p \in Programs
  PROVE  /\ bound[p] = Found(p) =>
              Satisfied(p) /\ Used(p) \subseteq bound[p]
         /\ bound[p] = {} => ~ Satisfied(p)
<1>1. p \in {"main", "test1", "test2"}
  BY DEF Programs
<1>2. Found(p) = IF p = "test2" THEN {"wl_compositor", "wl_shell"}
                 ELSE {"wl_compositor", "wl_shell", "wl_shm"}
  BY <1>1 DEF Found, Announced, Known
<1>3. CASE p = "main"
  BY <1>2, <1>3 DEF Satisfied, Used
<1>4. CASE p = "test1"
  BY <1>2, <1>4 DEF Satisfied, Used
<1>5. CASE p = "test2"
  BY <1>2, <1>5 DEF Satisfied, Used
<1>6. QED
  BY <1>1, <1>3, <1>4, <1>5

(* The programs begin with nothing.                                        *)
LEMMA StartupBegins == StartupInit => StartupInv
<1> SUFFICES ASSUME StartupInit PROVE StartupInv
  OBVIOUS
<1>1. /\ pc \in [Programs -> Stages]
      /\ bound \in [Programs -> SUBSET Announced]
      /\ DOMAIN requests = Programs
      /\ DOMAIN inbox = Programs
  <2>1. pc = [p \in Programs |-> "start"]
    BY DEF StartupInit
  <2>2. bound = [p \in Programs |-> {}]
    BY DEF StartupInit
  <2>3. /\ requests = [p \in Programs |-> <<>>]
        /\ inbox = [p \in Programs |-> <<>>]
    BY DEF StartupInit
  <2>4. pc \in [Programs -> Stages]
    BY <2>1 DEF Stages
  <2>5. bound \in [Programs -> SUBSET Announced]
    BY <2>2
  <2>6. QED
    BY <2>3, <2>4, <2>5
<1>2. ASSUME NEW p \in Programs PROVE FoundTogether(p)
  <2>1. /\ pc[p] = "start" /\ bound[p] = {}
        /\ requests[p] = <<>> /\ inbox[p] = <<>>
    BY DEF StartupInit
  <2>2. QED
    BY <2>1 DEF FoundTogether
<1>3. QED
  BY <1>1, <1>2 DEF StartupInv

\* Nothing of program p changes, and the server does not come back
Unmoved(p) ==
  /\ pc'[p] = pc[p] /\ bound'[p] = bound[p]
  /\ requests'[p] = requests[p] /\ inbox'[p] = inbox[p]

(* A program that is not moved finds what it found.                        *)
LEMMA UnmovedKeeps ==
  ASSUME NEW p \in Programs, FoundTogether(p), Unmoved(p),
         server' = server \/ server' = "gone" \/ server # "gone"
  PROVE  FoundTogether(p)'
BY DEF FoundTogether, Unmoved, Found, Announced, Known

\* What a dispatch of program p leaves of its globals and answers
Dispatched(p) ==
  /\ inbox' = [inbox EXCEPT ![p] = <<>>]
  /\ DOMAIN requests' = DOMAIN requests
  /\ bound' \in [Programs -> SUBSET Announced]
  /\ bound'[p] \in {bound[p], bound[p] \cup Found(p)}
  /\ Arrived(p, "globals") => bound'[p] = bound[p] \cup Found(p)
  /\ \A o \in Programs : o # p =>
       bound'[o] = bound[o] /\ requests'[o] = requests[o]
  /\ inbox[p] # <<>> \/ server = "gone"

(* The globals a dispatch finds are all or none of them.                   *)
LEMMA DispatchFinds ==
  ASSUME StartupInv, NEW p \in Programs, NEW next,
         DispatchThen(p, next)
  PROVE  Dispatched(p)
<1> DEFINE found == IF Arrived(p, "globals") THEN Found(p) ELSE {}
           binds == IF "wl_shm" \in found THEN <<"bind_shm">> ELSE <<>>
<1>1. /\ inbox[p] # <<>> \/ server = "gone"
      /\ bound' = [bound EXCEPT ![p] = @ \cup found]
      /\ requests' = [requests EXCEPT ![p] = @ \o binds \o next]
      /\ inbox' = [inbox EXCEPT ![p] = <<>>]
  BY DEF DispatchThen, Found
<1>2. Found(p) \subseteq Announced
  BY DEF Found
<1>3. found = Found(p) \/ found = {}
  OBVIOUS
<1>4. Arrived(p, "globals") => found = Found(p)
  OBVIOUS
<1> HIDE DEF found, binds
<1>5. bound' \in [Programs -> SUBSET Announced]
  BY <1>1, <1>2, <1>3 DEF StartupInv
<1>6. bound'[p] = bound[p] \cup found
  BY <1>1 DEF StartupInv
<1>7. bound'[p] \in {bound[p], bound[p] \cup Found(p)}
  BY <1>3, <1>6
<1>8. \A o \in Programs : o # p =>
        bound'[o] = bound[o] /\ requests'[o] = requests[o]
  BY <1>1 DEF StartupInv
<1>9. DOMAIN requests' = DOMAIN requests
  BY <1>1
<1>10. QED
  BY <1>1, <1>4, <1>5, <1>6, <1>7, <1>8, <1>9 DEF Dispatched

(* Every step of server and programs keeps that.                           *)
LEMMA StartupStep == StartupInv /\ [StartupNext]_startupVars => StartupInv'
<1> SUFFICES ASSUME StartupInv, [StartupNext]_startupVars PROVE StartupInv'
  OBVIOUS
<1>0. /\ pc \in [Programs -> Stages]
      /\ bound \in [Programs -> SUBSET Announced]
      /\ DOMAIN requests = Programs
      /\ DOMAIN inbox = Programs
      /\ \A p \in Programs : FoundTogether(p)
  BY DEF StartupInv
\* Only the server moves
<1>1. CASE /\ UNCHANGED <<pc, bound, requests, inbox>>
           /\ server' = server \/ server' = "gone" \/ server # "gone"
  <2>1. \A p \in Programs : FoundTogether(p)'
    BY <1>0, <1>1, UnmovedKeeps DEF Unmoved
  <2>2. QED
    BY <1>0, <1>1, <2>1 DEF StartupInv
<1>2. ASSUME AddSocket \/ RunServer \/ Stop
             \/ UNCHANGED startupVars
      PROVE  StartupInv'
  BY <1>1, <1>2 DEF AddSocket, RunServer, Stop, startupVars
\* Program p moves, with or without the server
<1>3. ASSUME NEW p \in Programs, FoundTogether(p)', server' = server,
             pc' \in [Programs -> Stages],
             bound' \in [Programs -> SUBSET Announced],
             DOMAIN requests' = Programs,
             DOMAIN inbox' = Programs,
             \A o \in Programs : o # p => Unmoved(o)
      PROVE  StartupInv'
  <2>1. \A o \in Programs : FoundTogether(o)'
    BY <1>0, <1>3, UnmovedKeeps
  <2>2. QED
    BY <1>3, <2>1 DEF StartupInv
<1>4. ASSUME NEW p \in Programs, Serve(p) PROVE StartupInv'
  <2> DEFINE answer == CASE Head(requests[p]) = "get_registry" -> "globals"
                         [] Head(requests[p]) = "sync"         -> "done"
                         [] Head(requests[p]) = "bind_shm"     -> "formats"
  <2>1. /\ requests[p] # <<>>
        /\ requests' = [requests EXCEPT ![p] = Tail(@)]
        /\ inbox' = [inbox EXCEPT ![p] = Append(@, answer)]
        /\ UNCHANGED <<server, socket, pc, bound>>
    BY <1>4 DEF Serve
  <2>2. requests'[p] = Tail(requests[p]) /\ inbox'[p] = Append(inbox[p], answer)
    BY <1>0, <2>1
  <2>3. FoundTogether(p) /\ pc[p] # "start"
    BY <1>0, <2>1 DEF FoundTogether
  <2>4. FoundTogether(p)'
    <3>1. CASE pc[p] = "dispatch"
      <4>1. requests[p] = <<"get_registry">> /\ inbox[p] = <<>>
        BY <2>1, <2>3, <3>1 DEF FoundTogether
      <4>2. answer = "globals"
        BY <4>1
      <4>3. requests'[p] = <<>> /\ inbox'[p] = <<"globals">>
        BY <2>2, <4>1, <4>2
      <4>4. QED
        BY <2>1, <2>3, <3>1, <4>3 DEF FoundTogether
    <3>2. CASE pc[p] # "dispatch"
      BY <2>1, <2>3, <3>2 DEF FoundTogether
    <3>3. QED
      BY <3>1, <3>2
  <2> HIDE DEF answer
  <2>5. \A o \in Programs : o # p => Unmoved(o)
    BY <1>0, <2>1 DEF Unmoved
  <2>6. QED
    BY <1>0, <1>3, <2>1, <2>4, <2>5
<1>5. ASSUME NEW p \in Programs, ConnectDisplay(p) PROVE StartupInv'
  <2>1. /\ pc[p] = "start" /\ bound' = bound /\ inbox' = inbox
        /\ server' = server
        /\ \/ /\ pc' = [pc EXCEPT ![p] = "dispatch"]
              /\ requests' = [requests EXCEPT ![p] = <<"get_registry">>]
           \/ pc' = [pc EXCEPT ![p] = "failed"] /\ requests' = requests
    BY <1>5 DEF ConnectDisplay
  <2>2. FoundTogether(p)
    BY <1>0
  <2>3. /\ bound'[p] = bound[p] /\ inbox'[p] = <<>>
        /\ \/ pc'[p] = "dispatch" /\ requests'[p] = <<"get_registry">>
           \/ pc'[p] = "failed"
    BY <1>0, <2>1, <2>2 DEF FoundTogether
  <2>4. FoundTogether(p)'
    BY <2>2, <2>3 DEF FoundTogether
  <2>5. /\ pc' \in [Programs -> Stages]
        /\ DOMAIN requests' = Programs
    BY <1>0, <2>1 DEF Stages
  <2>6. \A o \in Programs : o # p => Unmoved(o)
    BY <1>0, <2>1 DEF Unmoved
  <2>7. QED
    BY <1>0, <1>3, <2>1, <2>4, <2>5, <2>6
\* A dispatch, wherever in the program: with a server that is there the program
\* has found its globals when it returns
<1>6. ASSUME NEW p \in Programs, Dispatched(p), server' = server,
             NEW stage \in Stages \ {"start", "dispatch", "creating", "crashed"},
             pc' = [pc EXCEPT ![p] = stage],
             pc[p] \in {"dispatch", "roundtrip", "running"}
      PROVE  StartupInv'
  <2>1. FoundTogether(p)
    BY <1>0
  <2>2. pc'[p] = stage
    BY <1>0, <1>6
  <2>3. bound'[p] \in {{}, Found(p)}
    BY <1>6, <2>1 DEF FoundTogether, Dispatched
  <2>4. ASSUME server # "gone" PROVE bound'[p] = Found(p)
    <3>1. CASE pc[p] = "dispatch"
      <4>1. inbox[p] = <<"globals">>
        BY <1>6, <2>1, <2>4, <3>1 DEF FoundTogether, Dispatched
      <4>2. Arrived(p, "globals")
        BY <4>1 DEF Arrived
      <4>3. QED
        BY <1>6, <2>1, <4>2 DEF FoundTogether, Dispatched
    <3>2. CASE pc[p] # "dispatch"
      BY <1>6, <2>1, <2>4, <3>2 DEF FoundTogether, Dispatched
    <3>3. QED
      BY <3>1, <3>2
  <2>5. FoundTogether(p)'
    BY <1>6, <2>2, <2>3, <2>4 DEF FoundTogether
  <2>6. /\ pc' \in [Programs -> Stages]
        /\ bound' \in [Programs -> SUBSET Announced]
        /\ DOMAIN requests' = Programs
        /\ DOMAIN inbox' = Programs
    BY <1>0, <1>6 DEF Dispatched
  <2>7. \A o \in Programs : o # p => Unmoved(o)
    BY <1>0, <1>6 DEF Unmoved, Dispatched
  <2>8. QED
    BY <1>3, <1>6, <2>5, <2>6, <2>7
<1>7. ASSUME NEW p \in Programs, Dispatch(p) PROVE StartupInv'
  BY <1>6, <1>7, DispatchFinds DEF Dispatch, Stages
<1>8. ASSUME NEW p \in Programs, Roundtrip(p) PROVE StartupInv'
  <2>1. Dispatched(p) /\ pc[p] = "roundtrip" /\ server' = server
    BY <1>8, DispatchFinds DEF Roundtrip
  <2>2. PICK stage \in {"roundtrip", "check"} : pc' = [pc EXCEPT ![p] = stage]
    BY <1>8, <2>1 DEF Roundtrip
  <2>3. QED
    BY <1>6, <2>1, <2>2 DEF Stages
<1>9. ASSUME NEW p \in Programs, RunClient(p) PROVE StartupInv'
  <2>1. Dispatched(p) /\ pc[p] = "running" /\ server' = server
    BY <1>9, DispatchFinds DEF RunClient
  <2>2. PICK stage \in {"running", "ended", "spinning"} :
          pc' = [pc EXCEPT ![p] = stage]
    BY <1>9, <2>1 DEF RunClient, AfterError
  <2>3. QED
    BY <1>6, <2>1, <2>2 DEF Stages
<1>10. ASSUME NEW p \in Programs, Check(p) \/ CreateWindow(p) PROVE StartupInv'
  <2>1. FoundTogether(p) /\ pc[p] \in {"check", "creating"}
    BY <1>0, <1>10 DEF Check, CreateWindow
  <2>2. bound[p] = Found(p) \/ bound[p] = {}
    BY <2>1 DEF FoundTogether
  <2>3. PICK stage \in {"failed", "creating", "running", "starved"} :
          /\ pc' = [pc EXCEPT ![p] = stage]
          /\ stage = "creating" => bound[p] = Found(p)
    <3>1. CASE Check(p)
      BY <2>2, <3>1, FoundSuffices DEF Check
    <3>2. CASE CreateWindow(p)
      <4>1. bound[p] = Found(p)
        BY <2>1, <3>2 DEF CreateWindow, FoundTogether
      <4>2. Used(p) \subseteq bound[p]
        BY <4>1, FoundSuffices
      <4>3. QED
        BY <3>2, <4>2 DEF CreateWindow
    <3>3. QED
      BY <1>10, <3>1, <3>2
  <2>4. UNCHANGED <<server, bound, requests, inbox>> /\ pc'[p] = stage
    BY <1>0, <1>10, <2>3 DEF Check, CreateWindow
  <2>5. FoundTogether(p)'
    <3>1. bound[p] \in {{}, Found(p)}
      BY <2>1 DEF FoundTogether
    <3>2. server # "gone" => bound[p] = Found(p)
      BY <2>1 DEF FoundTogether
    <3>3. Found(p)' = Found(p)
      BY DEF Found, Announced, Known
    <3>4. QED
      BY <2>3, <2>4, <3>1, <3>2, <3>3 DEF FoundTogether
  <2>6. pc' \in [Programs -> Stages]
    BY <1>0, <2>3 DEF Stages
  <2>7. \A o \in Programs : o # p => Unmoved(o)
    BY <1>0, <2>3, <2>4 DEF Unmoved
  <2>8. QED
    BY <1>0, <1>3, <2>4, <2>5, <2>6, <2>7
<1>11. QED
  BY <1>2, <1>4, <1>5, <1>7, <1>8, <1>9, <1>10 DEF StartupNext, Step

(* The invariant of the start.                                             *)
THEOREM StartupInvariant == StartupSpec => []StartupInv
<1>1. QED
  BY StartupBegins, StartupStep, PTL DEF StartupSpec

(* No program uses a global it has not found, wherever the server stops.   *)
THEOREM StartupUsesFound == StartupSpec => []NoMissingGlobalUsed
<1>1. StartupInv => NoMissingGlobalUsed
  BY DEF StartupInv, FoundTogether, NoMissingGlobalUsed
<1>2. QED
  BY <1>1, StartupInvariant, PTL

(* A program that has connected to a server that is there finds every      *)
(* global its check asks for: it ends for want of a global only if the     *)
(* server is gone.  What else it may lack is not claimed.                  *)
THEOREM StartupFindsGlobals == StartupSpec => GlobalsMissedOnlyWithoutServer
<1>1. StartupInv /\ [StartupNext]_startupVars =>
        [\A p \in Programs :
           pc[p] \notin {"start", "failed"} /\ pc'[p] = "failed" =>
             server = "gone"]_startupVars
  <2> SUFFICES ASSUME StartupInv, StartupNext, NEW p \in Programs,
                      pc[p] \notin {"start", "failed"}, pc'[p] = "failed"
               PROVE  server = "gone"
    OBVIOUS
  <2>1. /\ pc \in [Programs -> Stages] /\ FoundTogether(p)
    BY DEF StartupInv
  <2>2. pc' # pc
    OBVIOUS
  <2>3. PICK o \in Programs : Step(o)
    BY <2>2 DEF StartupNext, AddSocket, RunServer, Stop,
                Serve
  <2>4. \E stage : pc' = [pc EXCEPT ![o] = stage]
    BY <2>3 DEF Step, ConnectDisplay, Dispatch, Roundtrip,
                Check, CreateWindow, RunClient
  <2>5. o = p
    BY <2>1, <2>4
  <2>6. CASE ConnectDisplay(p)
    BY <2>6 DEF ConnectDisplay
  <2>7. CASE Dispatch(p)
    BY <2>1, <2>7 DEF Dispatch
  <2>8. CASE Roundtrip(p)
    BY <2>1, <2>8 DEF Roundtrip
  <2>9. CASE RunClient(p)
    BY <2>1, <2>9 DEF RunClient, AfterError
  <2>10. CASE Check(p)
    <3>1. pc[p] = "check" /\ ~ Satisfied(p)
      BY <2>1, <2>10 DEF Check
    <3>2. bound[p] # Found(p)
      BY <3>1, FoundSuffices
    <3>3. QED
      BY <2>1, <3>1, <3>2 DEF FoundTogether
  <2>11. CASE CreateWindow(p)
    BY <2>1, <2>11 DEF CreateWindow
  <2>12. QED
    BY <2>3, <2>5, <2>6, <2>7, <2>8, <2>9, <2>10, <2>11 DEF Step
<1>2. QED
  BY <1>1, StartupInvariant, PTL DEF StartupSpec, GlobalsMissedOnlyWithoutServer

-----------------------------------------------------------------------------
(* The safety half of StartupEnds: no dispatch waits for nothing.          *)

Asked   == {"get_registry", "sync", "bind_shm"}
Answers == {"globals", "done", "formats"}

\* The round trip's request or its answer is under way
SyncUnderWay(p) ==
  pc[p] = "roundtrip" =>
    \/ \E i \in 1 .. Len(requests[p]) : requests[p][i] = "sync"
    \/ \E i \in 1 .. Len(inbox[p]) : inbox[p][i] = "done"

TravelInv ==
  /\ pc \in [Programs -> Stages]
  /\ requests \in [Programs -> Seq(Asked)]
  /\ inbox \in [Programs -> Seq(Answers)]
  /\ \A p \in Programs : SyncUnderWay(p)

(* What a dispatch of program p sends and takes, and that the other        *)
(* programs keep what is under way.                                        *)
LEMMA DispatchTravels ==
  ASSUME TravelInv, NEW p \in Programs, NEW next \in Seq(Asked),
         DispatchThen(p, next), NEW stage \in Stages,
         pc' = [pc EXCEPT ![p] = stage],
         stage = "roundtrip" =>
           \/ next = <<"sync">>
           \/ pc[p] = "roundtrip" /\ ~ Arrived(p, "done")
  PROVE  TravelInv'
<1>1. PICK binds \in Seq(Asked) :
        requests' = [requests EXCEPT ![p] = @ \o binds \o next]
  <2>1. <<"bind_shm">> \in Seq(Asked) /\ <<>> \in Seq(Asked)
    BY DEF Asked
  <2>2. QED
    BY <2>1 DEF DispatchThen
<1>2. inbox' = [inbox EXCEPT ![p] = <<>>]
  BY DEF DispatchThen
<1>3. requests[p] \in Seq(Asked) /\ inbox[p] \in Seq(Answers)
  BY DEF TravelInv
<1>4. /\ pc' \in [Programs -> Stages]
      /\ inbox' \in [Programs -> Seq(Answers)]
  <2>1. <<>> \in Seq(Answers)
    OBVIOUS
  <2>2. QED
    BY <1>2, <2>1 DEF TravelInv
<1>5. requests[p] \o binds \o next \in Seq(Asked)
  BY <1>1, <1>3
<1>6. requests' \in [Programs -> Seq(Asked)]
  BY <1>1, <1>5 DEF TravelInv
<1>7. requests'[p] = requests[p] \o binds \o next
  BY <1>1 DEF TravelInv
<1>8. SyncUnderWay(p)'
  <2>1. CASE next = <<"sync">>
    <3>1. /\ Len(requests'[p]) = Len(requests[p]) + Len(binds) + 1
          /\ requests'[p][Len(requests[p]) + Len(binds) + 1] = "sync"
      BY <1>1, <1>3, <1>7, <2>1
    <3>2. Len(requests[p]) \in Nat /\ Len(binds) \in Nat
      BY <1>1, <1>3
    <3>3. Len(requests[p]) + Len(binds) + 1 \in 1 .. Len(requests'[p])
      BY <3>1, <3>2
    <3>4. QED
      BY <3>1, <3>3 DEF SyncUnderWay
  <2>2. CASE pc[p] = "roundtrip" /\ ~ Arrived(p, "done")
    <3>1. ~ \E i \in 1 .. Len(inbox[p]) : inbox[p][i] = "done"
      BY <1>3, <2>2 DEF Arrived
    <3>2. PICK i \in 1 .. Len(requests[p]) : requests[p][i] = "sync"
      BY <2>2, <3>1 DEF TravelInv, SyncUnderWay
    <3>3. /\ i \in 1 .. Len(requests'[p])
          /\ requests'[p][i] = "sync"
      BY <1>1, <1>3, <1>7, <3>2
    <3>4. QED
      BY <3>3 DEF SyncUnderWay
  <2>3. CASE stage # "roundtrip"
    <3>1. pc'[p] # "roundtrip"
      BY <2>3 DEF TravelInv
    <3>2. QED
      BY <3>1 DEF SyncUnderWay
  <2>4. QED
    BY <2>1, <2>2, <2>3
<1>9. ASSUME NEW o \in Programs, o # p PROVE SyncUnderWay(o)'
  <2>1. /\ pc'[o] = pc[o] /\ requests'[o] = requests[o] /\ inbox'[o] = inbox[o]
    BY <1>1, <1>2, <1>9 DEF TravelInv
  <2>2. QED
    BY <2>1 DEF TravelInv, SyncUnderWay
<1>10. QED
  BY <1>4, <1>6, <1>8, <1>9 DEF TravelInv

(* Every step of server and programs keeps the round trip under way.       *)
LEMMA TravelStep == TravelInv /\ [StartupNext]_startupVars => TravelInv'
<1> SUFFICES ASSUME TravelInv, [StartupNext]_startupVars PROVE TravelInv'
  OBVIOUS
<1>0. /\ pc \in [Programs -> Stages]
      /\ requests \in [Programs -> Seq(Asked)]
      /\ inbox \in [Programs -> Seq(Answers)]
      /\ \A p \in Programs : SyncUnderWay(p)
  BY DEF TravelInv
<1>1. CASE UNCHANGED <<pc, requests, inbox>>
  BY <1>1 DEF TravelInv, SyncUnderWay
<1>2. ASSUME AddSocket \/ RunServer \/ Stop \/ UNCHANGED startupVars
      PROVE  TravelInv'
  BY <1>1, <1>2 DEF AddSocket, RunServer, Stop, startupVars
<1>3. ASSUME NEW p \in Programs, Serve(p) PROVE TravelInv'
  <2> DEFINE answer == CASE Head(requests[p]) = "get_registry" -> "globals"
                         [] Head(requests[p]) = "sync"         -> "done"
                         [] Head(requests[p]) = "bind_shm"     -> "formats"
  <2>1. /\ requests[p] # <<>>
        /\ requests' = [requests EXCEPT ![p] = Tail(@)]
        /\ inbox' = [inbox EXCEPT ![p] = Append(@, answer)]
        /\ pc' = pc
    BY <1>3 DEF Serve
  <2>2. requests[p] \in Seq(Asked) /\ inbox[p] \in Seq(Answers)
    BY <1>0
  <2>3. Head(requests[p]) \in Asked
    BY <2>1, <2>2
  <2>4. answer \in Answers /\ (Head(requests[p]) = "sync" => answer = "done")
    BY <2>3 DEF Asked, Answers
  <2> HIDE DEF answer
  <2>5. /\ Tail(requests[p]) \in Seq(Asked)
        /\ Append(inbox[p], answer) \in Seq(Answers)
    BY <2>1, <2>2, <2>4
  <2>6. /\ requests' \in [Programs -> Seq(Asked)]
        /\ inbox' \in [Programs -> Seq(Answers)]
    BY <1>0, <2>1, <2>5
  <2>7. requests'[p] = Tail(requests[p]) /\ inbox'[p] = Append(inbox[p], answer)
    BY <1>0, <2>1
  <2>8. SyncUnderWay(p)'
    <3>1. SUFFICES ASSUME pc[p] = "roundtrip"
                   PROVE  \/ \E i \in 1 .. Len(requests'[p]) : requests'[p][i] = "sync"
                          \/ \E i \in 1 .. Len(inbox'[p]) : inbox'[p][i] = "done"
      BY <2>1 DEF SyncUnderWay
    <3>2. CASE \E i \in 1 .. Len(inbox[p]) : inbox[p][i] = "done"
      <4>1. PICK i \in 1 .. Len(inbox[p]) : inbox[p][i] = "done"
        BY <3>2
      <4>2. i \in 1 .. Len(inbox'[p]) /\ inbox'[p][i] = "done"
        BY <2>2, <2>4, <2>7, <4>1
      <4>3. QED
        BY <4>2
    <3>3. CASE \E i \in 1 .. Len(requests[p]) : requests[p][i] = "sync"
      <4>1. PICK i \in 1 .. Len(requests[p]) : requests[p][i] = "sync"
        BY <3>3
      <4>2. CASE i = 1
        <5>1. answer = "done"
          BY <2>1, <2>2, <2>4, <4>1, <4>2
        <5>2. /\ Len(inbox[p]) + 1 \in 1 .. Len(inbox'[p])
              /\ inbox'[p][Len(inbox[p]) + 1] = "done"
          BY <2>2, <2>4, <2>7, <5>1
        <5>3. QED
          BY <5>2
      <4>3. CASE i # 1
        <5>1. ASSUME NEW s \in Seq(Asked), NEW k \in 2 .. Len(s)
              PROVE  k - 1 \in 1 .. Len(Tail(s)) /\ Tail(s)[k - 1] = s[k]
          OBVIOUS
        <5>2. i \in 2 .. Len(requests[p])
          BY <2>2, <4>1, <4>3
        <5>3. /\ i - 1 \in 1 .. Len(requests'[p])
              /\ requests'[p][i - 1] = "sync"
          BY <2>2, <2>7, <4>1, <5>1, <5>2
        <5>4. QED
          BY <5>3
      <4>4. QED
        BY <4>2, <4>3
    <3>4. QED
      BY <1>0, <3>1, <3>2, <3>3 DEF SyncUnderWay
  <2>9. ASSUME NEW o \in Programs, o # p PROVE SyncUnderWay(o)'
    <3>1. /\ pc'[o] = pc[o] /\ requests'[o] = requests[o] /\ inbox'[o] = inbox[o]
      BY <1>0, <2>1, <2>9
    <3>2. QED
      BY <1>0, <3>1 DEF SyncUnderWay
  <2>10. QED
    BY <1>0, <2>1, <2>6, <2>8, <2>9 DEF TravelInv
<1>4. ASSUME NEW p \in Programs, ConnectDisplay(p) PROVE TravelInv'
  <2>1. /\ inbox' = inbox
        /\ \/ /\ pc' = [pc EXCEPT ![p] = "dispatch"]
              /\ requests' = [requests EXCEPT ![p] = <<"get_registry">>]
           \/ pc' = [pc EXCEPT ![p] = "failed"] /\ requests' = requests
    BY <1>4 DEF ConnectDisplay
  <2>2. <<"get_registry">> \in Seq(Asked)
    BY DEF Asked
  <2>3. /\ pc' \in [Programs -> Stages]
        /\ requests' \in [Programs -> Seq(Asked)]
        /\ pc'[p] # "roundtrip"
    BY <1>0, <2>1, <2>2 DEF Stages
  <2>4. ASSUME NEW o \in Programs, o # p PROVE SyncUnderWay(o)'
    <3>1. /\ pc'[o] = pc[o] /\ requests'[o] = requests[o] /\ inbox'[o] = inbox[o]
      BY <1>0, <2>1, <2>4
    <3>2. QED
      BY <1>0, <3>1 DEF SyncUnderWay
  <2>5. QED
    BY <1>0, <2>1, <2>3, <2>4 DEF TravelInv, SyncUnderWay
<1>5. ASSUME NEW p \in Programs, Dispatch(p) PROVE TravelInv'
  <2>1. <<"sync">> \in Seq(Asked)
    BY DEF Asked
  <2>2. QED
    BY <1>5, <2>1, DispatchTravels DEF Dispatch, Stages
<1>6. ASSUME NEW p \in Programs, Roundtrip(p) PROVE TravelInv'
  <2>1. PICK stage \in {"roundtrip", "check"} :
          /\ pc' = [pc EXCEPT ![p] = stage]
          /\ stage = "roundtrip" => ~ Arrived(p, "done")
    BY <1>6, <1>0 DEF Roundtrip
  <2>2. /\ DispatchThen(p, <<>>) /\ pc[p] = "roundtrip"
        /\ <<>> \in Seq(Asked) /\ stage \in Stages
    BY <1>6 DEF Roundtrip, Stages
  <2>3. QED
    BY <2>1, <2>2, DispatchTravels
<1>7. ASSUME NEW p \in Programs, RunClient(p) PROVE TravelInv'
  <2>1. PICK stage \in {"running", "ended", "spinning"} :
          pc' = [pc EXCEPT ![p] = stage]
    BY <1>0, <1>7 DEF RunClient, AfterError
  <2>2. DispatchThen(p, <<>>) /\ <<>> \in Seq(Asked) /\ stage \in Stages
    BY <1>7 DEF RunClient, Stages
  <2>3. QED
    BY <2>1, <2>2, DispatchTravels
<1>8. ASSUME NEW p \in Programs, Check(p) \/ CreateWindow(p) PROVE TravelInv'
  <2>1. PICK stage \in {"failed", "creating", "running", "starved", "crashed"} :
          pc' = [pc EXCEPT ![p] = stage]
    BY <1>8 DEF Check, CreateWindow
  <2>2. requests' = requests /\ inbox' = inbox
    BY <1>8 DEF Check, CreateWindow
  <2>3. pc' \in [Programs -> Stages] /\ pc'[p] # "roundtrip"
    BY <1>0, <2>1 DEF Stages
  <2>4. ASSUME NEW o \in Programs PROVE SyncUnderWay(o)'
    <3>1. SyncUnderWay(o)
      BY <1>0
    <3>2. CASE o = p
      BY <2>3, <3>2 DEF SyncUnderWay
    <3>3. CASE o # p
      <4>1. pc'[o] = pc[o]
        BY <1>0, <2>1, <3>3
      <4>2. QED
        BY ONLY <2>2, <3>1, <4>1 DEF SyncUnderWay
    <3>4. QED
      BY <3>2, <3>3
  <2>5. requests' \in [Programs -> Seq(Asked)] /\ inbox' \in [Programs -> Seq(Answers)]
    BY <1>0, <2>2
  <2>6. QED
    BY ONLY <2>3, <2>4, <2>5 DEF TravelInv
<1>9. QED
  BY <1>2, <1>3, <1>4, <1>5, <1>6, <1>7, <1>8 DEF StartupNext, Step

(* A program that waits in its dispatch or its round trip, where nothing   *)
(* wakes it but an answer, has a request or an answer under way: neither   *)
(* can block while the server runs.                                        *)
THEOREM StartupNeverWaitsInVain ==
  StartupSpec => [](\A p \in Programs :
                      pc[p] \in {"dispatch", "roundtrip"} =>
                        requests[p] # <<>> \/ inbox[p] # <<>>)
<1>1. StartupInit => TravelInv
  <2> SUFFICES ASSUME StartupInit PROVE TravelInv
    OBVIOUS
  <2>1. pc \in [Programs -> Stages]
    BY DEF StartupInit, Stages
  <2>2. /\ <<>> \in Seq(Asked) /\ <<>> \in Seq(Answers)
        /\ requests = [p \in Programs |-> <<>>] /\ inbox = [p \in Programs |-> <<>>]
    BY DEF StartupInit
  <2>3. \A p \in Programs : SyncUnderWay(p)
    BY DEF StartupInit, SyncUnderWay
  <2>4. QED
    BY <2>1, <2>2, <2>3 DEF TravelInv
<1>2. StartupInv /\ TravelInv =>
        \A p \in Programs :
          pc[p] \in {"dispatch", "roundtrip"} =>
            requests[p] # <<>> \/ inbox[p] # <<>>
  <2> SUFFICES ASSUME StartupInv, TravelInv, NEW p \in Programs,
                      pc[p] \in {"dispatch", "roundtrip"}
               PROVE  requests[p] # <<>> \/ inbox[p] # <<>>
    OBVIOUS
  <2>1. CASE pc[p] = "dispatch"
    <3>1. requests[p] = <<"get_registry">> \/ inbox[p] = <<"globals">>
      BY <2>1 DEF StartupInv, FoundTogether
    <3>2. <<"get_registry">> # <<>> /\ <<"globals">> # <<>>
      OBVIOUS
    <3>3. QED
      BY <3>1, <3>2
  <2>2. CASE pc[p] = "roundtrip"
    <3>1. \/ \E i \in 1 .. Len(requests[p]) : requests[p][i] = "sync"
          \/ \E i \in 1 .. Len(inbox[p]) : inbox[p][i] = "done"
      BY <2>2 DEF TravelInv, SyncUnderWay
    <3>2. Len(<<>>) = 0
      OBVIOUS
    <3>3. requests[p] = <<>> /\ inbox[p] = <<>> => FALSE
      BY <3>1, <3>2
    <3>4. QED
      BY <3>3
  <2>3. QED
    BY <2>1, <2>2
<1>3. StartupSpec => []TravelInv
  BY <1>1, TravelStep, PTL DEF StartupSpec
<1>4. QED
  BY <1>2, <1>3, StartupInvariant, PTL
=============================================================================

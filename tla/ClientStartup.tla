--------------------------- MODULE ClientStartup ---------------------------
(***************************************************************************)
(* How the three client programs find the server's globals, and how they   *)
(* end: main (client/main.cpp, with WaylandClient), test1 and test2.       *)
(*                                                                         *)
(* All three connect, ask for the registry, dispatch once, make a round    *)
(* trip, ignore what both calls return, and look at what they found.  Then *)
(* they make their surface and its buffer or EGL window, and loop.  They   *)
(* differ in what they check, in what they use, and in their loops.        *)
(*                                                                         *)
(* Two of their ends are kept apart: a program that "failed" has got no    *)
(* connection, or not its globals; one that "starved" lacks something else *)
(* (memory, a file, EGL) whatever the server does.  What libwayland        *)
(* allocates before the globals are checked is taken to be there.          *)
(*                                                                         *)
(* What the server answers to one request leaves in one piece and a client *)
(* reads all that has arrived; so all globals arrive together.  The server *)
(* may never open its socket, as the result of wl_display_add_socket is    *)
(* ignored, and its process may end at any time.                           *)
(***************************************************************************)
EXTENDS Sequences, FiniteSets

Programs == {"main", "test1", "test2"}

VARIABLES server,     \* "starting", "ready", "running" or "gone"
          socket,     \* was the server's socket added?
          pc,         \* where each program is
          bound,      \* the globals it has bound
          requests,   \* its requests the server has not handled
          inbox       \* answers it has not read

startupVars == <<server, socket, pc, bound, requests, inbox>>

\* Mutant: the shell is not created
AnnouncedWithoutShell == {"wl_compositor", "wl_output", "wl_seat", "wl_shm"}

\* WaylandServer::WaylandServer
Announced == {"wl_compositor", "wl_shell", "wl_output", "wl_seat", "wl_shm"}

\* The interfaces the registry handlers compare with
Known(p) == IF p = "test2" THEN {"wl_compositor", "wl_shell"}
            ELSE {"wl_compositor", "wl_shell", "wl_shm"}

\* The conditions under which the programs go on
Satisfied(p) ==
  CASE p = "main"  -> {"wl_compositor", "wl_shm"} \subseteq bound[p]
    [] p = "test1" -> "wl_compositor" \in bound[p]
    [] p = "test2" -> {"wl_compositor", "wl_shell"} \cap bound[p] # {}

\* What they then use: the proxy of a global that is not bound is null
Used(p) ==
  CASE p = "main"  -> {"wl_compositor", "wl_shm"}
    [] p = "test1" -> {"wl_compositor", "wl_shell", "wl_shm"}
    [] p = "test2" -> {"wl_compositor", "wl_shell"}

StartupInit ==
  /\ server = "starting" /\ socket = FALSE
  /\ pc = [p \in Programs |-> "start"]
  /\ bound = [p \in Programs |-> {}]
  /\ requests = [p \in Programs |-> <<>>]
  /\ inbox = [p \in Programs |-> <<>>]

-----------------------------------------------------------------------------
(* The server *)

\* The socket comes before the globals, but nobody is answered before run
AddSocket ==
  /\ server = "starting"
  /\ server' = "ready"
  /\ socket' \in BOOLEAN
  /\ UNCHANGED <<pc, bound, requests, inbox>>

RunServer ==
  /\ server = "ready"
  /\ server' = "running"
  /\ UNCHANGED <<socket, pc, bound, requests, inbox>>

\* One request: the registry, a round trip, or the binding of wl_shm, which
\* is answered with the formats
Serve(p) ==
  /\ server = "running"
  /\ requests[p] # <<>>
  /\ requests' = [requests EXCEPT ![p] = Tail(@)]
  /\ inbox' = [inbox EXCEPT ![p] = Append(@,
       CASE Head(requests[p]) = "get_registry" -> "globals"
         [] Head(requests[p]) = "sync"         -> "done"
         [] Head(requests[p]) = "bind_shm"     -> "formats")]
  /\ UNCHANGED <<server, socket, pc, bound>>

\* The server's process ends
Stop ==
  /\ server \in {"ready", "running"}
  /\ server' = "gone"
  /\ UNCHANGED <<socket, pc, bound, requests, inbox>>

-----------------------------------------------------------------------------
(* The programs *)

\* Mutant: the globals are not waited for
ConnectAndCheck(p) ==
  /\ pc[p] = "start"
  /\ \/ socket /\ server # "gone" /\ pc' = [pc EXCEPT ![p] = "check"]
     \/ pc' = [pc EXCEPT ![p] = "failed"]
  /\ UNCHANGED <<server, socket, bound, requests, inbox>>

\* wl_display_connect, which may also fail on the client's side (no directory,
\* no descriptor), and wl_display_get_registry
ConnectDisplay(p) ==
  /\ pc[p] = "start"
  /\ \/ /\ socket /\ server # "gone"
        /\ pc' = [pc EXCEPT ![p] = "dispatch"]
        /\ requests' = [requests EXCEPT ![p] = <<"get_registry">>]
     \/ /\ pc' = [pc EXCEPT ![p] = "failed"]
        /\ UNCHANGED requests
  /\ UNCHANGED <<server, socket, bound, inbox>>

Arrived(p, event) == \E i \in DOMAIN inbox[p] : inbox[p][i] = event

\* wl_display_dispatch handles all that has arrived, or fails once the
\* server is gone and nothing is left to read.  Binding wl_shm asks for its
\* formats; next is what is sent after the dispatch
DispatchThen(p, next) ==
  LET found == IF Arrived(p, "globals") THEN Announced \cap Known(p) ELSE {}
      binds == IF "wl_shm" \in found THEN <<"bind_shm">> ELSE <<>>
  IN  /\ inbox[p] # <<>> \/ server = "gone"
      /\ bound' = [bound EXCEPT ![p] = @ \cup found]
      /\ requests' = [requests EXCEPT ![p] = @ \o binds \o next]
      /\ inbox' = [inbox EXCEPT ![p] = <<>>]

\* Mutant: no sync is sent, as if dispatch were called a second time
DispatchUnsynced(p) ==
  /\ pc[p] = "dispatch"
  /\ DispatchThen(p, <<>>)
  /\ pc' = [pc EXCEPT ![p] = "roundtrip"]
  /\ UNCHANGED <<server, socket>>

Dispatch(p) ==
  /\ pc[p] = "dispatch"
  /\ DispatchThen(p, <<"sync">>)
  /\ pc' = [pc EXCEPT ![p] = "roundtrip"]
  /\ UNCHANGED <<server, socket>>

\* wl_display_roundtrip dispatches until its callback is done
Roundtrip(p) ==
  /\ pc[p] = "roundtrip"
  /\ DispatchThen(p, <<>>)
  /\ pc' = [pc EXCEPT ![p] =
              IF Arrived(p, "done") \/ inbox[p] = <<>> THEN "check" ELSE @]
  /\ UNCHANGED <<server, socket>>

\* The program gives up, or goes on with the globals it has
Check(p) ==
  /\ pc[p] = "check"
  /\ pc' = [pc EXCEPT ![p] = IF Satisfied(p) THEN "creating" ELSE "failed"]
  /\ UNCHANGED <<server, socket, bound, requests, inbox>>

\* The surface, and its buffer or its EGL window.  Whatever the server does,
\* it may end here: test1 and test2 exit without a surface, test1 without the
\* memory of its buffer, test2 without a display, EGL or its window, main with
\* the exceptions of WaylandBuffer; and a failure nobody looks at may end it as
\* well.  The globals are used for the first time
CreateWindow(p) ==
  /\ pc[p] = "creating"
  /\ \E stage \in {"starved",
                   IF Used(p) \subseteq bound[p] THEN "running" ELSE "crashed"} :
       pc' = [pc EXCEPT ![p] = stage]
  /\ UNCHANGED <<server, socket, bound, requests, inbox>>

\* Mutant: every program loops while wl_display_dispatch is not 0
AfterErrorSpinning(p) == "spinning"

\* main loops while wl_display_dispatch is not 0, which -1 is not; the others
\* until it is -1
AfterError(p) == IF p = "main" THEN "spinning" ELSE "ended"

\* One turn of the program's loop
RunClient(p) ==
  /\ pc[p] = "running"
  /\ DispatchThen(p, <<>>)
  /\ pc' = [pc EXCEPT ![p] = IF inbox[p] = <<>> THEN AfterError(p) ELSE @]
  /\ UNCHANGED <<server, socket>>

Step(p) ==
  \/ ConnectDisplay(p) \/ Dispatch(p) \/ Roundtrip(p) \/ Check(p)
  \/ CreateWindow(p) \/ RunClient(p)

StartupNext ==
  \/ AddSocket \/ RunServer \/ Stop
  \/ \E p \in Programs : Serve(p) \/ Step(p)

(* Server and programs are scheduled; nobody has to stop the server.       *)
StartupSpec ==
  /\ StartupInit /\ [][StartupNext]_startupVars
  /\ WF_startupVars(AddSocket \/ RunServer)
  /\ \A p \in Programs : WF_startupVars(Serve(p)) /\ WF_startupVars(Step(p))

-----------------------------------------------------------------------------
(* Properties *)

(* No program uses a global it has not found, although test1 checks only   *)
(* one of its three, and test2 is content with one of its two: against     *)
(* this server a program finds all of them or none, wherever the server    *)
(* stops.                                                                  *)
NoMissingGlobalUsed == \A p \in Programs : pc[p] # "crashed"

(* A program that has connected misses globals it asks for only if the     *)
(* server went away: one dispatch and one round trip are enough to find    *)
(* them, also when it connects before the server runs its loop.  For want  *)
(* of anything else it may end beside a running server (CreateWindow).     *)
GlobalsMissedOnlyWithoutServer ==
  [][\A p \in Programs :
       pc[p] \notin {"start", "failed"} /\ pc'[p] = "failed" =>
         server = "gone"]_startupVars

(* The dispatch and the round trip return, for every program and wherever  *)
(* the server stops: it comes to its loop or to its end.                   *)
StartupEnds ==
  \A p \in Programs :
    <>(pc[p] \in {"running", "failed", "starved", "crashed", "ended", "spinning"})

(* When the server is gone, test1 and test2 come to their end.  main does  *)
(* not once it is in its loop: it asks wl_display_dispatch again for ever. *)
EndsWithServer ==
  server = "gone" ~>
    \A p \in Programs :
      \/ pc[p] \in {"failed", "starved", "ended"}
      \/ p = "main" /\ pc[p] = "spinning"
=============================================================================

---------------------------- MODULE TestFixture ----------------------------
(***************************************************************************)
(* WaylandServerFixture (tests/test1.cpp) with a NullBackend: a thread     *)
(* runs the server, the test's own thread waits on a condition variable    *)
(* until the server is ready, connects, and stops the server in TearDown   *)
(* with a timer that it adds to the server's event loop.                   *)
(*                                                                         *)
(* The wait has no predicate and the notification takes no lock: a         *)
(* notification before the wait is lost, and a wait may wake up for no     *)
(* reason.  The library's condition variable is modelled by its set of     *)
(* waiters.                                                                *)
(***************************************************************************)
EXTENDS Naturals

VARIABLES test,       \* where the test's thread is
          server,     \* where the server's thread is
          waiting,    \* is the test's thread a waiter of mConditionServerReady?
          socket,     \* does the server listen?
          killTimer   \* has NullBackend::finish armed its timer?

vars == <<test, server, waiting, socket, killTimer>>

Init ==
  /\ test = "SetUp"
  /\ server = "none"
  /\ waiting = FALSE
  /\ socket = FALSE
  /\ killTimer = FALSE

-----------------------------------------------------------------------------
(* The test's thread *)

\* SetUp creates mThreadServer and takes mMutexServerReady, which nobody
\* else takes
StartServer ==
  /\ test = "SetUp"
  /\ test' = "started"
  /\ server' = "constructing"
  /\ UNCHANGED <<waiting, socket, killTimer>>

Wait ==
  /\ test = "started"
  /\ test' = "waiting"
  /\ waiting' = TRUE
  /\ UNCHANGED <<server, socket, killTimer>>

\* wait returns when the thread was notified ...
WakeUp ==
  /\ test = "waiting" /\ ~ waiting
  /\ test' = "body"
  /\ UNCHANGED <<server, waiting, socket, killTimer>>

\* ... or for no reason
SpuriousWakeUp ==
  /\ test = "waiting" /\ waiting
  /\ waiting' = FALSE
  /\ test' = "body"
  /\ UNCHANGED <<server, socket, killTimer>>

\* The test body: TestClient connects or throws.  What a test does after it
\* failed is not modelled (simple_connection goes on with a null pointer)
Connect ==
  /\ test = "body"
  /\ test' = IF socket THEN "connected" ELSE "failed"
  /\ UNCHANGED <<server, waiting, socket, killTimer>>

\* WaylandClient::WaylandClient waits for the globals, which a server that
\* runs its loop sends
Dispatch ==
  /\ test = "connected"
  /\ server = "running"
  /\ test' = "tested"
  /\ UNCHANGED <<server, waiting, socket, killTimer>>

\* NullBackend::finish, from TearDown
Finish ==
  /\ test = "tested"
  /\ killTimer' = TRUE
  /\ test' = "joining"
  /\ UNCHANGED <<server, waiting, socket>>

Join ==
  /\ test = "joining"
  /\ server = "ended"
  /\ test' = "done"
  /\ UNCHANGED <<server, waiting, socket, killTimer>>

-----------------------------------------------------------------------------
(* The server's thread *)

\* WaylandServer::WaylandServer adds the socket before its globals
AddSocket ==
  /\ server = "constructing"
  /\ server' = "constructed"
  /\ socket' = TRUE
  /\ UNCHANGED <<test, waiting, killTimer>>

NotifyOne ==
  /\ server = "constructed"
  /\ server' = "running"
  /\ waiting' = FALSE
  /\ UNCHANGED <<test, socket, killTimer>>

\* hookKillTime ends wl_display_run; then ~WaylandServer
Kill ==
  /\ server = "running"
  /\ killTimer
  /\ server' = "ended"
  /\ socket' = FALSE
  /\ UNCHANGED <<test, waiting, killTimer>>

TestThread ==
  \/ StartServer \/ Wait \/ WakeUp \/ Connect \/ Dispatch \/ Finish \/ Join

ServerThread == AddSocket \/ NotifyOne \/ Kill

Next == TestThread \/ SpuriousWakeUp \/ ServerThread

(* The scheduler runs both threads; it owes nobody a spurious wake-up.     *)
Spec == Init /\ [][Next]_vars /\ WF_vars(TestThread) /\ WF_vars(ServerThread)

-----------------------------------------------------------------------------
(* Properties *)

(* A test of the fixture comes to its end: SetUp's wait for                *)
(* "mConditionServerReady" (tests/test1.cpp:35) returns, and then the      *)
(* client connects (EXPECT_NO_THROW at tests/test1.cpp:70).                *)
TestEnds == <>(test = "done")
=============================================================================

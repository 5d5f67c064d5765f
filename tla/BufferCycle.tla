---------------------------- MODULE BufferCycle ----------------------------
(***************************************************************************)
(* Buffers on their way from clients to the display and back.  A client    *)
(* draws only into buffers it owns; it gives one away by attaching and     *)
(* committing it, and owns it again when it has read wl_buffer.release.    *)
(* That is what client/waylandbuffer.hpp does with one buffer; here a      *)
(* client may have several, as toolkits do.  It may also destroy buffers:  *)
(* a careful client only those it owns, a careless one any.                *)
(*                                                                         *)
(* The callbacks are not told apart here (each one is callback 1): their   *)
(* identity and order are the subject of module Surface.                   *)
(***************************************************************************)
EXTENDS Connection

CONSTANTS Callbacks,    \* what each client commits with: {0}, {1} or {0, 1}
          Careless,     \* the clients that destroy buffers they gave away
          MaxDestroyed  \* bound: buffers a client destroys

ASSUME CycleAssumption ==
  /\ Callbacks \in [Clients -> SUBSET {NoCallback, 1}]
  /\ Careless \subseteq Clients
  /\ MaxDestroyed \in Nat

\* The clients that ask for a callback with every frame
Asking == {c \in Clients : Callbacks[c] = {1}}

VARIABLES mine,         \* the buffers each client may draw into
          asked         \* has it ever asked for a callback?

cycleVars == <<mine, asked>>
vars == <<serverVars, cycleVars>>

Init ==
  /\ ServerInit
  /\ mine = [c \in Clients |-> Buffers]
  /\ asked = [c \in Clients |-> FALSE]

\* The client draws b and shows it, with or without asking for a callback
DrawAndCommit(c, b, cb) ==
  /\ b \in mine[c]
  /\ mine' = [mine EXCEPT ![c] = @ \ {b}]
  /\ asked' = [asked EXCEPT ![c] = @ \/ cb # NoCallback]
  /\ Submit(c, b, cb)
  /\ UNCHANGED <<surf, outbox, wantFlush, inbox, bufferVars>>

InFlight(c, op, b) ==
  {i \in DOMAIN requests[c] : requests[c][i].op = op /\ requests[c][i].buffer = b}

\* The wl_buffers that the client has destroyed
Destroyed(c) == freed[c] \cup {b \in Buffers : InFlight(c, "destroy", b) # {}}

\* wl_buffer_destroy
DestroyBuffer(c, b) ==
  /\ Cardinality(Destroyed(c)) < MaxDestroyed
  /\ b \in IF c \in Careless THEN Buffers \ Destroyed(c) ELSE mine[c]
  /\ mine' = [mine EXCEPT ![c] = @ \ {b}]
  /\ requests' = [requests EXCEPT ![c] =
                    Append(@, [op |-> "destroy", buffer |-> b])]
  /\ UNCHANGED <<surf, outbox, wantFlush, inbox, bufferVars, asked>>

\* WaylandBuffer::release makes the buffer drawable again; the library drops
\* an event for an object the client has destroyed
ReadEvent(c) ==
  /\ TakeEvent(c)
  /\ mine' = IF Head(inbox[c]).type = "release"
             THEN [mine EXCEPT ![c] =
                     @ \cup ({Head(inbox[c]).buffer} \ Destroyed(c))]
             ELSE mine
  /\ UNCHANGED <<surf, requests, outbox, wantFlush, bufferVars, asked>>

ClientStep(c) ==
  \/ \E b \in Buffers, cb \in Callbacks[c] : DrawAndCommit(c, b, cb)
  \/ \E b \in Buffers : DestroyBuffer(c, b)
  \/ ReadEvent(c)

\* What clients do when the server is gone is the subject of ClientStartup
Next ==
  \/ ServerNext /\ UNCHANGED cycleVars
  \/ \E c \in Clients : ~ Broken /\ ClientStep(c)

(* The server's loop and the clients' loops run for ever; a client need    *)
(* not draw again.                                                         *)
Fairness ==
  /\ WF_vars(Repaint /\ UNCHANGED cycleVars)
  /\ WF_vars(FlushClients /\ UNCHANGED cycleVars)
  /\ \A c \in Clients : WF_vars(DispatchRequest(c) /\ UNCHANGED cycleVars)
  /\ \A c \in Clients : WF_vars(~ Broken /\ ReadEvent(c))

Spec == Init /\ [][Next]_vars /\ Fairness

-----------------------------------------------------------------------------
(* Properties *)

ReleasesIn(events, b) == {i \in DOMAIN events : events[i] = Release(b)}

\* The number of places buffer b of client c is in
Places(c, b) ==
  Cardinality(InFlight(c, "attach", b))
  + Cardinality({st \in {"front", "back"} : surf[c][st].buffer = b})
  + Cardinality(ReleasesIn(outbox[c], b)) + Cardinality(ReleasesIn(inbox[c], b))
  + (IF b \in mine[c] THEN 1 ELSE 0)

(* No buffer is lost and none is handed out twice: each is at every moment *)
(* in exactly one place, with its client, on its way to the server, in one *)
(* of the two states of the surface, or in a release on its way back.  One *)
(* that is destroyed is never with the client again.                       *)
BufferConserved ==
  \A c \in Clients :
    /\ \A b \in Buffers \ Destroyed(c) : Places(c, b) = 1
    /\ Destroyed(c) \cap mine[c] = {}

(* The compositor never reads from a buffer the client may draw into, for  *)
(* every delay of requests and releases.                                   *)
NoTearing ==
  \A c \in Clients : {surf[c].front.buffer, surf[c].back.buffer} \cap mine[c] = {}

(* surfaceCommit only queues the release, so on its own it would stay in   *)
(* the connection's buffer.  It reaches a client that asks for callbacks   *)
(* all the same: the callback of the frame that replaced the buffer is     *)
(* posted after it.  Only the end of the server, which any client can      *)
(* bring about, takes it away.                                             *)
ReleaseArrives ==
  \A c \in Asking, b \in Buffers :
    ReleasesIn(outbox[c], b) # {} ~> b \in mine[c] \cup Destroyed(c) \/ Broken

(* A client that asks for callbacks and keeps two buffers can always draw  *)
(* again, as long as the server lives.                                     *)
CanDrawAgain ==
  \A c \in Asking :
    []<>(mine[c] # {} \/ Cardinality(Destroyed(c)) > Cardinality(Buffers) - 2
                     \/ Broken)

(* A client that has not asked for a callback is not sent anything: the    *)
(* releases of its buffers are queued and nothing posts.  Once it has      *)
(* committed every buffer it has, it can never draw again.                 *)
SilentWithoutCallbacks ==
  \A c \in Clients : ~ asked[c] => inbox[c] = <<>> /\ ~ wantFlush[c]

(* The server never uses the freed buffer of a client that destroys only   *)
(* buffers it has drawn into or got back: by the time the destruction      *)
(* arrives, both states of the surface have let go of the buffer.          *)
UsesFreedOnlyOfCareless == culprits \subseteq Careless

(* A buffer that is destroyed while it is on display is used all the same: *)
(* the surface does not listen for its destruction, and the next repaint   *)
(* or commit runs into it.  One careless client ends the server for all.   *)
DestroyedOnDisplayBreaks ==
  \A c \in Clients : FrontFreed(c) ~> Broken
=============================================================================

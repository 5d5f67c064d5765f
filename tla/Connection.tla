----------------------------- MODULE Connection -----------------------------
(***************************************************************************)
(* The server between its clients: one surface per client, the requests    *)
(* that travel to it, and the events that travel back through libwayland.  *)
(*                                                                         *)
(* libwayland keeps a client's events in a buffer of its connection.  An   *)
(* event that is posted (wl_callback_send_done) asks for that buffer to be *)
(* flushed, one that is only queued (wl_resource_queue_event, which        *)
(* surfaceCommit uses for wl_buffer.release) does not: it waits there for  *)
(* the next posted event.  Both keep their order.                          *)
(*                                                                         *)
(* A wl_buffer is freed when its client destroys it.  The surface does not *)
(* listen for that and keeps its pointer; a server that uses it then has   *)
(* undefined behaviour, and takes no further step here.                    *)
(***************************************************************************)
EXTENDS SurfaceOps, FiniteSets

CONSTANTS Clients

VARIABLES surf,       \* each client's Surface object, in the server
          requests,   \* sent by a client and not dispatched yet: "attach" and
                      \* "destroy" of a buffer, "frame" with a callback, "commit"
          outbox,     \* events in the server's buffer for a client
          wantFlush,  \* has one of them been posted?
          inbox,      \* events flushed and not yet read by the client
          freed,      \* each client's wl_buffers whose resource is freed
          culprits    \* the clients of which a freed wl_buffer was used

bufferVars == <<freed, culprits>>
serverVars == <<surf, requests, outbox, wantFlush, inbox, bufferVars>>

ServerInit ==
  /\ surf = [c \in Clients |-> NewSurface]
  /\ requests = [c \in Clients |-> <<>>]
  /\ outbox = [c \in Clients |-> <<>>]
  /\ wantFlush = [c \in Clients |-> FALSE]
  /\ inbox = [c \in Clients |-> <<>>]
  /\ freed = [c \in Clients |-> {}]
  /\ culprits = {}

\* Mutant: the release is posted as well
PostedWithRelease(events) == events # <<>>

Posted(events) == \E i \in DOMAIN events : events[i].type = "done"

-----------------------------------------------------------------------------
(* What a client sends to show buffer b: redraw in client/waylandsurface   *)
(* asks for a callback, create_window in client/test1 does not.            *)

\* Mutant: the commit is missing
SubmitWithoutCommit(b, cb) ==
  <<[op |-> "attach", buffer |-> b], [op |-> "frame", callback |-> cb]>>

SubmitRequests(b, cb) ==
  <<[op |-> "attach", buffer |-> b]>>
  \o (IF cb = NoCallback THEN <<>> ELSE <<[op |-> "frame", callback |-> cb]>>)
  \o <<[op |-> "commit"]>>

Submit(c, b, cb) ==
  requests' = [requests EXCEPT ![c] = @ \o SubmitRequests(b, cb)]

-----------------------------------------------------------------------------
(* The server's event loop: one request, the repaint timer, or a flush.    *)

Broken == culprits # {}

FrontFreed(c) == surf[c].front.buffer \in freed[c]

Handled(s, r) ==
  CASE r.op = "attach"  -> Attached(s, r.buffer, 0)
    [] r.op = "frame"   -> Framed(s, r.callback)
    [] r.op = "commit"  -> Committed(s)
    [] r.op = "destroy" -> s

HandlerEvents(s, r) == IF r.op = "commit" THEN CommitEvents(s) ELSE <<>>

\* surfaceCommit releases the buffer it replaces, freed or not
UsesFreed(c, r) ==
  r.op = "commit" /\ surf[c].back.buffer # NoBuffer /\ FrontFreed(c)

\* The handler of a request.  wl_buffer.destroy is libwayland's own handler:
\* the resource is freed
DispatchRequest(c) ==
  /\ ~ Broken
  /\ requests[c] # <<>>
  /\ LET r      == Head(requests[c])
         events == HandlerEvents(surf[c], r)
     IN  /\ surf' = [surf EXCEPT ![c] = Handled(@, r)]
         /\ outbox' = [outbox EXCEPT ![c] = @ \o events]
         /\ wantFlush' = [wantFlush EXCEPT ![c] = @ \/ Posted(events)]
         /\ freed' = [freed EXCEPT ![c] =
                         IF r.op = "destroy" THEN @ \cup {r.buffer} ELSE @]
         /\ culprits' = IF UsesFreed(c, r) THEN {c} ELSE {}
  /\ requests' = [requests EXCEPT ![c] = Tail(@)]
  /\ UNCHANGED inbox

\* Mutant: lockBuffer finds out that its buffer is gone
ReadsFreedNever(c) == FALSE

\* lockBuffer hands the buffer of a surface that is ready to wl_shm_buffer_get
ReadsFreed(c) == surf[c].front.isReady /\ FrontFreed(c)

\* Compositor::repaint paints every surface in one call
Repaint ==
  /\ ~ Broken
  /\ surf' = [c \in Clients |-> Painted(surf[c])]
  /\ outbox' = [c \in Clients |-> outbox[c] \o PaintEvents(surf[c])]
  /\ wantFlush' =
       [c \in Clients |-> wantFlush[c] \/ Posted(PaintEvents(surf[c]))]
  /\ culprits' = {c \in Clients : ReadsFreed(c)}
  /\ UNCHANGED <<requests, inbox, freed>>

\* wl_display_flush_clients, which wl_display_run calls before it waits
FlushClients ==
  /\ ~ Broken
  /\ \E c \in Clients : wantFlush[c]
  /\ inbox' = [c \in Clients |->
                 IF wantFlush[c] THEN inbox[c] \o outbox[c] ELSE inbox[c]]
  /\ outbox' = [c \in Clients |-> IF wantFlush[c] THEN <<>> ELSE outbox[c]]
  /\ wantFlush' = [c \in Clients |-> FALSE]
  /\ UNCHANGED <<surf, requests, bufferVars>>

ServerNext == (\E c \in Clients : DispatchRequest(c)) \/ Repaint \/ FlushClients

\* The client reads its oldest event
TakeEvent(c) ==
  /\ inbox[c] # <<>>
  /\ inbox' = [inbox EXCEPT ![c] = Tail(@)]
=============================================================================

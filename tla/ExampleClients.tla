--------------------------- MODULE ExampleClients ---------------------------
(***************************************************************************)
(* The programs of this repository that show shared memory, each with one  *)
(* buffer:                                                                 *)
(*   main   (client/main.cpp): a WaylandSurface, which paints its buffer   *)
(*          in one colour, commits it with a frame callback, and paints    *)
(*          the next colour when the callback is done;                     *)
(*   test1  (client/test1.cpp): it commits its buffer, paints it only      *)
(*          then, and asks for no callback and no release.                 *)
(*                                                                         *)
(* A request waits in the connection of its client until the client's next *)
(* wl_display_dispatch flushes it.  Only that keeps test1's buffer from    *)
(* being shown before it is painted.                                       *)
(***************************************************************************)
EXTENDS Connection

CONSTANTS buffer,       \* the only buffer of each client
          Test1         \* the clients that run test1; the others run main

ASSUME ExampleAssumption == Buffers = {buffer} /\ Test1 \subseteq Clients

Main == Clients \ Test1

VARIABLES pc,           \* "start", "committed" (test1) or "looping"
          unsent,       \* requests in the client's connection
          readyToDraw,  \* WaylandBuffer::mReadyToDraw
          color,        \* the colour of the buffer's memory, which client
                        \* and server share; 0 is unpainted
          frames        \* frame callbacks asked for so far

clientVars == <<pc, unsent, readyToDraw, color, frames>>
vars == <<serverVars, clientVars>>

Init ==
  /\ ServerInit
  /\ pc = [c \in Clients |-> "start"]
  /\ unsent = [c \in Clients |-> <<>>]
  /\ readyToDraw = [c \in Clients |-> TRUE]
  /\ color = [c \in Clients |-> 0]
  /\ frames = [c \in Clients |-> 0]

Commit(c, cb) ==
  unsent' = [unsent EXCEPT ![c] = @ \o SubmitRequests(buffer, cb)]

\* The part of wl_display_dispatch that sends
FlushRequests(c) ==
  /\ pc[c] = "looping"
  /\ unsent[c] # <<>>
  /\ requests' = [requests EXCEPT ![c] = @ \o unsent[c]]
  /\ unsent' = [unsent EXCEPT ![c] = <<>>]
  /\ UNCHANGED <<surf, outbox, wantFlush, inbox, bufferVars, pc, readyToDraw, color, frames>>

-----------------------------------------------------------------------------
(* main *)

\* redraw when the buffer is ready: paint, attach, frame, commit.  The colour
\* is a uint8_t that counts up
Draw(c) ==
  /\ color' = [color EXCEPT ![c] = (@ + 1) % 256]
  /\ frames' = [frames EXCEPT ![c] = @ + 1]
  /\ Commit(c, frames'[c])
  /\ readyToDraw' = [readyToDraw EXCEPT ![c] = FALSE]

\* Mutant: redraw does not ask readyToDraw
RedrawAlways(c) == Draw(c)

\* redraw: a buffer that is not ready is left alone, and so is the callback
Redraw(c) ==
  IF readyToDraw[c] THEN Draw(c)
  ELSE UNCHANGED <<unsent, readyToDraw, color, frames>>

\* WaylandClient::createSurface
CreateSurface(c) ==
  /\ c \in Main
  /\ pc[c] = "start"
  /\ pc' = [pc EXCEPT ![c] = "looping"]
  /\ Redraw(c)
  /\ UNCHANGED serverVars

\* hookFrameDone redraws; hookBufferRelease makes the buffer ready, and
\* redraws nothing
HandleEvent(c) ==
  /\ c \in Main
  /\ pc[c] = "looping"
  /\ TakeEvent(c)
  /\ IF Head(inbox[c]).type = "done"
     THEN Redraw(c)
     ELSE /\ readyToDraw' = [readyToDraw EXCEPT ![c] = TRUE]
          /\ UNCHANGED <<unsent, color, frames>>
  /\ UNCHANGED <<surf, requests, outbox, wantFlush, bufferVars, pc>>

-----------------------------------------------------------------------------
(* test1 *)

\* Mutant: create_window flushes the connection
CreateWindowFlushed(c) ==
  /\ c \in Test1
  /\ pc[c] = "start"
  /\ pc' = [pc EXCEPT ![c] = "committed"]
  /\ requests' = [requests EXCEPT ![c] = @ \o SubmitRequests(buffer, NoCallback)]
  /\ UNCHANGED <<surf, outbox, wantFlush, inbox, bufferVars, unsent, readyToDraw, color, frames>>

CreateWindow(c) ==
  /\ c \in Test1
  /\ pc[c] = "start"
  /\ pc' = [pc EXCEPT ![c] = "committed"]
  /\ Commit(c, NoCallback)
  /\ UNCHANGED <<serverVars, readyToDraw, color, frames>>

\* paint_pixels, and then the loop
PaintPixels(c) ==
  /\ c \in Test1
  /\ pc[c] = "committed"
  /\ pc' = [pc EXCEPT ![c] = "looping"]
  /\ color' = [color EXCEPT ![c] = 1]
  /\ UNCHANGED <<serverVars, unsent, readyToDraw, frames>>

-----------------------------------------------------------------------------
ClientStep(c) ==
  \/ FlushRequests(c)
  \/ CreateSurface(c) \/ HandleEvent(c)
  \/ CreateWindow(c) \/ PaintPixels(c)

Next ==
  \/ ServerNext /\ UNCHANGED clientVars
  \/ \E c \in Clients : ClientStep(c)

(* wl_display_run and the clients' loops run for ever.                     *)
Fairness ==
  /\ WF_vars(Repaint /\ UNCHANGED clientVars)
  /\ WF_vars(FlushClients /\ UNCHANGED clientVars)
  /\ \A c \in Clients : WF_vars(DispatchRequest(c) /\ UNCHANGED clientVars)
  /\ \A c \in Clients : WF_vars(ClientStep(c))

Spec == Init /\ [][Next]_vars /\ Fairness

-----------------------------------------------------------------------------
(* Properties *)

\* The server may read the buffer, now or after a request under way
Held(c) ==
  \/ buffer \in {surf[c].front.buffer, surf[c].back.buffer}
  \/ \E i \in DOMAIN requests[c] : requests[c][i].op = "attach"

(* No client ever paints into its buffer from the moment its request to    *)
(* show it has left until the server has given the buffer back.            *)
NoPaintWhileHeld ==
  [][\A c \in Clients : color'[c] # color[c] => ~ Held(c)]_vars

(* What the server has got is painted, although test1 commits its buffer   *)
(* first.                                                                  *)
FirstFrameIsPainted == \A c \in Clients : Held(c) => color[c] # 0

(* The compositor gives a buffer back when the next one is committed, main *)
(* commits the next one when its only buffer is back: after one frame each *)
(* waits for the other.  From then on every client is on display with its  *)
(* first frame and nothing is under way in either direction.               *)
StallsAfterOneFrame ==
  \A c \in Clients :
    <>[](/\ surf[c].front.buffer = buffer
         /\ frames[c] = IF c \in Main THEN 1 ELSE 0
         /\ readyToDraw[c] <=> c \in Test1
         /\ unsent[c] = <<>> /\ requests[c] = <<>>
         /\ outbox[c] = <<>> /\ inbox[c] = <<>>)
=============================================================================

------------------------------ MODULE X11Loop ------------------------------
(***************************************************************************)
(* The X11 backend (backend/x11backend.hpp) in the server's event loop.    *)
(*                                                                         *)
(* Events of the X server arrive in the socket of the connection, which    *)
(* two libraries read.  xcb moves what has arrived to a queue of its own   *)
(* when handleX11Events polls, and epoll no longer reports the socket      *)
(* although events wait in the queue; handleX11Events takes one at a time. *)
(* That nothing is stranded there is the work of wl_event_source_check:    *)
(* libwayland calls the handler again at the end of each turn of the loop  *)
(* until it returns 0.  Xlib still owns the events, as nothing calls       *)
(* XSetEventQueueOwner: what it finds in the socket or in xcb's queue when *)
(* drawBuffer flushes, it moves to its own queue, which nobody reads.      *)
(*                                                                         *)
(* A turn: the loop waits for ready sources, dispatches them as one batch  *)
(* in an order epoll chooses, and then checks.                             *)
(***************************************************************************)
EXTENDS Naturals, Sequences

CONSTANTS MaxEvents     \* bound: events the X server sends

ASSUME X11Assumption == MaxEvents \in Nat

\* XCB_CLIENT_MESSAGE with mWmDeleteWindow, and everything else, which
\* changes nothing: no pointer listener is connected
EventKinds == {"close", "other"}

VARIABLES socket,     \* events in the connection's socket
          queue,      \* events read by xcb and not polled
          swallowed,  \* events in Xlib's queue
          sentEvents, \* number of events the X server has sent
          due,        \* has the repaint timer expired?
          phase,      \* "init", "waiting", "batch", "check", "left", or "over"
          batch,      \* sources still to be dispatched in this turn
          source,     \* is mXcbSource in the loop?
          window,     \* does mWindow exist?
          run,        \* wl_display's run flag
          deadDraws,  \* draws on a window that was destroyed
          exit        \* how the process ended, if it has: "none", "clean",
                      \* "error" (an X error), "exception" or "crash"

events == <<socket, queue, swallowed>>
backend == <<source, window, run>>
vars == <<events, backend, sentEvents, due, phase, batch, deadDraws, exit>>

Init ==
  /\ socket = <<>> /\ queue = <<>> /\ swallowed = <<>>
  /\ sentEvents = 0
  /\ due = FALSE
  /\ phase = "init"
  /\ batch = {}
  /\ source = FALSE /\ window = FALSE
  /\ run = TRUE
  /\ deadDraws = 0
  /\ exit = "none"

-----------------------------------------------------------------------------
(* The X server and the clock *)

XEvent(e) ==
  /\ window
  /\ sentEvents < MaxEvents
  /\ sentEvents' = sentEvents + 1
  /\ socket' = Append(socket, e)
  /\ UNCHANGED <<queue, swallowed, backend, due, phase, batch, deadDraws, exit>>

TimerExpires ==
  /\ ~ due
  /\ phase \in {"waiting", "batch", "check"}
  /\ due' = TRUE
  /\ UNCHANGED <<events, backend, sentEvents, phase, batch, deadDraws, exit>>

-----------------------------------------------------------------------------
(* Start and end *)

End(how) == phase' = "over" /\ exit' = how

\* Without an image for the window's pixmap it throws, and nobody catches
WindowPixmapFails == End("exception")

\* init: the handler is added to the loop and marked to be checked.  Without a
\* display it goes on with a null pointer, as X11Exception is not thrown
InitBackend ==
  /\ phase = "init"
  /\ \/ /\ phase' = "waiting"
        /\ source' = TRUE /\ window' = TRUE
        /\ UNCHANGED exit
     \/ /\ End("crash") \/ WindowPixmapFails
        /\ UNCHANGED <<source, window>>
  /\ UNCHANGED <<events, run, sentEvents, due, batch, deadDraws>>

\* ~X11Backend: XCloseDisplay waits for the answers to all requests, and the
\* error of a draw on the destroyed window is one; Xlib then exits
DestroyBackend ==
  /\ phase = "left"
  /\ End(IF deadDraws = 0 THEN "clean" ELSE "error")
  /\ UNCHANGED <<events, backend, sentEvents, due, batch, deadDraws>>

-----------------------------------------------------------------------------
(* The event loop *)

\* Bound: one too many is as bad as several
CountedTo(bound, n) == IF n < bound THEN n + 1 ELSE n

ReadySources ==
  (IF due THEN {"timer"} ELSE {}) \cup
  (IF source /\ socket # <<>> THEN {"xcb"} ELSE {})

\* epoll_wait returns
Wait ==
  /\ phase = "waiting"
  /\ ReadySources # {}
  /\ batch' = ReadySources
  /\ phase' = "batch"
  /\ UNCHANGED <<events, backend, sentEvents, due, deadDraws, exit>>

\* drawBuffer, from Compositor::repaint, which arms the timer again.  Its
\* XFlush may find events
DrawBuffer ==
  /\ phase = "batch"
  /\ "timer" \in batch
  /\ batch' = batch \ {"timer"}
  /\ due' = FALSE
  /\ deadDraws' = IF window THEN deadDraws ELSE CountedTo(2, deadDraws)
  /\ \/ /\ swallowed' = swallowed \o queue \o socket
        /\ queue' = <<>> /\ socket' = <<>>
     \/ UNCHANGED events
  /\ UNCHANGED <<backend, sentEvents, phase, exit>>

\* Mutant: the loop is not terminated
HandleKeepsRunning(e) ==
  IF e = "close"
  THEN source' = FALSE /\ window' = FALSE /\ UNCHANGED run
  ELSE UNCHANGED backend

\* Mutant: mXcbSource is not removed
HandleKeepsSource(e) ==
  IF e = "close"
  THEN window' = FALSE /\ run' = FALSE /\ UNCHANGED source
  ELSE UNCHANGED backend

\* The cases of handleX11Events
Handle(e) ==
  IF e = "close"
  THEN source' = FALSE /\ window' = FALSE /\ run' = FALSE
  ELSE UNCHANGED backend

\* What xcb_poll_for_event can return: it reads the socket if it has to
Available == IF queue = <<>> THEN socket ELSE queue

\* One call of handleX11Events with an event to take
HandleX11Event ==
  /\ Available # <<>>
  /\ Handle(Head(Available))
  /\ queue' = Tail(Available)
  /\ socket' = IF queue = <<>> THEN <<>> ELSE socket
  /\ UNCHANGED swallowed

\* The socket was ready: one event, if drawBuffer's XFlush has not taken them
\* all (a call with nothing to take returns 0)
DispatchXcb ==
  /\ phase = "batch"
  /\ "xcb" \in batch
  /\ batch' = batch \ {"xcb"}
  /\ IF Available # <<>> THEN HandleX11Event
     ELSE UNCHANGED <<events, backend>>
  /\ UNCHANGED <<sentEvents, due, phase, deadDraws, exit>>

\* The batch is done; sources marked by wl_event_source_check come next
BeginCheck ==
  /\ phase = "batch"
  /\ batch = {}
  /\ phase' = "check"
  /\ UNCHANGED <<events, backend, sentEvents, due, batch, deadDraws, exit>>

\* post_dispatch_check: the handler returned 1, so it is called again
CheckXcb ==
  /\ phase = "check"
  /\ source
  /\ HandleX11Event
  /\ UNCHANGED <<sentEvents, due, phase, batch, deadDraws, exit>>

\* Mutant: mXcbSource is not marked to be checked
EndTurnUnchecked ==
  /\ phase = "check"
  /\ phase' = IF run THEN "waiting" ELSE "left"
  /\ UNCHANGED <<events, backend, sentEvents, due, batch, deadDraws, exit>>

\* The handler returned 0; wl_display_run looks at its flag
EndTurn ==
  /\ phase = "check"
  /\ ~ (source /\ Available # <<>>)
  /\ phase' = IF run THEN "waiting" ELSE "left"
  /\ UNCHANGED <<events, backend, sentEvents, due, batch, deadDraws, exit>>

Loop == Wait \/ DrawBuffer \/ DispatchXcb \/ BeginCheck \/ CheckXcb \/ EndTurn

Next ==
  \/ \E e \in EventKinds : XEvent(e)
  \/ TimerExpires
  \/ Loop
  \/ InitBackend \/ DestroyBackend

(* The loop runs as long as it has something to do, and the timer is armed *)
(* by the constructor and by every repaint; when it is left, the server is *)
(* destroyed.                                                              *)
Spec ==
  /\ Init /\ [][Next]_vars
  /\ WF_vars(Loop) /\ WF_vars(TimerExpires) /\ WF_vars(DestroyBackend)

-----------------------------------------------------------------------------
(* Properties *)

(* The loop never sleeps on an event that xcb has already taken from the   *)
(* socket: nothing would wake it for that event.                           *)
NothingStranded == phase = "waiting" => queue = <<>>

Waiting(kind, seq) == \E i \in DOMAIN seq : seq[i] = kind

(* Closing the window ends the server, wherever the close event was read   *)
(* and whatever was sent with it, unless Xlib has swallowed the event: a   *)
(* window that is closed while a repaint flushes stays for ever.           *)
CloseEndsTheLoop ==
  Waiting("close", queue \o socket) ~>
    phase \in {"left", "over"} \/ Waiting("close", swallowed)

(* After mXcbSource is removed and the window destroyed, handleX11Events   *)
(* takes no further event, although the loop finishes its turn; and the    *)
(* repaint that may stand in the batch of the close, the only one that may *)
(* still come, draws on the window once at most.                           *)
QuietAfterClose ==
  [][phase # "init" /\ ~ window =>
       /\ Len(socket' \o queue' \o swallowed') >= Len(socket \o queue \o swallowed)
       /\ deadDraws' <= 1]_vars

(* Once the window is closed the process ends, and in good order unless a  *)
(* repaint was due in the very batch of the close: the order in which      *)
(* epoll reports the two decides on the exit status.                       *)
CleanUnlessRepaintDue ==
  (phase # "init" /\ exit = "none" /\ ~ window /\ deadDraws = 0 /\ "timer" \notin batch)
    ~> exit = "clean"
=============================================================================

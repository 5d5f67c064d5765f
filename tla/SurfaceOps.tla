----------------------------- MODULE SurfaceOps -----------------------------
(***************************************************************************)
(* What the handlers of class Surface (server/surface.hpp) do to one       *)
(* Surface object, as operators on its value.  A handler is a pair: the    *)
(* surface it leaves behind and the events it sends to the client.  The    *)
(* modules Surface and Connection turn these operators into actions.       *)
(*                                                                         *)
(* A wl_buffer is a member of Buffers, a wl_callback a positive number:    *)
(* callbacks are numbered in the order in which the client asks for them.  *)
(* NoBuffer and NoCallback stand for nullptr.  The two coordinates are     *)
(* treated alike by every handler, so one (x) stands for both.             *)
(***************************************************************************)
EXTENDS Integers, Sequences

CONSTANTS Buffers,      \* the wl_buffers of wl_shm that clients create
          NoBuffer      \* nullptr, or a buffer that is not a wl_shm buffer

ASSUME NoBufferAssumption == NoBuffer \notin Buffers

NoCallback == 0

\* MAX_BUFFERS of class Surface
MAX_BUFFERS == 2

\* class SurfaceState and its constructor
SurfaceState == [buffer : Buffers \cup {NoBuffer}, x : Int,
                 callbackDone : Nat, isReady : BOOLEAN]

EmptyState == [buffer |-> NoBuffer, x |-> 0,
               callbackDone |-> NoCallback, isReady |-> FALSE]

SurfaceObject == [front : SurfaceState, back : SurfaceState, filled : Nat]

\* Surface::Surface
NewSurface == [front |-> EmptyState, back |-> EmptyState, filled |-> 0]

-----------------------------------------------------------------------------
(* Events.  Done is posted: it asks for the connection to be flushed.      *)
(* Release is only queued: it leaves with the next event that is posted.   *)

Done(cb)    == [type |-> "done", callback |-> cb]
Release(b)  == [type |-> "release", buffer |-> b]
Event       == [type : {"done"}, callback : Nat] \cup
               [type : {"release"}, buffer : Buffers]

\* wl_callback_send_done guarded by the test for nullptr
SendDone(cb) == IF cb = NoCallback THEN <<>> ELSE <<Done(cb)>>

-----------------------------------------------------------------------------
\* surfaceAttach: a null buffer, or one wl_shm does not know, is ignored
Attached(s, b, x) ==
  IF b = NoBuffer THEN s ELSE [s EXCEPT !.back.buffer = b, !.back.x = x]

\* surfaceFrame: a request that was not committed yet is overwritten
Framed(s, cb) == [s EXCEPT !.back.callbackDone = cb]

\* Mutant: the limit is taken to be inclusive
AnswersAtOnceInclusive(s) == s.filled + 1 <= MAX_BUFFERS

\* surfaceCommit answers the new frame at once when no frame is on display
AnswersAtOnce(s) == s.filled + 1 < MAX_BUFFERS

\* surfaceCommit up to swapBuffers: the state that becomes mFront
CommittedFront(s) ==
  [s.back EXCEPT !.isReady = TRUE,
                 !.callbackDone = IF AnswersAtOnce(s) THEN NoCallback ELSE @]

\* Mutant: isReady is not reset
RecycledStillReady(s) ==
  IF s.front.buffer = NoBuffer THEN s.front
  ELSE [s.front EXCEPT !.buffer = NoBuffer, !.callbackDone = NoCallback]

\* surfaceCommit after swapBuffers: what the old front leaves in mBack
RecycledBack(s) ==
  IF s.front.buffer = NoBuffer THEN s.front
  ELSE [s.front EXCEPT !.buffer = NoBuffer, !.callbackDone = NoCallback,
                       !.isReady = FALSE]

\* Mutant: mBuffersFilled is counted down but never up
FilledUncounted(s) == IF s.front.buffer = NoBuffer THEN s.filled ELSE s.filled - 1

\* mBuffersFilled, counted up before and down after swapBuffers
Filled(s) == IF s.front.buffer = NoBuffer THEN s.filled + 1 ELSE s.filled

\* surfaceCommit
Committed(s) ==
  IF s.back.buffer = NoBuffer THEN s
  ELSE [front |-> CommittedFront(s), back |-> RecycledBack(s), filled |-> Filled(s)]

\* Mutant: the callback of the frame that is replaced is cleared unanswered
RecycledForgotten(st) ==
  IF st.buffer = NoBuffer THEN <<>> ELSE <<Release(st.buffer)>>

\* Mutant: no buffer is released
RecycledUnreleased(st) ==
  IF st.buffer = NoBuffer THEN <<>> ELSE SendDone(st.callbackDone)

\* surfaceCommit after swapBuffers: what becomes of the frame it replaces
RecycledEvents(st) ==
  IF st.buffer = NoBuffer THEN <<>>
  ELSE <<Release(st.buffer)>> \o SendDone(st.callbackDone)

\* Mutant: the buffer that comes back is the one just committed
CommitEventsUnswapped(s) == RecycledEvents(s.back)

CommitEvents(s) ==
  IF s.back.buffer = NoBuffer THEN <<>>
  ELSE (IF AnswersAtOnce(s) THEN SendDone(s.back.callbackDone) ELSE <<>>)
       \o RecycledEvents(s.front)

\* Mutant: unlockBuffer leaves callbackDone set
PaintedUncleared(s) == s

\* lockBuffer and unlockBuffer, as Compositor::repaint calls them: a surface
\* that is not ready is skipped, one that is drawn has its callback answered
Painted(s) ==
  IF s.front.isReady /\ s.front.buffer # NoBuffer
  THEN [s EXCEPT !.front.callbackDone = NoCallback] ELSE s

\* Mutant: unlockBuffer answers nothing
PaintEventsForgotten(s) == <<>>

PaintEvents(s) ==
  IF s.front.isReady /\ s.front.buffer # NoBuffer
  THEN SendDone(s.front.callbackDone) ELSE <<>>

\* Mutant: the offset of the frame on display
OffsetOfFront(s) == s.front.x

\* Surface::x without the part the compositor sets (mX)
OffsetX(s) == s.back.x
=============================================================================

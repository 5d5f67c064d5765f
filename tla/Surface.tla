------------------------------ MODULE Surface ------------------------------
(***************************************************************************)
(* One Surface object: a client that sends wl_surface requests in any      *)
(* order it likes, and the compositor's timer that repaints the surface in *)
(* between.  The server has one thread, so each handler is one step.       *)
(***************************************************************************)
EXTENDS SurfaceOps, FiniteSets

CONSTANTS Offsets,      \* the offsets a client attaches buffers at
          MaxFrames     \* bound: how many frame callbacks a client asks for

ASSUME SurfaceAssumption == Offsets \subseteq Int /\ MaxFrames \in Nat

VARIABLES surface,      \* the Surface object
          sent,         \* events sent to the client by the last step
          frames,       \* number of callbacks asked for so far
          fired,        \* callbacks answered so far
          superseded,   \* callbacks that a second request overwrote
          offsets       \* offsets of the last two frames, newest first

ghosts == <<superseded, offsets>>
vars == <<surface, sent, frames, fired, superseded, offsets>>

DoneIn(events) ==
  {events[i].callback : i \in {j \in DOMAIN events : events[j].type = "done"}}

Init ==
  /\ surface = NewSurface
  /\ sent = <<>>
  /\ frames = 0
  /\ fired = {}
  /\ superseded = {}
  /\ offsets = <<0, 0>>

\* A handler leaves the surface as s and sends events
Handle(s, events) ==
  /\ surface' = s
  /\ sent' = events
  /\ fired' = fired \cup DoneIn(events)

SurfaceAttach(b, x) ==
  /\ Handle(Attached(surface, b, x), <<>>)
  /\ UNCHANGED <<frames, ghosts>>

SurfaceFrame ==
  /\ frames < MaxFrames
  /\ frames' = frames + 1
  /\ Handle(Framed(surface, frames'), <<>>)
  /\ superseded' = superseded \cup ({surface.back.callbackDone} \ {NoCallback})
  /\ UNCHANGED offsets

SurfaceCommit ==
  /\ Handle(Committed(surface), CommitEvents(surface))
  /\ offsets' = IF surface.back.buffer = NoBuffer THEN offsets
                ELSE <<surface.back.x, offsets[1]>>
  /\ UNCHANGED <<frames, superseded>>

\* The share of Compositor::repaint that concerns this surface
Repaint ==
  /\ Handle(Painted(surface), PaintEvents(surface))
  /\ UNCHANGED <<frames, ghosts>>

Next ==
  \/ \E b \in Buffers \cup {NoBuffer}, x \in Offsets : SurfaceAttach(b, x)
  \/ SurfaceFrame
  \/ SurfaceCommit
  \/ Repaint

Spec == Init /\ [][Next]_vars

(* Compositor::repaint arms its timer again before it returns, so it runs  *)
(* again and again; nothing obliges the client to send requests.           *)
FairSpec == Spec /\ WF_vars(Repaint)

-----------------------------------------------------------------------------
(* Properties *)

TypeOK ==
  /\ surface \in SurfaceObject
  /\ sent \in Seq(Event)
  /\ frames \in 0 .. MaxFrames
  /\ fired \subseteq 1 .. MaxFrames
  /\ superseded \subseteq 1 .. MaxFrames
  /\ offsets \in Int \X Int

(* Between two steps mBack holds no frame and mFront is ready exactly when *)
(* it has a buffer, so lockBuffer never hands wl_shm a null buffer;        *)
(* mBuffersFilled counts the frame on display, and a surface that shows    *)
(* nothing owes no answer.                                                 *)
StatesAgree ==
  /\ ~ surface.back.isReady
  /\ surface.front.isReady <=> surface.front.buffer # NoBuffer
  /\ surface.filled = IF surface.front.isReady THEN 1 ELSE 0
  /\ ~ surface.front.isReady => surface.front.callbackDone = NoCallback

\* Callbacks the surface still has to answer
Owed == {surface.front.callbackDone, surface.back.callbackDone} \ {NoCallback}

(* No frame callback is forgotten: whatever the client asked for was       *)
(* answered, or waits in one of the two states, or was overwritten by a    *)
(* second wl_surface.frame before a commit, and never two of these.        *)
CallbacksConserved ==
  /\ 1 .. frames = fired \cup superseded \cup Owed
  /\ fired \cap superseded = {}
  /\ (fired \cup superseded) \cap Owed = {}
  /\ surface.front.callbackDone = surface.back.callbackDone =>
       surface.front.callbackDone = NoCallback

(* Callbacks are answered in the order they were asked for, and none       *)
(* twice: surfaceCommit must not answer the new frame while the one it     *)
(* replaces still waits.                                                   *)
AnsweredInOrder ==
  [][\A cb \in DoneIn(sent') : \A older \in fired : older < cb]_vars

(* Surface::x reads mBack, not mFront.  Between a commit and the next      *)
(* attach the frame on display is therefore painted at the offset of the   *)
(* frame before it; once a buffer is attached, at the offset of a frame    *)
(* that is not committed yet.                                              *)
PaintedAtOldOffset ==
  surface.back.buffer = NoBuffer => OffsetX(surface) = offsets[2]

\* The surface seen as a mailbox: the front state is what is shown, the back
\* state what waits for a commit
Contract == INSTANCE Mailbox WITH
  shown     <- surface.front.buffer,
  shownCb   <- surface.front.callbackDone,
  pending   <- surface.back.buffer,
  pendingCb <- surface.back.callbackDone

(* The two states, the swap and the counter of class Surface implement the *)
(* mailbox, its fairness included.                                         *)
ImplementsMailbox == Contract!FairSpec

(* A callback committed with a frame is answered, at the latest by the     *)
(* next repaint of the compositor's timer.                                 *)
CommittedFrameAnswered ==
  \A cb \in 1 .. MaxFrames :
    surface.front.callbackDone = cb ~> cb \in fired
=============================================================================

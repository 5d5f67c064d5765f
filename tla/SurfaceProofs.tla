--------------------------- MODULE SurfaceProofs ---------------------------
(***************************************************************************)
(* Proofs about module Surface, for every set of buffers, every set of     *)
(* offsets and every number of frames.                                     *)
(*                                                                         *)
(* The inductive invariant is IInv.  To what the runs check it adds the    *)
(* order of the callbacks (whatever was answered is older than what is     *)
(* owed, and the front's callback is older than the back's) and where the  *)
(* two offsets lie.                                                        *)
(***************************************************************************)
EXTENDS Surface, TLAPS

-----------------------------------------------------------------------------
(* Events *)

(* The callbacks answered by the events of one handler: a callback that is *)
(* posted, if there is one.                                                *)
LEMMA DoneInSendDone ==
  ASSUME NEW cb \in Nat
  PROVE  /\ SendDone(cb) \in Seq(Event)
         /\ DoneIn(SendDone(cb)) = {cb} \ {NoCallback}
<1>1. CASE cb = NoCallback
  BY <1>1 DEF SendDone, DoneIn, Event
<1>2. CASE cb # NoCallback
  <2>1. SendDone(cb) = <<Done(cb)>>
    BY <1>2 DEF SendDone
  <2>2. Done(cb) \in Event /\ Done(cb).type = "done" /\ Done(cb).callback = cb
    BY DEF Done, Event
  <2>3. DoneIn(<<Done(cb)>>) = {cb}
    BY <2>2 DEF DoneIn
  <2>4. QED
    BY <1>2, <2>1, <2>2, <2>3
<1>3. QED
  BY <1>1, <1>2

(* A release answers no callback.                                          *)
LEMMA DoneInRelease ==
  ASSUME NEW b \in Buffers
  PROVE  /\ <<Release(b)>> \in Seq(Event)
         /\ DoneIn(<<Release(b)>>) = {}
<1>1. Release(b) \in Event /\ Release(b).type = "release"
  BY DEF Release, Event
<1>2. QED
  BY <1>1 DEF DoneIn

(* What a sequence of events answers is what its parts answer.             *)
LEMMA DoneInConcat ==
  ASSUME NEW s \in Seq(Event), NEW t \in Seq(Event)
  PROVE  /\ s \o t \in Seq(Event)
         /\ DoneIn(s \o t) = DoneIn(s) \cup DoneIn(t)
<1>1. s \o t \in Seq(Event)
  OBVIOUS
<1>2. ASSUME NEW i \in DOMAIN (s \o t)
      PROVE  \/ i \in DOMAIN s /\ (s \o t)[i] = s[i]
             \/ i - Len(s) \in DOMAIN t /\ (s \o t)[i] = t[i - Len(s)]
  OBVIOUS
<1>3. ASSUME NEW i \in DOMAIN s
      PROVE  i \in DOMAIN (s \o t) /\ (s \o t)[i] = s[i]
  OBVIOUS
<1>4. ASSUME NEW i \in DOMAIN t
      PROVE  i + Len(s) \in DOMAIN (s \o t) /\ (s \o t)[i + Len(s)] = t[i]
  OBVIOUS
<1>5. DoneIn(s \o t) \subseteq DoneIn(s) \cup DoneIn(t)
  BY <1>2 DEF DoneIn
<1>6. DoneIn(s) \subseteq DoneIn(s \o t)
  BY <1>3 DEF DoneIn
<1>7. DoneIn(t) \subseteq DoneIn(s \o t)
  BY <1>4 DEF DoneIn
<1>8. QED
  BY <1>1, <1>5, <1>6, <1>7

(* A handler that sends nothing answers nothing.                           *)
LEMMA DoneInNothing == <<>> \in Seq(Event) /\ DoneIn(<<>>) = {}
BY DEF DoneIn

-----------------------------------------------------------------------------
(* Handlers *)

(* The states of a surface between two handlers.                           *)
Consistent(s) ==
  /\ s \in SurfaceObject
  /\ ~ s.back.isReady
  /\ s.front.isReady <=> s.front.buffer # NoBuffer
  /\ s.filled = IF s.front.isReady THEN 1 ELSE 0
  /\ ~ s.front.isReady => s.front.callbackDone = NoCallback

(* surfaceAttach and surfaceFrame change mBack and nothing else.           *)
LEMMA AttachedConsistent ==
  ASSUME NEW s, Consistent(s), NEW b \in Buffers, NEW x \in Int
  PROVE  /\ Consistent(Attached(s, b, x))
         /\ Attached(s, b, x).front = s.front
         /\ Attached(s, b, x).back.callbackDone = s.back.callbackDone
         /\ Attached(s, b, x).back.buffer = b
         /\ Attached(s, b, x).back.x = x
BY NoBufferAssumption
   DEF Consistent, SurfaceObject, SurfaceState, Attached

LEMMA FramedConsistent ==
  ASSUME NEW s, Consistent(s), NEW cb \in Nat
  PROVE  /\ Consistent(Framed(s, cb))
         /\ Framed(s, cb).front = s.front
         /\ Framed(s, cb).back.callbackDone = cb
         /\ Framed(s, cb).back.buffer = s.back.buffer
         /\ Framed(s, cb).back.x = s.back.x
BY DEF Consistent, SurfaceObject, SurfaceState, Framed

(* The commit of the first frame answers its callback at once.             *)
LEMMA FirstCommit ==
  ASSUME NEW s, Consistent(s),
         s.back.buffer # NoBuffer, s.front.buffer = NoBuffer
  PROVE  /\ Consistent(Committed(s))
         /\ Committed(s).front = [s.back EXCEPT !.isReady = TRUE,
                                                !.callbackDone = NoCallback]
         /\ Committed(s).back = s.front
         /\ CommitEvents(s) \in Seq(Event)
         /\ CommitEvents(s) = SendDone(s.back.callbackDone)
         /\ DoneIn(CommitEvents(s)) = {s.back.callbackDone} \ {NoCallback}
<1>1. AnswersAtOnce(s)
  BY DEF AnswersAtOnce, MAX_BUFFERS, Consistent
<1>2. /\ Committed(s).front = [s.back EXCEPT !.isReady = TRUE,
                                             !.callbackDone = NoCallback]
      /\ Committed(s).back = s.front
      /\ Committed(s).filled = 1
  BY <1>1 DEF Committed, Filled, CommittedFront, RecycledBack, Consistent
<1>3. Committed(s) \in SurfaceObject
  <2>1. /\ s.front \in SurfaceState /\ s.back \in SurfaceState
        /\ Committed(s) = [front  |-> Committed(s).front,
                           back   |-> Committed(s).back,
                           filled |-> Committed(s).filled]
    BY DEF Consistent, SurfaceObject, Committed, Filled
  <2>2. [s.back EXCEPT !.isReady = TRUE, !.callbackDone = NoCallback]
          \in SurfaceState
    BY <2>1 DEF SurfaceState, NoCallback
  <2>3. QED
    BY <1>2, <2>1, <2>2 DEF SurfaceObject
<1>4. Consistent(Committed(s))
  BY <1>2, <1>3 DEF Consistent, SurfaceObject, SurfaceState, NoCallback
<1>5. s.back.callbackDone \in Nat
  BY DEF Consistent, SurfaceObject, SurfaceState
<1>6. SendDone(s.back.callbackDone) \in Seq(Event)
  BY <1>5, DoneInSendDone
<1>7. CommitEvents(s) = SendDone(s.back.callbackDone) \o <<>>
  BY <1>1 DEF CommitEvents, RecycledEvents
<1>8. CommitEvents(s) = SendDone(s.back.callbackDone)
  BY <1>6, <1>7
<1>9. QED
  BY <1>2, <1>4, <1>5, <1>8, DoneInSendDone

(* The commit of a later frame releases the buffer of the frame it         *)
(* replaces, and then answers the callback of that frame.                  *)
LEMMA NextCommit ==
  ASSUME NEW s, Consistent(s),
         s.back.buffer # NoBuffer, s.front.buffer # NoBuffer
  PROVE  /\ Consistent(Committed(s))
         /\ Committed(s).front = [s.back EXCEPT !.isReady = TRUE]
         /\ Committed(s).back = [s.front EXCEPT !.buffer = NoBuffer,
                                                !.callbackDone = NoCallback,
                                                !.isReady = FALSE]
         /\ CommitEvents(s) \in Seq(Event)
         /\ CommitEvents(s) = <<Release(s.front.buffer)>>
                                \o SendDone(s.front.callbackDone)
         /\ DoneIn(CommitEvents(s)) = {s.front.callbackDone} \ {NoCallback}
<1>1. ~ AnswersAtOnce(s)
  BY DEF AnswersAtOnce, MAX_BUFFERS, Consistent
<1>2. /\ Committed(s).front = [s.back EXCEPT !.isReady = TRUE]
      /\ Committed(s).back = [s.front EXCEPT !.buffer = NoBuffer,
                                             !.callbackDone = NoCallback,
                                             !.isReady = FALSE]
      /\ Committed(s).filled = s.filled
  BY <1>1 DEF Committed, Filled, CommittedFront, RecycledBack, Consistent,
              SurfaceObject, SurfaceState
<1>3. Committed(s) \in SurfaceObject
  <2>1. /\ s.front \in SurfaceState /\ s.back \in SurfaceState
        /\ s.filled \in Nat
        /\ Committed(s) = [front  |-> Committed(s).front,
                           back   |-> Committed(s).back,
                           filled |-> Committed(s).filled]
    BY DEF Consistent, SurfaceObject, Committed, Filled
  <2>2. [s.back EXCEPT !.isReady = TRUE] \in SurfaceState
    BY <2>1 DEF SurfaceState
  <2>3. [s.front EXCEPT !.buffer = NoBuffer, !.callbackDone = NoCallback,
                        !.isReady = FALSE] \in SurfaceState
    BY <2>1 DEF SurfaceState, NoCallback
  <2>4. QED
    BY <1>2, <2>1, <2>2, <2>3 DEF SurfaceObject
<1>4. Consistent(Committed(s))
  BY <1>2, <1>3 DEF Consistent, SurfaceObject, SurfaceState
<1>5. s.front.callbackDone \in Nat /\ s.front.buffer \in Buffers
  BY DEF Consistent, SurfaceObject, SurfaceState
<1> DEFINE rel == <<Release(s.front.buffer)>>
           done == SendDone(s.front.callbackDone)
<1>6. /\ rel \in Seq(Event) /\ DoneIn(rel) = {}
      /\ done \in Seq(Event)
      /\ DoneIn(done) = {s.front.callbackDone} \ {NoCallback}
  BY <1>5, DoneInSendDone, DoneInRelease
<1>7. /\ rel \o done \in Seq(Event)
      /\ DoneIn(rel \o done) = {s.front.callbackDone} \ {NoCallback}
  <2> HIDE DEF rel, done
  <2>1. QED
    BY <1>6, DoneInConcat
<1>8. CommitEvents(s) = <<>> \o (rel \o done)
  BY <1>1 DEF CommitEvents, RecycledEvents
<1>9. CommitEvents(s) = rel \o done
  <2> HIDE DEF rel, done
  <2>1. QED
    BY <1>7, <1>8
<1>10. QED
  BY <1>2, <1>4, <1>7, <1>9

(* A repaint answers the callback of the frame on display, and changes     *)
(* nothing else.                                                           *)
LEMMA PaintedConsistent ==
  ASSUME NEW s, Consistent(s)
  PROVE  /\ Consistent(Painted(s))
         /\ Painted(s).front = [s.front EXCEPT !.callbackDone = NoCallback]
         /\ Painted(s).back = s.back
         /\ PaintEvents(s) = SendDone(s.front.callbackDone)
         /\ PaintEvents(s) \in Seq(Event)
         /\ DoneIn(PaintEvents(s)) = {s.front.callbackDone} \ {NoCallback}
<1>1. s.front.callbackDone \in Nat
  BY DEF Consistent, SurfaceObject, SurfaceState
<1>2. PaintEvents(s) = SendDone(s.front.callbackDone)
  BY DEF PaintEvents, SendDone, Consistent
<1>3. /\ Painted(s).front = [s.front EXCEPT !.callbackDone = NoCallback]
      /\ Painted(s).back = s.back
      /\ Painted(s).filled = s.filled
  BY DEF Painted, Consistent, SurfaceObject, SurfaceState
<1>4. Painted(s) \in SurfaceObject
  BY DEF Painted, Consistent, SurfaceObject, SurfaceState, NoCallback
<1>5. Consistent(Painted(s))
  BY <1>3, <1>4 DEF Consistent, SurfaceObject, SurfaceState
<1>6. QED
  BY <1>1, <1>2, <1>3, <1>5, DoneInSendDone

-----------------------------------------------------------------------------
(* The inductive invariant *)

(* What was answered is older than what is owed, and the frame on display  *)
(* is older than the one that waits.                                       *)
Ordered ==
  /\ \A old \in fired : \A cb \in Owed : old < cb
  /\ \/ surface.front.callbackDone = NoCallback
     \/ surface.back.callbackDone = NoCallback
     \/ surface.front.callbackDone < surface.back.callbackDone

(* The frame on display has the offset it was committed with; the state it *)
(* replaced still has the one before.                                      *)
OffsetsAgree ==
  /\ surface.front.x = offsets[1]
  /\ surface.back.buffer = NoBuffer => surface.back.x = offsets[2]

IInv ==
  TypeOK /\ StatesAgree /\ CallbacksConserved /\ Ordered /\ OffsetsAgree

LEMMA SurfaceConsistent == TypeOK /\ StatesAgree => Consistent(surface)
BY DEF TypeOK, StatesAgree, Consistent

LEMMA ConsistentAgrees ==
  Consistent(surface) => surface \in SurfaceObject /\ StatesAgree
BY DEF StatesAgree, Consistent

LEMMA InitInvariant == Init => IInv
<1> SUFFICES ASSUME Init PROVE IInv
  OBVIOUS
<1> USE DEF Init, NewSurface, EmptyState, NoCallback
<1>1. surface \in SurfaceObject
  BY DEF SurfaceObject, SurfaceState
<1>2. TypeOK
  BY <1>1, SurfaceAssumption DEF TypeOK, Event
<1>3. StatesAgree
  BY DEF StatesAgree
<1>4. CallbacksConserved
  BY DEF CallbacksConserved, Owed
<1>5. Ordered /\ OffsetsAgree
  BY DEF Ordered, OffsetsAgree
<1>6. QED
  BY <1>2, <1>3, <1>4, <1>5 DEF IInv

(* A callback the surface owes was asked for.                              *)
LEMMA OwedWasAsked ==
  ASSUME IInv
  PROVE  /\ frames \in Nat
         /\ surface.front.callbackDone \in 0 .. frames
         /\ surface.back.callbackDone \in 0 .. frames
         /\ fired \subseteq 1 .. frames
         /\ superseded \subseteq 1 .. frames
<1>1. /\ frames \in Nat
      /\ 1 .. frames = fired \cup superseded \cup Owed
  BY SurfaceAssumption DEF IInv, TypeOK, CallbacksConserved
<1>2. 0 .. frames = {0} \cup (1 .. frames)
  BY <1>1
<1>3. QED
  BY <1>1, <1>2 DEF Owed, NoCallback

LEMMA AttachInvariant ==
  ASSUME IInv, NEW b \in Buffers \cup {NoBuffer}, NEW x \in Offsets,
         SurfaceAttach(b, x)
  PROVE  IInv'
<1>1. Consistent(surface) /\ x \in Int
  BY SurfaceConsistent, SurfaceAssumption DEF IInv
<1>2. /\ Consistent(surface)'
      /\ surface'.front = surface.front
      /\ surface'.back.callbackDone = surface.back.callbackDone
      /\ surface'.back.buffer = NoBuffer =>
           surface'.back.x = surface.back.x /\ surface.back.buffer = NoBuffer
  <2>1. CASE b = NoBuffer
    <3>1. surface' = surface
      BY <2>1 DEF SurfaceAttach, Handle, Attached
    <3>2. QED
      BY <1>1, <3>1
  <2>2. CASE b # NoBuffer
    <3>1. surface' = Attached(surface, b, x) /\ b \in Buffers
      BY <2>2 DEF SurfaceAttach, Handle
    <3>2. QED
      BY <1>1, <2>2, <3>1, AttachedConsistent
  <2>3. QED
    BY <2>1, <2>2
<1>3. /\ sent' = <<>> /\ sent' \in Seq(Event) /\ fired' = fired
      /\ UNCHANGED <<frames, superseded, offsets>>
  BY DoneInNothing DEF SurfaceAttach, Handle, ghosts
<1>4. TypeOK' /\ StatesAgree'
  BY <1>2, <1>3, ConsistentAgrees DEF IInv, TypeOK, StatesAgree, Consistent
<1>5. CallbacksConserved' /\ Ordered'
  BY <1>2, <1>3 DEF IInv, CallbacksConserved, Ordered, Owed
<1>6. OffsetsAgree'
  BY <1>2, <1>3 DEF IInv, OffsetsAgree
<1>7. QED
  BY <1>4, <1>5, <1>6 DEF IInv

LEMMA FrameInvariant ==
  ASSUME IInv, SurfaceFrame
  PROVE  IInv'
<1>1. frames \in Nat /\ frames' = frames + 1 /\ frames' \in 1 .. MaxFrames
  BY SurfaceAssumption DEF SurfaceFrame, IInv, TypeOK
<1>2. Consistent(surface)
  BY SurfaceConsistent DEF IInv
<1>3. /\ Consistent(surface)'
      /\ surface'.front = surface.front
      /\ surface'.back.callbackDone = frames'
      /\ surface'.back.buffer = surface.back.buffer
      /\ surface'.back.x = surface.back.x
  BY <1>1, <1>2, FramedConsistent DEF SurfaceFrame, Handle
<1>4. /\ sent' = <<>> /\ sent' \in Seq(Event) /\ fired' = fired
      /\ superseded' =
           superseded \cup ({surface.back.callbackDone} \ {NoCallback})
      /\ UNCHANGED offsets
  BY DoneInNothing DEF SurfaceFrame, Handle
<1>5. TypeOK' /\ StatesAgree'
  <2>1. superseded' \subseteq 1 .. MaxFrames
    <3>1. surface.back.callbackDone \in 0 .. frames /\ superseded \subseteq 1 .. frames
      BY OwedWasAsked
    <3>2. surface.back.callbackDone # NoCallback =>
            surface.back.callbackDone \in 1 .. frames
      BY <1>1, <3>1 DEF NoCallback
    <3>3. superseded' \subseteq 1 .. frames
      BY <1>4, <3>1, <3>2
    <3>4. QED
      BY <1>1, <3>3, SurfaceAssumption
  <2>2. QED
    BY <1>1, <1>3, <1>4, <2>1 DEF IInv, TypeOK, StatesAgree, Consistent
<1>6. Owed' = ({surface.front.callbackDone} \ {NoCallback}) \cup {frames + 1}
  BY <1>1, <1>3 DEF Owed, NoCallback
<1>7. CallbacksConserved'
  <2>1. 1 .. frames' = (1 .. frames) \cup {frames + 1}
    BY <1>1
  <2>2. 1 .. frames' = fired' \cup superseded' \cup Owed'
    BY <1>4, <1>6, <2>1 DEF IInv, CallbacksConserved, Owed
  <2>3. fired' \cap superseded' = {}
    BY <1>4 DEF IInv, CallbacksConserved, Owed
  <2>4. (fired' \cup superseded') \cap Owed' = {}
    <3>1. fired' \cup superseded' \subseteq 1 .. frames
      BY <1>1, <1>4, OwedWasAsked DEF NoCallback
    <3>2. frames + 1 \notin 1 .. frames
      BY <1>1
    <3>3. surface.front.callbackDone \notin
            (fired' \cup superseded') \ {NoCallback}
      BY <1>4 DEF IInv, CallbacksConserved, Owed
    <3>4. QED
      BY <1>6, <3>1, <3>2, <3>3
  <2>5. surface'.front.callbackDone # surface'.back.callbackDone
    BY <1>1, <1>3, OwedWasAsked
  <2>6. QED
    BY <2>2, <2>3, <2>4, <2>5 DEF CallbacksConserved
<1>8. Ordered'
  <2>1. \A old \in fired : old < frames + 1
    BY <1>1, OwedWasAsked
  <2>2. \A old \in fired : \A cb \in {surface.front.callbackDone} \ {NoCallback} :
          old < cb
    BY DEF IInv, Ordered, Owed
  <2>3. surface'.front.callbackDone < surface'.back.callbackDone
    BY <1>1, <1>3, OwedWasAsked
  <2>4. QED
    BY <1>4, <1>6, <2>1, <2>2, <2>3 DEF Ordered
<1>9. OffsetsAgree'
  BY <1>3, <1>4 DEF IInv, OffsetsAgree
<1>10. QED
  BY <1>5, <1>7, <1>8, <1>9 DEF IInv

(* A commit moves the back state to the front; what it answers, if         *)
(* anything, is the oldest callback owed.                                  *)
LEMMA CommitInvariant ==
  ASSUME IInv, SurfaceCommit
  PROVE  IInv'
<1>1. Consistent(surface)
  BY SurfaceConsistent DEF IInv
<1>2. /\ surface' = Committed(surface)
      /\ sent' = CommitEvents(surface)
      /\ fired' = fired \cup DoneIn(sent')
      /\ UNCHANGED <<frames, superseded>>
  BY DEF SurfaceCommit, Handle
<1> DEFINE front == surface.front
           back  == surface.back
<1>3. /\ front \in SurfaceState /\ back \in SurfaceState
      /\ front.callbackDone \in Nat /\ back.callbackDone \in Nat
  BY <1>1 DEF Consistent, SurfaceObject, SurfaceState
<1>4. ASSUME fired' \subseteq 1 .. frames, Consistent(surface)',
             sent' \in Seq(Event), offsets' \in Int \X Int
      PROVE  TypeOK' /\ StatesAgree'
  <2>1. fired' \subseteq 1 .. MaxFrames
    BY <1>4, SurfaceAssumption DEF IInv, TypeOK
  <2>2. QED
    BY <1>2, <1>4, <2>1, ConsistentAgrees DEF IInv, TypeOK, StatesAgree, Consistent
<1>5. CASE surface.back.buffer = NoBuffer
  <2>1. /\ surface' = surface /\ sent' = <<>> /\ sent' \in Seq(Event)
        /\ fired' = fired /\ offsets' = offsets
    BY <1>2, <1>5, DoneInNothing DEF SurfaceCommit, Committed, Filled, CommitEvents, RecycledEvents
  <2>2. QED
    BY <1>2, <2>1 DEF IInv, TypeOK, StatesAgree, CallbacksConserved, Ordered,
                      OffsetsAgree, Owed
<1>6. CASE surface.back.buffer # NoBuffer /\ surface.front.buffer = NoBuffer
  <2>1. /\ Consistent(surface)'
        /\ surface'.front = [back EXCEPT !.isReady = TRUE,
                                         !.callbackDone = NoCallback]
        /\ surface'.back = front
        /\ sent' \in Seq(Event)
        /\ DoneIn(sent') = {back.callbackDone} \ {NoCallback}
    BY <1>1, <1>2, <1>6, FirstCommit
  <2>2. front.callbackDone = NoCallback
    BY <1>1, <1>6 DEF Consistent
  <2>3. /\ surface'.front.callbackDone = NoCallback
        /\ surface'.back.callbackDone = NoCallback
        /\ surface'.front.x = back.x
        /\ surface'.back.x = front.x
    BY <1>3, <2>1, <2>2 DEF SurfaceState
  <2>4. /\ Owed = {back.callbackDone} \ {NoCallback}
        /\ Owed' = {}
        /\ fired' = fired \cup Owed
    BY <1>2, <2>1, <2>2, <2>3 DEF Owed
  <2>5. offsets' = <<back.x, offsets[1]>> /\ offsets' \in Int \X Int
    BY <1>3, <1>6 DEF SurfaceCommit, IInv, TypeOK, SurfaceState
  <2>6. CallbacksConserved' /\ fired' \subseteq 1 .. frames
    BY <1>2, <2>3, <2>4 DEF IInv, CallbacksConserved
  <2>7. Ordered'
    BY <2>3, <2>4 DEF Ordered
  <2>8. OffsetsAgree'
    BY <2>3, <2>5 DEF IInv, OffsetsAgree
  <2>9. QED
    BY <1>4, <2>1, <2>5, <2>6, <2>7, <2>8 DEF IInv
<1>7. CASE surface.back.buffer # NoBuffer /\ surface.front.buffer # NoBuffer
  <2>1. /\ Consistent(surface)'
        /\ surface'.front = [back EXCEPT !.isReady = TRUE]
        /\ surface'.back = [front EXCEPT !.buffer = NoBuffer,
                                         !.callbackDone = NoCallback,
                                         !.isReady = FALSE]
        /\ sent' \in Seq(Event)
        /\ DoneIn(sent') = {front.callbackDone} \ {NoCallback}
    BY <1>1, <1>2, <1>7, NextCommit
  <2>2. /\ surface'.front.callbackDone = back.callbackDone
        /\ surface'.back.callbackDone = NoCallback
        /\ surface'.front.x = back.x
        /\ surface'.back.x = front.x
    BY <1>3, <2>1 DEF SurfaceState
  <2>3. /\ Owed = {front.callbackDone, back.callbackDone} \ {NoCallback}
        /\ Owed' = {back.callbackDone} \ {NoCallback}
        /\ fired' = fired \cup ({front.callbackDone} \ {NoCallback})
    BY <1>2, <2>1, <2>2 DEF Owed
  <2>4. offsets' = <<back.x, offsets[1]>> /\ offsets' \in Int \X Int
    BY <1>3, <1>7 DEF SurfaceCommit, IInv, TypeOK, SurfaceState
  <2>5. CallbacksConserved'
    <3>1. 1 .. frames' = fired' \cup superseded' \cup Owed'
      BY <1>2, <2>3 DEF IInv, CallbacksConserved
    <3>2. fired' \cap superseded' = {}
      BY <1>2, <2>3 DEF IInv, CallbacksConserved
    <3>3. (fired' \cup superseded') \cap Owed' = {}
      BY <1>2, <2>3 DEF IInv, CallbacksConserved
    <3>4. QED
      BY <2>2, <3>1, <3>2, <3>3 DEF CallbacksConserved
  <2>6. fired' \subseteq 1 .. frames
    BY <1>2, <2>5 DEF CallbacksConserved
  <2>7. Ordered'
    <3>1. \A old \in fired : \A cb \in Owed' : old < cb
      BY <2>3 DEF IInv, Ordered
    <3>2. front.callbackDone # NoCallback =>
            \A cb \in Owed' : front.callbackDone < cb
      BY <2>3 DEF IInv, Ordered
    <3>3. QED
      BY <2>2, <2>3, <3>1, <3>2 DEF Ordered
  <2>8. OffsetsAgree'
    BY <2>2, <2>4 DEF IInv, OffsetsAgree
  <2>9. QED
    BY <1>4, <2>1, <2>4, <2>5, <2>6, <2>7, <2>8 DEF IInv
<1>8. QED
  BY <1>5, <1>6, <1>7

LEMMA RepaintInvariant ==
  ASSUME IInv, Repaint
  PROVE  IInv'
<1>1. Consistent(surface)
  BY SurfaceConsistent DEF IInv
<1>2. /\ surface' = Painted(surface)
      /\ sent' = PaintEvents(surface)
      /\ fired' = fired \cup DoneIn(sent')
      /\ UNCHANGED <<frames, superseded, offsets>>
  BY DEF Repaint, Handle, ghosts
<1> DEFINE front == surface.front
           back  == surface.back
<1>3. front \in SurfaceState
  BY <1>1 DEF Consistent, SurfaceObject
<1>4. /\ Consistent(surface)'
      /\ surface'.front = [front EXCEPT !.callbackDone = NoCallback]
      /\ surface'.back = back
      /\ sent' \in Seq(Event)
      /\ DoneIn(sent') = {front.callbackDone} \ {NoCallback}
  BY <1>1, <1>2, PaintedConsistent
<1>5. /\ surface'.front.callbackDone = NoCallback
      /\ surface'.front.x = front.x
  BY <1>3, <1>4 DEF SurfaceState
<1>6. /\ Owed = {front.callbackDone, back.callbackDone} \ {NoCallback}
      /\ Owed' = {back.callbackDone} \ {NoCallback}
      /\ fired' = fired \cup ({front.callbackDone} \ {NoCallback})
  BY <1>2, <1>4, <1>5 DEF Owed
<1>7. CallbacksConserved'
  <2>1. 1 .. frames' = fired' \cup superseded' \cup Owed'
    BY <1>2, <1>6 DEF IInv, CallbacksConserved
  <2>2. fired' \cap superseded' = {}
    BY <1>2, <1>6 DEF IInv, CallbacksConserved
  <2>3. (fired' \cup superseded') \cap Owed' = {}
    BY <1>2, <1>6 DEF IInv, CallbacksConserved
  <2>4. QED
    BY <1>5, <2>1, <2>2, <2>3 DEF CallbacksConserved
<1>8. TypeOK' /\ StatesAgree'
  <2>1. fired' \subseteq 1 .. frames
    BY <1>2, <1>7 DEF CallbacksConserved
  <2>2. fired' \subseteq 1 .. MaxFrames
    BY <2>1, SurfaceAssumption DEF IInv, TypeOK
  <2>3. QED
    BY <1>2, <1>4, <2>2, ConsistentAgrees DEF IInv, TypeOK, StatesAgree, Consistent
<1>9. Ordered'
  <2>1. \A old \in fired : \A cb \in Owed' : old < cb
    BY <1>6 DEF IInv, Ordered
  <2>2. front.callbackDone # NoCallback =>
          \A cb \in Owed' : front.callbackDone < cb
    BY <1>6 DEF IInv, Ordered
  <2>3. QED
    BY <1>5, <1>6, <2>1, <2>2 DEF Ordered
<1>10. OffsetsAgree'
  BY <1>2, <1>4, <1>5 DEF IInv, OffsetsAgree
<1>11. QED
  BY <1>7, <1>8, <1>9, <1>10 DEF IInv

(* IInv holds initially and every step keeps it.                           *)
LEMMA NextInvariant == IInv /\ [Next]_vars => IInv'
<1> SUFFICES ASSUME IInv, [Next]_vars PROVE IInv'
  OBVIOUS
<1>1. ASSUME NEW b \in Buffers \cup {NoBuffer}, NEW x \in Offsets,
             SurfaceAttach(b, x)
      PROVE  IInv'
  BY <1>1, AttachInvariant
<1>2. CASE SurfaceFrame
  BY <1>2, FrameInvariant
<1>3. CASE SurfaceCommit
  BY <1>3, CommitInvariant
<1>4. CASE Repaint
  BY <1>4, RepaintInvariant
<1>5. CASE UNCHANGED vars
  BY <1>5 DEF vars, IInv, TypeOK, StatesAgree, CallbacksConserved, Owed,
              Ordered, OffsetsAgree
<1>6. QED
  BY <1>1, <1>2, <1>3, <1>4, <1>5 DEF Next

THEOREM Invariance == Spec => []IInv
BY InitInvariant, NextInvariant, PTL DEF Spec

-----------------------------------------------------------------------------
(* What follows from the invariant *)

(* The handlers of class Surface keep the types of its members, the        *)
(* counter mBuffersFilled never wraps below zero.                          *)
THEOREM TypeCorrect == Spec => []TypeOK
<1>1. IInv => TypeOK
  BY DEF IInv
<1>2. QED
  BY <1>1, Invariance, PTL

(* lockBuffer and unlockBuffer find mFront ready exactly when it has a     *)
(* buffer, and the counter agrees, whatever a client sends.                *)
THEOREM StatesAlwaysAgree == Spec => []StatesAgree
<1>1. IInv => StatesAgree
  BY DEF IInv
<1>2. QED
  BY <1>1, Invariance, PTL

(* surfaceFrame, surfaceCommit and unlockBuffer lose no callback and keep  *)
(* none that was answered.                                                 *)
THEOREM NoCallbackLost == Spec => []CallbacksConserved
<1>1. IInv => CallbacksConserved
  BY DEF IInv
<1>2. QED
  BY <1>1, Invariance, PTL

(* Surface::x and Surface::y always lag one frame behind between a commit  *)
(* and the next attach.                                                    *)
THEOREM OffsetLagsBehind == Spec => []PaintedAtOldOffset
<1>1. IInv => PaintedAtOldOffset
  BY DEF IInv, OffsetsAgree, PaintedAtOldOffset, OffsetX
<1>2. QED
  BY <1>1, Invariance, PTL

(* Each handler answers at most callbacks that were owed, and all of them  *)
(* are younger than those answered before.                                 *)
LEMMA OnlyOwedIsAnswered ==
  ASSUME IInv, Next
  PROVE  \A cb \in DoneIn(sent') : \A older \in fired : older < cb
<1>1. Consistent(surface)
  BY SurfaceConsistent DEF IInv
<1>2. \A old \in fired : \A cb \in Owed : old < cb
  BY DEF IInv, Ordered
<1> SUFFICES DoneIn(sent') \subseteq Owed
  BY <1>2
<1>3. CASE \E b \in Buffers \cup {NoBuffer}, x \in Offsets : SurfaceAttach(b, x)
  BY <1>3, DoneInNothing DEF SurfaceAttach, Handle
<1>4. CASE SurfaceFrame
  BY <1>4, DoneInNothing DEF SurfaceFrame, Handle
<1>5. CASE SurfaceCommit
  <2>1. sent' = CommitEvents(surface)
    BY <1>5 DEF SurfaceCommit, Handle
  <2>2. CASE surface.back.buffer = NoBuffer
    BY <2>1, <2>2, DoneInNothing DEF CommitEvents, RecycledEvents
  <2>3. CASE surface.back.buffer # NoBuffer /\ surface.front.buffer = NoBuffer
    BY <1>1, <2>1, <2>3, FirstCommit DEF Owed
  <2>4. CASE surface.back.buffer # NoBuffer /\ surface.front.buffer # NoBuffer
    BY <1>1, <2>1, <2>4, NextCommit DEF Owed
  <2>5. QED
    BY <2>2, <2>3, <2>4
<1>6. CASE Repaint
  BY <1>1, <1>6, PaintedConsistent DEF Repaint, Handle, Owed
<1>7. QED
  BY <1>3, <1>4, <1>5, <1>6 DEF Next

(* Callbacks are answered in the order in which they were asked for, and   *)
(* none twice.                                                             *)
THEOREM AnswersInOrder == Spec => AnsweredInOrder
<1>1. IInv /\ [Next]_vars =>
        [\A cb \in DoneIn(sent') : \A older \in fired : older < cb]_vars
  BY OnlyOwedIsAnswered
<1>2. QED
  BY <1>1, Invariance, PTL DEF Spec, AnsweredInOrder

\* A commit of a frame: the others are ignored
CommitsFrame == SurfaceCommit /\ surface.back.buffer # NoBuffer

\* What a step may do to a callback that was committed, or is by this step
CommittedIsKept(cb) ==
  /\ surface.back.callbackDone = cb /\ CommitsFrame =>
       cb \in fired' \/ surface'.front.callbackDone = cb
  /\ surface.front.callbackDone = cb =>
       cb \in fired' \/ surface'.front.callbackDone = cb
  /\ surface.front.callbackDone = cb /\ (Repaint \/ CommitsFrame) => cb \in fired'

(* What CommittedFrameAnswered says without the fairness of the timer: the *)
(* callback of a frame is answered by its commit or moves to mFront with   *)
(* it; there no request of the client can overwrite or drop it, and the    *)
(* next repaint, or the commit of the next frame if that comes first,      *)
(* answers it.                                                             *)
THEOREM CommittedIsAnswered ==
  Spec => [][\A cb \in 1 .. MaxFrames : CommittedIsKept(cb)]_vars
<1>1. ASSUME IInv, Next, NEW cb \in 1 .. MaxFrames
      PROVE  CommittedIsKept(cb)
  <2>1. Consistent(surface) /\ cb # NoCallback
    BY <1>1, SurfaceConsistent, SurfaceAssumption DEF IInv, NoCallback
  <2>2. CASE UNCHANGED surface.front /\ ~ Repaint /\ ~ CommitsFrame
    BY <2>2 DEF CommittedIsKept
  <2>3. CASE CommitsFrame
    <3>1. /\ surface' = Committed(surface)
          /\ fired' = fired \cup DoneIn(CommitEvents(surface))
          /\ surface.back.buffer # NoBuffer
      BY <2>3 DEF CommitsFrame, SurfaceCommit, Handle
    <3>2. surface.front.callbackDone = cb => surface.front.buffer # NoBuffer
      BY <2>1 DEF Consistent
    <3>3. CASE surface.front.buffer = NoBuffer
      BY <2>1, <3>1, <3>2, <3>3, FirstCommit DEF CommittedIsKept
    <3>4. CASE surface.front.buffer # NoBuffer
      <4>1. surface'.front.callbackDone = surface.back.callbackDone
        <5>1. surface'.front = [surface.back EXCEPT !.isReady = TRUE]
          BY <2>1, <3>1, <3>4, NextCommit
        <5>2. surface.back \in SurfaceState
          BY <2>1 DEF Consistent, SurfaceObject
        <5>3. QED
          BY <5>1, <5>2 DEF SurfaceState
      <4>2. surface.front.callbackDone = cb => cb \in fired'
        BY <2>1, <3>1, <3>4, NextCommit
      <4>3. QED
        BY <4>1, <4>2 DEF CommittedIsKept
    <3>5. QED
      BY <3>3, <3>4
  <2>4. CASE Repaint
    <3>1. /\ surface' = Painted(surface)
          /\ fired' = fired \cup DoneIn(PaintEvents(surface))
      BY <2>4 DEF Repaint, Handle
    <3>2. surface.front.callbackDone = cb => cb \in fired'
      BY <2>1, <3>1, PaintedConsistent
    <3>3. CommitsFrame /\ surface.back.callbackDone = cb =>
            cb \in fired' \/ surface'.front.callbackDone = cb
      BY <2>3 DEF CommittedIsKept
    <3>4. QED
      BY <3>2, <3>3 DEF CommittedIsKept
  <2>5. ASSUME NEW b \in Buffers \cup {NoBuffer}, NEW x \in Offsets,
               SurfaceAttach(b, x), ~ Repaint, ~ CommitsFrame
        PROVE  UNCHANGED surface.front
    <3>1. surface' = Attached(surface, b, x) /\ x \in Int
      BY <2>5, SurfaceAssumption DEF SurfaceAttach, Handle
    <3>2. CASE b = NoBuffer
      BY <3>1, <3>2 DEF Attached
    <3>3. CASE b \in Buffers
      BY <2>1, <3>1, <3>3, AttachedConsistent
    <3>4. QED
      BY <3>2, <3>3
  <2>6. ASSUME SurfaceFrame PROVE UNCHANGED surface.front
    <3>1. surface' = Framed(surface, frames') /\ frames' \in Nat
      BY <1>1, <2>6 DEF SurfaceFrame, Handle, IInv, TypeOK
    <3>2. QED
      BY <2>1, <3>1, FramedConsistent
  <2>7. ASSUME SurfaceCommit, ~ CommitsFrame PROVE UNCHANGED surface.front
    BY <2>7 DEF SurfaceCommit, CommitsFrame, Handle, Committed
  <2>8. QED
    BY <1>1, <2>2, <2>3, <2>4, <2>5, <2>6, <2>7 DEF Next
<1>2. IInv /\ [Next]_vars => [\A cb \in 1 .. MaxFrames : CommittedIsKept(cb)]_vars
  BY <1>1
<1>3. QED
  BY <1>2, Invariance, PTL DEF Spec

-----------------------------------------------------------------------------
(* The mailbox *)

(* Both modules speak of the same events.                                  *)
LEMMA SameEvents ==
  /\ Contract!NoCallback = NoCallback
  /\ \A cb : Contract!SendDone(cb) = SendDone(cb)
  /\ \A b : Contract!Release(b) = Release(b)
BY DEF Contract!NoCallback, NoCallback, Contract!SendDone, SendDone,
       Contract!Done, Done, Contract!Release, Release

(* A surface starts as an empty mailbox.                                   *)
LEMMA InitIsMailbox == Init => Contract!Init
BY SameEvents DEF Init, NewSurface, EmptyState, Contract!Init

(* Every handler is a step of the mailbox: the second and later commits    *)
(* replace the frame on display, a request that is ignored is idle.        *)
LEMMA StepIsMailbox ==
  ASSUME IInv, Next
  PROVE  Contract!Next
<1>1. Consistent(surface)
  BY SurfaceConsistent DEF IInv
<1> DEFINE front == surface.front
           back  == surface.back
<1>2. front \in SurfaceState /\ back \in SurfaceState
  BY <1>1 DEF Consistent, SurfaceObject
<1>3. CASE \E b \in Buffers \cup {NoBuffer}, x \in Offsets : SurfaceAttach(b, x)
  <2>1. PICK b \in Buffers \cup {NoBuffer}, x \in Offsets : SurfaceAttach(b, x)
    BY <1>3
  <2>2. CASE b = NoBuffer
    <3>1. surface' = surface /\ sent' = <<>>
      BY <2>1, <2>2 DEF SurfaceAttach, Handle, Attached
    <3>2. Contract!Idle
      BY <3>1 DEF Contract!Idle
    <3>3. QED
      BY <3>2 DEF Contract!Next
  <2>3. CASE b # NoBuffer
    <3>1. surface' = Attached(surface, b, x) /\ sent' = <<>> /\ b \in Buffers
      BY <2>1, <2>3 DEF SurfaceAttach, Handle
    <3>2. x \in Int
      BY SurfaceAssumption
    <3>3. Contract!Offer(b)
      BY <1>1, <3>1, <3>2, AttachedConsistent DEF Contract!Offer
    <3>4. QED
      BY <3>1, <3>3 DEF Contract!Next
  <2>4. QED
    BY <2>2, <2>3
<1>4. CASE SurfaceFrame
  <2>1. /\ surface' = Framed(surface, frames + 1) /\ sent' = <<>>
        /\ frames + 1 \in Nat \ {NoCallback}
    BY <1>4, OwedWasAsked DEF SurfaceFrame, Handle, NoCallback
  <2>2. Contract!Ask
    BY <1>1, <2>1, FramedConsistent, SameEvents DEF Contract!Ask
  <2>3. QED
    BY <2>2 DEF Contract!Next
<1>5. CASE SurfaceCommit
  <2>1. surface' = Committed(surface) /\ sent' = CommitEvents(surface)
    BY <1>5 DEF SurfaceCommit, Handle
  <2>2. CASE back.buffer = NoBuffer
    <3>1. surface' = surface /\ sent' = <<>>
      BY <2>1, <2>2 DEF Committed, Filled, CommitEvents, RecycledEvents
    <3>2. Contract!Idle
      BY <3>1 DEF Contract!Idle
    <3>3. QED
      BY <3>2 DEF Contract!Next
  <2>3. CASE back.buffer # NoBuffer /\ front.buffer = NoBuffer
    <3>1. front.callbackDone = NoCallback
      BY <1>1, <2>3 DEF Consistent
    <3>2. /\ surface'.front.buffer = back.buffer
          /\ surface'.front.callbackDone = NoCallback
          /\ surface'.back = front
          /\ sent' = SendDone(back.callbackDone)
      <4>1. /\ surface'.front = [back EXCEPT !.isReady = TRUE,
                                             !.callbackDone = NoCallback]
            /\ surface'.back = front
            /\ sent' = SendDone(back.callbackDone)
        BY <1>1, <2>1, <2>3, FirstCommit
      <4>2. QED
        BY <1>2, <4>1 DEF SurfaceState
    <3>3. Contract!FirstFrame
      BY <2>3, <3>1, <3>2, SameEvents DEF Contract!FirstFrame
    <3>4. QED
      BY <3>3 DEF Contract!Next
  <2>4. CASE back.buffer # NoBuffer /\ front.buffer # NoBuffer
    <3>1. /\ surface'.front.buffer = back.buffer
          /\ surface'.front.callbackDone = back.callbackDone
          /\ surface'.back.buffer = NoBuffer
          /\ surface'.back.callbackDone = NoCallback
          /\ sent' = <<Release(front.buffer)>> \o SendDone(front.callbackDone)
      <4>1. /\ surface'.front = [back EXCEPT !.isReady = TRUE]
            /\ surface'.back = [front EXCEPT !.buffer = NoBuffer,
                                             !.callbackDone = NoCallback,
                                             !.isReady = FALSE]
            /\ sent' = <<Release(front.buffer)>> \o SendDone(front.callbackDone)
        BY <1>1, <2>1, <2>4, NextCommit
      <4>2. QED
        BY <1>2, <4>1 DEF SurfaceState
    <3>2. Contract!NextFrame
      BY <2>4, <3>1, SameEvents DEF Contract!NextFrame
    <3>3. QED
      BY <3>2 DEF Contract!Next
  <2>5. QED
    BY <2>2, <2>3, <2>4
<1>6. CASE Repaint
  <2>1. surface' = Painted(surface) /\ sent' = PaintEvents(surface)
    BY <1>6 DEF Repaint, Handle
  <2>2. /\ surface'.front.buffer = front.buffer
        /\ surface'.front.callbackDone = NoCallback
        /\ surface'.back = back
        /\ sent' = SendDone(front.callbackDone)
    <3>1. /\ surface'.front = [front EXCEPT !.callbackDone = NoCallback]
          /\ surface'.back = back
          /\ sent' = SendDone(front.callbackDone)
      BY <1>1, <2>1, PaintedConsistent
    <3>2. QED
      BY <1>2, <3>1 DEF SurfaceState
  <2>3. CASE front.buffer = NoBuffer
    <3>1. front.callbackDone = NoCallback
      BY <1>1, <2>3 DEF Consistent
    <3>2. Contract!Idle
      BY <2>2, <3>1 DEF Contract!Idle, SendDone
    <3>3. QED
      BY <3>2 DEF Contract!Next
  <2>4. CASE front.buffer # NoBuffer
    <3>1. Contract!Paint
      BY <2>2, <2>4, SameEvents DEF Contract!Paint
    <3>2. QED
      BY <3>1 DEF Contract!Next
  <2>5. QED
    BY <2>3, <2>4
<1>7. QED
  BY <1>3, <1>4, <1>5, <1>6 DEF Next

(* Class Surface, with its two states, its swap and its counter, is a      *)
(* mailbox with room for one frame (the safety part of ImplementsMailbox). *)
THEOREM SurfaceIsMailbox == Spec => Contract!Spec
<1>1. IInv /\ [Next]_vars => [Contract!Next]_(Contract!mailVars)
  <2>1. CASE Next
    BY <2>1, StepIsMailbox
  <2>2. CASE UNCHANGED vars
    BY <2>2 DEF vars, Contract!mailVars
  <2>3. QED
    BY <2>1, <2>2
<1>2. QED
  BY <1>1, InitIsMailbox, Invariance, PTL DEF Spec, Contract!Spec
=============================================================================

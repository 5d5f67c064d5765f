------------------------------ MODULE X11Proofs ------------------------------
(***************************************************************************)
(* Proofs about module X11Loop, for any number of events.                  *)
(*                                                                         *)
(* What xcb has taken from the socket is handled before the loop waits,    *)
(* because a turn ends only with an empty queue or with the window closed, *)
(* and a closed window means that the loop is left.                        *)
(***************************************************************************)
EXTENDS X11Loop, SequenceTheorems, TLAPS

Phases == {"init", "waiting", "batch", "check", "left", "over"}

TypeOK ==
  /\ socket \in Seq(EventKinds)
  /\ queue \in Seq(EventKinds)
  /\ swallowed \in Seq(EventKinds)
  /\ sentEvents \in Nat
  /\ due \in BOOLEAN
  /\ phase \in Phases
  /\ batch \subseteq {"timer", "xcb"}
  /\ source \in BOOLEAN /\ window \in BOOLEAN /\ run \in BOOLEAN
  /\ deadDraws \in Nat

\* The window, the source and the run flag go together, from init to the end
\* of the loop; a loop that goes on has its window
InStep ==
  /\ source <=> window
  /\ phase = "init" => run /\ ~ window /\ queue = <<>>
  /\ phase \in {"waiting", "batch", "check", "left"} => (run <=> window)
  /\ phase = "waiting" => window
  /\ phase = "left" => ~ window

\* Once the source is removed it is in no batch; outside of a batch nothing is
BatchKnown ==
  /\ phase # "batch" => batch = {}
  /\ phase # "init" /\ ~ window => "xcb" \notin batch

\* A destroyed window is drawn on only by the repaint of the batch in which it
\* was destroyed
DrawnOnce ==
  /\ phase = "init" \/ window => deadDraws = 0
  /\ deadDraws <= 1
  /\ "timer" \in batch => deadDraws = 0

IInv == TypeOK /\ InStep /\ BatchKnown /\ DrawnOnce /\ NothingStranded

(* The loop begins with nothing read and nothing to draw on.               *)
LEMMA InitIInv == Init => IInv
<1> SUFFICES ASSUME Init PROVE IInv
  OBVIOUS
<1>1. <<>> \in Seq(EventKinds)
  OBVIOUS
<1>2. TypeOK
  BY <1>1 DEF Init, TypeOK, Phases
<1>3. InStep /\ BatchKnown /\ DrawnOnce /\ NothingStranded
  BY DEF Init, InStep, BatchKnown, DrawnOnce, NothingStranded
<1>4. QED
  BY <1>2, <1>3 DEF IInv

(* What one call of handleX11Events leaves behind: one event less, and the *)
(* window, the source and the flag gone together if it was the close.      *)
LEMMA EventHandled ==
  ASSUME TypeOK, InStep, window, run, HandleX11Event
  PROVE  /\ socket' \in Seq(EventKinds) /\ queue' \in Seq(EventKinds)
         /\ swallowed' = swallowed
         /\ source' \in BOOLEAN /\ window' \in BOOLEAN /\ run' \in BOOLEAN
         /\ (source' <=> window') /\ (run' <=> window')
<1>1. Available \in Seq(EventKinds) /\ Available # <<>>
  BY DEF TypeOK, Available, HandleX11Event
<1>2. Tail(Available) \in Seq(EventKinds)
  BY <1>1
<1>3. socket' \in Seq(EventKinds) /\ queue' \in Seq(EventKinds)
      /\ swallowed' = swallowed
  BY <1>2 DEF TypeOK, HandleX11Event
<1>4. /\ source' \in BOOLEAN /\ window' \in BOOLEAN /\ run' \in BOOLEAN
      /\ (source' <=> window') /\ (run' <=> window')
  BY DEF TypeOK, InStep, HandleX11Event, Handle, backend
<1>5. QED
  BY <1>3, <1>4

(* Every step keeps the invariant.                                         *)
LEMMA NextIInv == IInv /\ [Next]_vars => IInv'
<1> SUFFICES ASSUME IInv, [Next]_vars PROVE IInv'
  OBVIOUS
<1> USE DEF IInv, TypeOK, Phases, InStep, BatchKnown, DrawnOnce, NothingStranded,
            events, backend
<1>1. ASSUME NEW e \in EventKinds, XEvent(e) PROVE IInv'
  <2>1. socket' \in Seq(EventKinds)
    BY <1>1 DEF XEvent
  <2>2. sentEvents' \in Nat
    BY <1>1 DEF XEvent
  <2>3. QED
    BY <1>1, <2>1, <2>2 DEF XEvent
<1>2. CASE TimerExpires
  BY <1>2 DEF TimerExpires
<1>3. CASE InitBackend
  <2>1. /\ batch = {} /\ batch' = {} /\ queue = <<>> /\ deadDraws = 0 /\ run
        /\ UNCHANGED <<socket, queue, swallowed, run, sentEvents, due, deadDraws>>
    BY <1>3 DEF InitBackend
  <2>2. \/ phase' = "waiting" /\ source' /\ window'
        \/ phase' = "over" /\ UNCHANGED <<source, window>>
    BY <1>3 DEF InitBackend, WindowPixmapFails, End
  <2>3. TypeOK'
    BY <1>3, <2>1 DEF InitBackend, WindowPixmapFails, End
  <2>4. InStep' /\ NothingStranded'
    BY <2>1, <2>2
  <2>5. BatchKnown' /\ DrawnOnce'
    BY <2>1, <2>2
  <2>6. QED
    BY <2>3, <2>4, <2>5
<1>4. CASE DestroyBackend
  BY <1>4 DEF DestroyBackend, End
<1>5. CASE Wait
  BY <1>5 DEF Wait, ReadySources
<1>6. CASE DrawBuffer
  <2>1. /\ socket' \in Seq(EventKinds) /\ queue' \in Seq(EventKinds)
        /\ swallowed' \in Seq(EventKinds)
    <3>1. swallowed \o queue \o socket \in Seq(EventKinds) /\ <<>> \in Seq(EventKinds)
      OBVIOUS
    <3>2. QED
      BY <1>6, <3>1 DEF DrawBuffer
  <2>2. deadDraws = 0 /\ CountedTo(2, 0) = 1
    BY <1>6 DEF DrawBuffer, CountedTo
  <2>3. deadDraws' = IF window THEN 0 ELSE 1
    BY <1>6, <2>2 DEF DrawBuffer
  <2>4. /\ UNCHANGED <<source, window, run, sentEvents, phase>>
        /\ due' = FALSE /\ batch' = batch \ {"timer"} /\ phase = "batch"
    BY <1>6 DEF DrawBuffer
  <2>5. TypeOK'
    BY <2>1, <2>3, <2>4
  <2>6. InStep' /\ NothingStranded'
    BY <2>4
  <2>7. BatchKnown'
    BY <2>4
  <2>8. DrawnOnce'
    BY <2>3, <2>4
  <2>9. QED
    BY <2>5, <2>6, <2>7, <2>8
<1>7. CASE DispatchXcb
  <2>1. CASE Available # <<>>
    <3>1. HandleX11Event
      BY <1>7, <2>1 DEF DispatchXcb
    <3>2. window /\ run
      BY <1>7 DEF DispatchXcb
    <3>3. /\ socket' \in Seq(EventKinds) /\ queue' \in Seq(EventKinds)
          /\ swallowed' = swallowed
          /\ source' \in BOOLEAN /\ window' \in BOOLEAN /\ run' \in BOOLEAN
         /\ (source' <=> window') /\ (run' <=> window')
      BY <3>1, <3>2, EventHandled
    <3>4. QED
      BY <1>7, <3>2, <3>3 DEF DispatchXcb
  <2>2. CASE Available = <<>>
    BY <1>7, <2>2 DEF DispatchXcb
  <2>3. QED
    BY <2>1, <2>2
<1>8. CASE BeginCheck
  BY <1>8 DEF BeginCheck
<1>9. CASE CheckXcb
  <2>1. window /\ run /\ HandleX11Event
    BY <1>9 DEF CheckXcb
  <2>2. /\ socket' \in Seq(EventKinds) /\ queue' \in Seq(EventKinds)
        /\ swallowed' = swallowed
        /\ source' \in BOOLEAN /\ window' \in BOOLEAN /\ run' \in BOOLEAN
         /\ (source' <=> window') /\ (run' <=> window')
    BY <2>1, EventHandled
  <2>3. QED
    BY <1>9, <2>1, <2>2 DEF CheckXcb
<1>10. CASE EndTurn
  BY <1>10 DEF EndTurn, Available
<1>11. CASE UNCHANGED vars
  BY <1>11 DEF vars
<1>12. QED
  BY <1>1, <1>2, <1>3, <1>4, <1>5, <1>6, <1>7, <1>8, <1>9, <1>10, <1>11
     DEF Next, Loop

(* The invariant of the loop.                                              *)
THEOREM X11Invariant == Spec => []IInv
<1>1. QED
  BY InitIInv, NextIInv, PTL DEF Spec

(* The loop never sleeps on an event that xcb has taken from the socket.   *)
THEOREM X11NothingStranded == Spec => []NothingStranded
<1>1. IInv => NothingStranded
  BY DEF IInv
<1>2. QED
  BY <1>1, X11Invariant, PTL

(* After the close no event is taken from the queues and the window that   *)
(* was destroyed is drawn on once at most.                                 *)
THEOREM X11QuietAfterClose == Spec => QuietAfterClose
<1>1. IInv /\ [Next]_vars =>
        [phase # "init" /\ ~ window =>
           /\ Len(socket' \o queue' \o swallowed') >= Len(socket \o queue \o swallowed)
           /\ deadDraws' <= 1]_vars
  <2> SUFFICES ASSUME IInv, IInv', [Next]_vars, phase # "init", ~ window
               PROVE  /\ Len(socket' \o queue' \o swallowed')
                           >= Len(socket \o queue \o swallowed)
                      /\ deadDraws' <= 1
    BY NextIInv
  <2>1. deadDraws' <= 1
    BY DEF IInv, DrawnOnce
  <2>2. /\ socket \in Seq(EventKinds) /\ queue \in Seq(EventKinds)
        /\ swallowed \in Seq(EventKinds)
    BY DEF IInv, TypeOK
  <2>3. "xcb" \notin batch /\ ~ source
    BY DEF IInv, BatchKnown, InStep
  <2>4. \/ UNCHANGED events
        \/ swallowed' = swallowed \o queue \o socket /\ queue' = <<>> /\ socket' = <<>>
    BY <2>3 DEF Next, Loop, XEvent, TimerExpires, InitBackend, DestroyBackend, Wait,
                DrawBuffer, DispatchXcb, BeginCheck, CheckXcb, EndTurn, vars
  <2>5. CASE UNCHANGED events
    <3>1. socket' \o queue' \o swallowed' = socket \o queue \o swallowed
      BY <2>5 DEF events
    <3>2. Len(socket \o queue \o swallowed) \in Nat
      BY <2>2
    <3>3. QED
      BY <2>1, <3>1, <3>2
  <2>6. CASE swallowed' = swallowed \o queue \o socket /\ queue' = <<>> /\ socket' = <<>>
    <3>1. Len(socket \o queue \o swallowed) = Len(socket) + Len(queue) + Len(swallowed)
      BY <2>2
    <3>2. Len(swallowed \o queue \o socket) = Len(socket) + Len(queue) + Len(swallowed)
      BY <2>2
    <3>3. socket' \o queue' \o swallowed' = swallowed \o queue \o socket
      <4>1. socket' \o queue' = <<>>
        BY <2>6
      <4>2. swallowed \o queue \o socket \in Seq(EventKinds)
        BY <2>2
      <4>3. QED
        BY <2>6, <4>1, <4>2, ConcatEmptySeq
    <3>4. QED
      BY <2>1, <2>2, <3>1, <3>2, <3>3
  <2>7. QED
    BY <2>4, <2>5, <2>6
<1>2. QED
  BY <1>1, X11Invariant, PTL DEF Spec, QuietAfterClose

-----------------------------------------------------------------------------
(* How the server ends *)

\* The window is closed and nothing is left to draw on it: CleanUnlessRepaintDue
\* starts here
CleanCourse ==
  phase # "init" /\ exit = "none" /\ ~ window /\ deadDraws = 0 /\ "timer" \notin batch

\* The repaint of the batch in which the window was closed is still to come,
\* or has come
Doomed ==
  phase # "init" /\ ~ window /\ ("timer" \in batch \/ deadDraws > 0)

\* What an exit status says of the window
ExitTells ==
  /\ exit = "none" <=> phase # "over"
  /\ exit = "clean" => ~ window /\ ~ run /\ deadDraws = 0
  /\ exit = "error" => ~ window /\ ~ run /\ deadDraws = 1
  /\ exit \notin {"none", "clean", "error"} => run /\ deadDraws = 0

(* What can be said of CleanUnlessRepaintDue without fairness, and its     *)
(* converse: once the window is closed it is decided how the process ends. *)
(* A server that has nothing left to draw stays so until it exits cleanly; *)
(* one whose repaint stands in the batch of the close never does, whatever *)
(* the X server and the clock do, because the batch cannot be left without *)
(* the draw.                                                               *)
THEOREM X11EndIsDecided ==
  Spec => /\ []ExitTells
          /\ [][/\ CleanCourse => CleanCourse' \/ exit' = "clean"
                /\ Doomed => Doomed' /\ exit' # "clean"]_vars
<1>1. Init => ExitTells
  BY DEF Init, ExitTells
<1>2. ASSUME IInv, ExitTells, [Next]_vars
      PROVE  /\ ExitTells'
             /\ CleanCourse => CleanCourse' \/ exit' = "clean"
             /\ Doomed => Doomed' /\ exit' # "clean"
  <2> USE <1>2 DEF IInv, TypeOK, Phases, InStep, BatchKnown, DrawnOnce, ExitTells,
               CleanCourse, Doomed
  <2>1. CASE \/ \E e \in EventKinds : XEvent(e)
             \/ TimerExpires
    BY <2>1 DEF XEvent, TimerExpires, backend
  <2>2. CASE InitBackend
    BY <2>2 DEF InitBackend, WindowPixmapFails, End
  <2>3. CASE DestroyBackend
    BY <2>3 DEF DestroyBackend, End, backend
  <2>4. CASE Wait
    BY <2>4 DEF Wait, backend
  <2>5. CASE DrawBuffer
    BY <2>5 DEF DrawBuffer, CountedTo, backend
  <2>6. CASE DispatchXcb \/ CheckXcb
    <3>1. window /\ phase \in {"batch", "check"} /\ UNCHANGED <<deadDraws, exit>>
      BY <2>6 DEF DispatchXcb, CheckXcb
    <3>2. phase' = phase
      BY <2>6 DEF DispatchXcb, CheckXcb
    <3>3. QED
      BY <3>1, <3>2
  <2>7. CASE BeginCheck \/ EndTurn
    BY <2>7 DEF BeginCheck, EndTurn, backend
  <2>8. CASE UNCHANGED vars
    BY <2>8 DEF vars, backend
  <2>9. QED
    BY <2>1, <2>2, <2>3, <2>4, <2>5, <2>6, <2>7, <2>8 DEF Next, Loop
<1>3. QED
  BY <1>1, <1>2, X11Invariant, PTL DEF Spec

(* A close event ends the loop or is swallowed, in the words of            *)
(* CloseEndsTheLoop without its fairness: as long as it waits it is in the *)
(* socket or in xcb's queue, it leaves them only when handleX11Events      *)
(* closes the window or when Xlib's flush takes it, and what Xlib has      *)
(* taken it keeps.                                                         *)
THEOREM X11CloseNotLost ==
  Spec => [][/\ Waiting("close", queue \o socket) =>
                  \/ Waiting("close", queue' \o socket')
                  \/ Waiting("close", swallowed')
                  \/ ~ window'
             /\ Waiting("close", swallowed) => Waiting("close", swallowed')]_vars
<1>1. ASSUME NEW s \in Seq(EventKinds), NEW t \in Seq(EventKinds)
      PROVE  Waiting("close", s \o t) <=> Waiting("close", s) \/ Waiting("close", t)
  <2>1. /\ Len(s \o t) = Len(s) + Len(t) /\ s \o t \in Seq(EventKinds)
        /\ \A i \in 1 .. Len(s) : (s \o t)[i] = s[i]
        /\ \A i \in 1 .. Len(t) : (s \o t)[Len(s) + i] = t[i]
        /\ DOMAIN (s \o t) = 1 .. Len(s \o t)
        /\ DOMAIN s = 1 .. Len(s) /\ DOMAIN t = 1 .. Len(t)
        /\ Len(s) \in Nat /\ Len(t) \in Nat
    OBVIOUS
  <2>2. ASSUME NEW i \in DOMAIN (s \o t), (s \o t)[i] = "close"
        PROVE  Waiting("close", s) \/ Waiting("close", t)
    <3>1. CASE i <= Len(s)
      BY <2>1, <2>2, <3>1 DEF Waiting
    <3>2. CASE i > Len(s)
      <4>1. i - Len(s) \in 1 .. Len(t) /\ i = Len(s) + (i - Len(s))
        BY <2>1, <2>2, <3>2
      <4>2. t[i - Len(s)] = "close"
        BY <2>1, <2>2, <4>1
      <4>3. QED
        BY <2>1, <4>1, <4>2 DEF Waiting
    <3>3. QED
      BY <2>1, <3>1, <3>2
  <2>3. ASSUME NEW i \in DOMAIN s, s[i] = "close"
        PROVE  i \in DOMAIN (s \o t) /\ (s \o t)[i] = "close"
    BY <2>1, <2>3
  <2>4. ASSUME NEW i \in DOMAIN t, t[i] = "close"
        PROVE  Len(s) + i \in DOMAIN (s \o t) /\ (s \o t)[Len(s) + i] = "close"
    BY <2>1, <2>4
  <2>5. QED
    BY <2>2, <2>3, <2>4 DEF Waiting
<1>2. ASSUME NEW s \in Seq(EventKinds), s # <<>>, Waiting("close", s), Head(s) # "close"
      PROVE  Waiting("close", Tail(s))
  <2>1. PICK i \in DOMAIN s : s[i] = "close"
    BY <1>2 DEF Waiting
  <2>2. i # 1 /\ i \in 1 .. Len(s)
    BY <1>2, <2>1
  <2>3. i - 1 \in DOMAIN Tail(s) /\ Tail(s)[i - 1] = s[i]
    BY <1>2, <2>2
  <2>4. QED
    BY <2>1, <2>3 DEF Waiting
<1>3. ASSUME IInv, IInv', [Next]_vars
      PROVE  /\ Waiting("close", queue \o socket) =>
                  \/ Waiting("close", queue' \o socket')
                  \/ Waiting("close", swallowed')
                  \/ ~ window'
             /\ Waiting("close", swallowed) => Waiting("close", swallowed')
  <2>1. /\ socket \in Seq(EventKinds) /\ queue \in Seq(EventKinds)
        /\ swallowed \in Seq(EventKinds)
        /\ socket' \in Seq(EventKinds) /\ queue' \in Seq(EventKinds)
    BY <1>3 DEF IInv, TypeOK
  <2>2. /\ Waiting("close", queue \o socket)
             <=> Waiting("close", queue) \/ Waiting("close", socket)
        /\ Waiting("close", queue' \o socket')
             <=> Waiting("close", queue') \/ Waiting("close", socket')
    BY <1>1, <2>1
  <2>3. CASE UNCHANGED events
    BY <2>3 DEF events
  <2>4. ASSUME NEW e \in EventKinds, XEvent(e)
        PROVE  /\ UNCHANGED <<queue, swallowed>>
               /\ Waiting("close", socket) => Waiting("close", socket')
    <3>1. UNCHANGED <<queue, swallowed>> /\ socket' = Append(socket, e)
      BY <2>4 DEF XEvent
    <3>2. socket' = socket \o <<e>> /\ <<e>> \in Seq(EventKinds)
      BY <2>1, <3>1, AppendIsConcat
    <3>3. Waiting("close", socket \o <<e>>) <=> Waiting("close", socket) \/ Waiting("close", <<e>>)
      BY <1>1, <2>1, <3>2
    <3>4. QED
      BY <3>1, <3>2, <3>3
  <2>5. CASE swallowed' = swallowed \o queue \o socket
    <3>1. swallowed \o queue \in Seq(EventKinds)
      BY <2>1
    <3>2. QED
      BY <1>1, <2>1, <2>2, <2>5, <3>1
  <2>6. CASE HandleX11Event
    <3>1. /\ Available \in Seq(EventKinds) /\ Available # <<>>
          /\ queue' = Tail(Available) /\ swallowed' = swallowed
      BY <2>1, <2>6 DEF HandleX11Event, Available
    <3>2. Head(Available) = "close" => ~ window'
      BY <2>6 DEF HandleX11Event, Handle
    <3>3. /\ Available # queue => queue = <<>> /\ Available = socket
          /\ Available = queue => socket' = socket
      BY <2>6 DEF HandleX11Event, Available
    <3>4. ~ Waiting("close", <<>>)
      BY DEF Waiting
    <3>5. Waiting("close", Available) => Waiting("close", queue') \/ ~ window'
      BY <1>2, <3>1, <3>2
    <3>6. QED
      BY <2>2, <3>1, <3>3, <3>4, <3>5
  <2>7. \/ UNCHANGED events
        \/ \E e \in EventKinds : XEvent(e)
        \/ swallowed' = swallowed \o queue \o socket
        \/ HandleX11Event
    BY <1>3 DEF Next, Loop, TimerExpires, InitBackend, DestroyBackend, Wait,
                DrawBuffer, DispatchXcb, BeginCheck, CheckXcb, EndTurn, vars
  <2>8. QED
    BY <2>2, <2>3, <2>4, <2>5, <2>6, <2>7
<1>4. QED
  BY <1>3, X11Invariant, PTL DEF Spec
=============================================================================

----------------------------- MODULE ClientProofs -----------------------------
(***************************************************************************)
(* Proofs about the client programs, for any number of them: what they     *)
(* show (module ExampleClients) and where they get their memory (module    *)
(* SharedMemory).  The two do not share variables.                         *)
(*                                                                         *)
(* The clients that show a frame (module ExampleClients) draw into their   *)
(* only buffer once.  What they paint with counts modulo 256, and the      *)
(* 256th frame would be as good as unpainted; it never comes, as a buffer  *)
(* is released only when another one is committed behind it.  So the       *)
(* invariant follows the one submission of each client on its way.         *)
(***************************************************************************)
EXTENDS ExampleClients, SharedMemory, SequenceTheorems, TLAPS

Attach  == [op : {"attach"}, buffer : Buffers]
Frame   == [op : {"frame"}, callback : Nat]
Request == Attach \cup Frame \cup [op : {"commit"}]

\* A submission that nothing is missing of: an attach first, a commit last
Whole(s) ==
  /\ s \in Seq(Request) /\ Len(s) >= 2
  /\ \A i \in 1 .. Len(s) : /\ s[i].op = "attach" <=> i = 1
                            /\ s[i].op = "commit" <=> i = Len(s)

\* One whose attach has been handled
Rest(s) ==
  /\ s \in Seq(Request) /\ s # <<>>
  /\ \A i \in 1 .. Len(s) : /\ s[i].op # "attach"
                            /\ s[i].op = "commit" <=> i = Len(s)

TypeOK ==
  /\ surf \in [Clients -> SurfaceObject]
  /\ requests \in [Clients -> Seq(Request)]
  /\ outbox \in [Clients -> Seq(Event)]
  /\ inbox \in [Clients -> Seq(Event)]
  /\ pc \in [Clients -> {"start", "committed", "looping"}]
  /\ unsent \in [Clients -> Seq(Request)]
  /\ readyToDraw \in [Clients -> BOOLEAN]
  /\ color \in [Clients -> Nat]
  /\ frames \in [Clients -> Nat]

\* Where the submission of client c is: still to be made, in the client's
\* connection, on its way, half handled, or on display
OneSubmission(c) ==
  LET front == surf[c].front.buffer
      back  == surf[c].back.buffer
  IN
  \/ /\ pc[c] = "start" /\ unsent[c] = <<>> /\ requests[c] = <<>>
     /\ front = NoBuffer /\ back = NoBuffer
  \/ /\ pc[c] # "start" /\ Whole(unsent[c]) /\ requests[c] = <<>>
     /\ front = NoBuffer /\ back = NoBuffer
  \/ /\ pc[c] = "looping" /\ unsent[c] = <<>> /\ Whole(requests[c])
     /\ front = NoBuffer /\ back = NoBuffer
  \/ /\ pc[c] = "looping" /\ unsent[c] = <<>> /\ Rest(requests[c])
     /\ front = NoBuffer /\ back = buffer
  \/ /\ pc[c] = "looping" /\ unsent[c] = <<>> /\ requests[c] = <<>>
     /\ front = buffer /\ back = NoBuffer

\* What the client has drawn, and that main waits for its buffer
DrawnOnce(c) ==
  /\ color[c] = IF pc[c] = "looping" THEN 1 ELSE 0
  /\ c \in Main => /\ pc[c] # "committed"
                   /\ readyToDraw[c] <=> pc[c] = "start"
                   /\ frames[c] = color[c]

NoRelease(events) == \A i \in DOMAIN events : events[i].type = "done"

\* No buffer comes back
NothingReleased(c) == NoRelease(outbox[c]) /\ NoRelease(inbox[c])

Sound(c) == OneSubmission(c) /\ DrawnOnce(c) /\ NothingReleased(c)

IInv == TypeOK /\ \A c \in Clients : Sound(c)

-----------------------------------------------------------------------------
(* Submissions and events *)

(* What redraw and create_window send is a whole submission.               *)
LEMMA SubmitsWhole ==
  ASSUME NEW cb \in Nat
  PROVE  Whole(SubmitRequests(buffer, cb))
<1> DEFINE q == SubmitRequests(buffer, cb)
           r == [op |-> "attach", buffer |-> buffer]
           f == [op |-> "frame", callback |-> cb]
           k == [op |-> "commit"]
           u == <<r>>
           w == Append(u, f)
<1>1. /\ r \in Request /\ f \in Request /\ k \in Request
      /\ r.op = "attach" /\ f.op = "frame" /\ k.op = "commit"
  BY ExampleAssumption DEF Request, Attach, Frame
<1>2. q = u \o (IF cb = NoCallback THEN <<>> ELSE <<f>>) \o <<k>>
  BY DEF SubmitRequests
<1> HIDE DEF r, f, k, q
<1>3. u \in Seq(Request) /\ Len(u) = 1 /\ u[1] = r
  BY <1>1
<1> HIDE DEF u
<1>4. CASE cb = NoCallback
  <2>1. u \o <<>> = u
    BY <1>3, ConcatEmptySeq
  <2>2. q = Append(u, k)
    BY <1>1, <1>2, <1>3, <1>4, <2>1, AppendIsConcat
  <2>3. q \in Seq(Request) /\ Len(q) = 2 /\ q[1] = r /\ q[2] = k
    BY <1>1, <1>3, <2>2, AppendProperties
  <2>4. \A i \in 1 .. Len(q) : i = 1 \/ i = 2
    BY <2>3
  <2>5. QED
    BY <1>1, <2>3, <2>4 DEF Whole, q
<1>5. CASE cb # NoCallback
  <2>1. w = u \o <<f>>
    BY <1>1, <1>3, AppendIsConcat
  <2>2. w \in Seq(Request) /\ Len(w) = 2 /\ w[1] = r /\ w[2] = f
    <3>1. u \in Seq(Request) /\ f \in Request
      BY <1>1, <1>3
    <3>2. /\ w \in Seq(Request) /\ Len(w) = Len(u) + 1
          /\ \A i \in 1 .. Len(u) : w[i] = u[i]
          /\ w[Len(u) + 1] = f
      BY ONLY <3>1, AppendProperties
    <3>3. 1 \in 1 .. Len(u) /\ Len(u) + 1 = 2
      BY <1>3
    <3> HIDE DEF w
    <3>4. QED
      BY <1>3, <3>2, <3>3
  <2> HIDE DEF w
  <2>3. q = Append(w, k)
    BY <1>1, <1>2, <1>5, <2>1, <2>2, AppendIsConcat
  <2>4. q \in Seq(Request) /\ Len(q) = 3 /\ q[1] = r /\ q[2] = f /\ q[3] = k
    <3>1. w \in Seq(Request) /\ k \in Request
      BY <1>1, <2>2
    <3>2. /\ q \in Seq(Request) /\ Len(q) = Len(w) + 1
          /\ \A i \in 1 .. Len(w) : q[i] = w[i]
          /\ q[Len(w) + 1] = k
      BY ONLY <2>3, <3>1, AppendProperties
    <3>3. 1 \in 1 .. Len(w) /\ 2 \in 1 .. Len(w) /\ Len(w) + 1 = 3
      BY <2>2
    <3>4. QED
      BY <2>2, <3>2, <3>3
  <2>5. \A i \in 1 .. Len(q) : i = 1 \/ i = 2 \/ i = 3
    BY <2>4
  <2>6. QED
    BY <1>1, <2>4, <2>5 DEF Whole, q
<1>6. QED
  BY <1>4, <1>5

(* What the first request of a submission is, and what it leaves.          *)
LEMMA SubmissionHandled ==
  ASSUME NEW s \in Seq(Request), s # <<>>
  PROVE  /\ Tail(s) \in Seq(Request) /\ Head(s) \in Request
         /\ Whole(s) => Head(s).op = "attach" /\ Rest(Tail(s))
         /\ Rest(s) => \/ Head(s).op = "frame" /\ Rest(Tail(s))
                       \/ Head(s).op = "commit" /\ Tail(s) = <<>>
<1> DEFINE t == Tail(s)
           n == Len(s)
<1>1. /\ n \in Nat /\ n >= 1 /\ t \in Seq(Request) /\ Len(t) = n - 1
      /\ \A i \in 1 .. n - 1 : t[i] = s[i + 1]
      /\ Head(s) = s[1] /\ Head(s) \in Request
      /\ \A x \in Seq(Request) : Len(x) = 0 => x = <<>>
      /\ Len(<<>>) = 0
  OBVIOUS
<1>2. \A r \in Request : r.op \in {"attach", "frame", "commit"}
  BY DEF Request, Attach, Frame
<1> HIDE DEF t, n
<1>3. \A i \in 1 .. n - 1 : /\ i + 1 \in 1 .. n /\ i + 1 # 1
                            /\ i + 1 = n <=> i = n - 1
  BY <1>1
<1>4. ASSUME Whole(s) PROVE Head(s).op = "attach" /\ Rest(t)
  <2>1. n >= 2 /\ 1 \in 1 .. n
    BY <1>4 DEF Whole, n
  <2>2. t # <<>>
    BY <1>1, <2>1
  <2>3. \A i \in 1 .. n : /\ s[i].op = "attach" <=> i = 1
                          /\ s[i].op = "commit" <=> i = n
    BY <1>4 DEF Whole, n
  <2>4. Head(s).op = "attach"
    BY <1>1, <2>1, <2>3
  <2>5. ASSUME NEW i \in 1 .. n - 1
        PROVE  t[i].op # "attach" /\ (t[i].op = "commit" <=> i = n - 1)
    <3>1. t[i] = s[i + 1] /\ i + 1 \in 1 .. n /\ i + 1 # 1
          /\ (i + 1 = n <=> i = n - 1)
      BY <1>1, <1>3
    <3>2. QED
      BY <2>3, <3>1
  <2>6. t \in Seq(Request) /\ Len(t) = n - 1 /\ Len(t) >= 1
    BY <1>1, <2>1
  <2>7. QED
    BY <2>4, <2>5, <2>6 DEF Rest
<1>5. ASSUME Rest(s)
      PROVE  \/ Head(s).op = "frame" /\ Rest(t)
             \/ Head(s).op = "commit" /\ t = <<>>
  <2>1. \A i \in 1 .. n : s[i].op # "attach" /\ (s[i].op = "commit" <=> i = n)
    BY <1>5 DEF Rest, n
  <2>2. 1 \in 1 .. n
    BY <1>1
  <2>3. CASE n = 1
    BY <1>1, <2>1, <2>2, <2>3
  <2>4. CASE n # 1
    <3>1. Head(s).op = "frame"
      BY <1>1, <1>2, <2>1, <2>2, <2>4
    <3>2. t # <<>>
      BY <1>1, <2>4
    <3>3. ASSUME NEW i \in 1 .. n - 1
          PROVE t[i].op # "attach" /\ (t[i].op = "commit" <=> i = n - 1)
      <4>1. t[i] = s[i + 1] /\ i + 1 \in 1 .. n /\ (i + 1 = n <=> i = n - 1)
        BY <1>1, <1>3
      <4>2. QED
        BY <2>1, <4>1
    <3>4. Rest(t)
      BY <1>1, <3>2, <3>3 DEF Rest
    <3>5. QED
      BY <3>1, <3>4
  <2>5. QED
    BY <2>3, <2>4
<1>6. QED
  BY <1>1, <1>4, <1>5 DEF t

(* An answer to a callback is no release.                                  *)
LEMMA DoneIsNoRelease ==
  ASSUME NEW cb \in Nat
  PROVE  SendDone(cb) \in Seq(Event) /\ NoRelease(SendDone(cb))
<1>1. CASE cb = NoCallback
  BY <1>1 DEF SendDone, NoRelease
<1>2. CASE cb # NoCallback
  <2>1. SendDone(cb) = <<Done(cb)>> /\ Done(cb) \in Event /\ Done(cb).type = "done"
    BY <1>2 DEF SendDone, Done, Event
  <2> DEFINE d == Done(cb)
  <2> HIDE DEF d
  <2>2. <<d>> \in Seq(Event) /\ DOMAIN <<d>> = {1} /\ <<d>>[1] = d
    BY <2>1 DEF d
  <2>3. QED
    BY <2>1, <2>2 DEF NoRelease, d
<1>3. QED
  BY <1>1, <1>2

(* Two sequences without a release make one without.                       *)
LEMMA NoReleaseConcat ==
  ASSUME NEW s \in Seq(Event), NEW t \in Seq(Event), NoRelease(s), NoRelease(t)
  PROVE  s \o t \in Seq(Event) /\ NoRelease(s \o t)
<1> DEFINE u == s \o t
<1>1. /\ u \in Seq(Event)
      /\ DOMAIN u = 1 .. Len(s) + Len(t)
      /\ \A i \in 1 .. Len(s) + Len(t) :
           \/ i \in DOMAIN s /\ u[i] = s[i]
           \/ i - Len(s) \in DOMAIN t /\ u[i] = t[i - Len(s)]
  OBVIOUS
<1> HIDE DEF u
<1>2. NoRelease(u)
  BY <1>1 DEF NoRelease
<1>3. QED
  BY <1>1, <1>2 DEF u

-----------------------------------------------------------------------------
(* The invariant is inductive *)

(* At the beginning every client has its submission before it.             *)
LEMMA InitIInv == Init => IInv
<1> SUFFICES ASSUME Init PROVE IInv
  OBVIOUS
<1>1. /\ NewSurface \in SurfaceObject
      /\ NewSurface.front.buffer = NoBuffer /\ NewSurface.back.buffer = NoBuffer
  BY DEF NewSurface, EmptyState, SurfaceObject, SurfaceState, NoCallback
<1>2. TypeOK
  <2>1. surf \in [Clients -> SurfaceObject]
    BY <1>1 DEF Init, ServerInit
  <2>2. /\ requests \in [Clients -> Seq(Request)]
        /\ unsent \in [Clients -> Seq(Request)]
        /\ outbox \in [Clients -> Seq(Event)]
        /\ inbox \in [Clients -> Seq(Event)]
    BY DEF Init, ServerInit
  <2>3. /\ pc \in [Clients -> {"start", "committed", "looping"}]
        /\ readyToDraw \in [Clients -> BOOLEAN]
        /\ color \in [Clients -> Nat] /\ frames \in [Clients -> Nat]
    BY DEF Init
  <2>4. QED
    BY <2>1, <2>2, <2>3 DEF TypeOK
<1>3. ASSUME NEW c \in Clients PROVE Sound(c)
  <2>1. /\ surf[c] = NewSurface /\ requests[c] = <<>> /\ unsent[c] = <<>>
        /\ outbox[c] = <<>> /\ inbox[c] = <<>>
        /\ pc[c] = "start" /\ readyToDraw[c] /\ color[c] = 0 /\ frames[c] = 0
    BY DEF Init, ServerInit
  <2>2. OneSubmission(c)
    BY <1>1, <2>1 DEF OneSubmission
  <2>3. DrawnOnce(c)
    BY <2>1 DEF DrawnOnce
  <2>4. NothingReleased(c)
    BY <2>1 DEF NothingReleased, NoRelease
  <2>5. QED
    BY <2>2, <2>3, <2>4 DEF Sound
<1>4. QED
  BY <1>2, <1>3 DEF IInv

\* Nothing of client c changes but perhaps what it is sent
Undisturbed(c) ==
  /\ surf'[c].front.buffer = surf[c].front.buffer
  /\ surf'[c].back.buffer = surf[c].back.buffer
  /\ requests'[c] = requests[c] /\ unsent'[c] = unsent[c] /\ pc'[c] = pc[c]
  /\ readyToDraw'[c] = readyToDraw[c] /\ color'[c] = color[c]
  /\ frames'[c] = frames[c]

(* A client that is not disturbed is as sound as it was.                   *)
LEMMA UndisturbedKeeps ==
  ASSUME NEW c \in Clients, Sound(c), Undisturbed(c), NothingReleased(c)'
  PROVE  Sound(c)'
<1>1. OneSubmission(c)'
  BY DEF Sound, Undisturbed, OneSubmission
<1>2. DrawnOnce(c)'
  BY DEF Sound, Undisturbed, DrawnOnce
<1>3. QED
  BY <1>1, <1>2 DEF Sound

(* A client of which nothing at all changes is as sound as it was.         *)
LEMMA UntouchedKeeps ==
  ASSUME NEW c \in Clients, Sound(c), Undisturbed(c),
         outbox'[c] = outbox[c], inbox'[c] = inbox[c]
  PROVE  Sound(c)'
<1>1. NothingReleased(c)'
  BY DEF Sound, NothingReleased
<1>2. QED
  BY <1>1, UndisturbedKeeps

(* The handler of a request takes the submission one stage further, and    *)
(* releases no buffer, as no frame has been on display before.             *)
LEMMA DispatchKeeps ==
  ASSUME IInv, NEW c \in Clients, DispatchRequest(c), UNCHANGED clientVars
  PROVE  IInv'
<1> DEFINE q == requests[c]
           r == Head(q)
           t == Tail(q)
           s == surf[c]
           n == Handled(s, r)
           events == HandlerEvents(s, r)
<1>1. TypeOK /\ Sound(c) /\ q # <<>>
  BY DEF IInv, DispatchRequest
<1>2. /\ surf' = [surf EXCEPT ![c] = n]
      /\ outbox' = [outbox EXCEPT ![c] = @ \o events]
      /\ requests' = [requests EXCEPT ![c] = t]
      /\ UNCHANGED <<inbox, pc, unsent, readyToDraw, color, frames>>
  BY DEF DispatchRequest, clientVars
<1>3. /\ q \in Seq(Request) /\ s \in SurfaceObject /\ outbox[c] \in Seq(Event)
      /\ pc[c] = "looping" /\ unsent[c] = <<>>
      /\ \/ Whole(q) /\ s.front.buffer = NoBuffer /\ s.back.buffer = NoBuffer
         \/ Rest(q) /\ s.front.buffer = NoBuffer /\ s.back.buffer = buffer
  BY <1>1 DEF TypeOK, Sound, OneSubmission
<1>4. buffer \in Buffers /\ buffer # NoBuffer /\ Buffers = {buffer}
  BY ExampleAssumption, NoBufferAssumption
<1> HIDE DEF q
<1>5. /\ t \in Seq(Request) /\ r \in Request
      /\ Whole(q) => r.op = "attach" /\ Rest(t)
      /\ Rest(q) => \/ r.op = "frame" /\ Rest(t)
                    \/ r.op = "commit" /\ t = <<>>
  BY <1>1, <1>3, SubmissionHandled
<1> HIDE DEF r, t
<1>6. /\ n \in SurfaceObject /\ events \in Seq(Event) /\ NoRelease(events)
      /\ \/ Rest(t) /\ n.front.buffer = NoBuffer /\ n.back.buffer = buffer
         \/ t = <<>> /\ n.front.buffer = buffer /\ n.back.buffer = NoBuffer
  <2>1. <<>> \in Seq(Event) /\ NoRelease(<<>>)
    BY DEF NoRelease
  <2>2. CASE Whole(q) /\ s.front.buffer = NoBuffer /\ s.back.buffer = NoBuffer
    <3>1. r.op = "attach" /\ Rest(t)
      BY <1>5, <2>2
    <3>2. r.buffer = buffer
      BY <1>4, <1>5, <3>1 DEF Request, Attach, Frame
    <3>3. n = Attached(s, buffer, 0) /\ events = <<>>
      BY <3>1, <3>2 DEF Handled, HandlerEvents
    <3>4. PICK x \in Int : x = 0
      OBVIOUS
    <3> HIDE DEF n, s, events
    <3>5. n = Attached(s, buffer, x)
      BY <3>3, <3>4
    <3>6. n = [s EXCEPT !.back.buffer = buffer, !.back.x = x]
      BY <1>4, <3>5 DEF Attached
    <3>7. /\ n \in SurfaceObject /\ n.front = s.front /\ n.back.buffer = buffer
      BY <1>3, <1>4, <3>6 DEF SurfaceObject, SurfaceState
    <3>8. QED
      BY <2>1, <2>2, <3>1, <3>3, <3>7
  <2>3. CASE Rest(q) /\ s.front.buffer = NoBuffer /\ s.back.buffer = buffer
    <3>1. CASE r.op = "frame" /\ Rest(t)
      <4>1. r.callback \in Nat
        BY <1>5, <3>1 DEF Request, Attach, Frame
      <4>2. n = Framed(s, r.callback) /\ events = <<>>
        BY <3>1 DEF Handled, HandlerEvents
      <4>3. n \in SurfaceObject /\ n.front = s.front /\ n.back.buffer = s.back.buffer
        <5> HIDE DEF n, s
        <5>1. PICK k \in Nat : k = r.callback
          BY <4>1
        <5>2. n = [s EXCEPT !.back.callbackDone = k]
          BY <4>2, <5>1 DEF Framed
        <5>3. s \in SurfaceObject
          BY <1>3
        <5>4. QED
          BY ONLY <5>2, <5>3 DEF SurfaceObject, SurfaceState
      <4>4. QED
        BY <2>1, <2>3, <3>1, <4>2, <4>3
    <3>2. CASE r.op = "commit" /\ t = <<>>
      <4>1. n = Committed(s) /\ events = CommitEvents(s)
        BY <3>2 DEF Handled, HandlerEvents
      <4>2. n = [front |-> CommittedFront(s), back |-> RecycledBack(s),
                 filled |-> Filled(s)]
        BY <1>4, <2>3, <4>1 DEF Committed
      <4>3. /\ CommittedFront(s) \in SurfaceState /\ CommittedFront(s).buffer = buffer
        BY <1>3, <2>3 DEF CommittedFront, SurfaceObject, SurfaceState, NoCallback
      <4>4. RecycledBack(s) = s.front /\ s.front \in SurfaceState
        BY <1>3, <2>3 DEF RecycledBack, SurfaceObject
      <4>5. Filled(s) \in Nat
        BY <1>3 DEF Filled, SurfaceObject
      <4>6. n \in SurfaceObject /\ n.front.buffer = buffer /\ n.back.buffer = NoBuffer
        BY <2>3, <4>2, <4>3, <4>4, <4>5 DEF SurfaceObject
      <4> DEFINE now == IF AnswersAtOnce(s) THEN SendDone(s.back.callbackDone) ELSE <<>>
      <4>7. RecycledEvents(s.front) = <<>>
        BY <2>3 DEF RecycledEvents
      <4>8. s.back.callbackDone \in Nat
        BY <1>3 DEF SurfaceObject, SurfaceState
      <4>9. now \in Seq(Event) /\ NoRelease(now)
        BY <2>1, <4>8, DoneIsNoRelease
      <4>10. events = now \o <<>>
        BY <1>4, <2>3, <4>1, <4>7 DEF CommitEvents
      <4> HIDE DEF now, events, n
      <4>11. events = now
        BY <4>9, <4>10, ConcatEmptySeq
      <4>12. QED
        BY <3>2, <4>6, <4>9, <4>11
    <3>3. QED
      BY <1>5, <2>3, <3>1, <3>2
  <2>4. QED
    BY <1>3, <2>2, <2>3
<1> HIDE DEF n, events
<1>7. /\ surf'[c] = n /\ requests'[c] = t /\ outbox'[c] = outbox[c] \o events
  BY <1>1, <1>2 DEF TypeOK
<1>8. NoRelease(outbox[c]) /\ NoRelease(inbox[c])
  BY <1>1 DEF Sound, NothingReleased
<1>9. outbox[c] \o events \in Seq(Event) /\ NoRelease(outbox[c] \o events)
  BY <1>3, <1>6, <1>8, NoReleaseConcat
<1>10. TypeOK'
  BY <1>1, <1>2, <1>5, <1>6, <1>9 DEF TypeOK
<1>11. Sound(c)'
  <2>1. OneSubmission(c)'
    BY <1>2, <1>3, <1>6, <1>7 DEF OneSubmission
  <2>2. DrawnOnce(c)'
    BY <1>1, <1>2 DEF Sound, DrawnOnce
  <2>3. NothingReleased(c)'
    BY <1>2, <1>7, <1>8, <1>9 DEF NothingReleased
  <2>4. QED
    BY <2>1, <2>2, <2>3 DEF Sound
<1>12. ASSUME NEW d \in Clients, d # c PROVE Sound(d)'
  <2>1. Undisturbed(d) /\ outbox'[d] = outbox[d] /\ inbox'[d] = inbox[d]
    BY <1>1, <1>2, <1>12 DEF TypeOK, Undisturbed
  <2>2. Sound(d)
    BY DEF IInv
  <2>3. QED
    BY <2>1, <2>2, UntouchedKeeps
<1>13. QED
  BY <1>10, <1>11, <1>12 DEF IInv

(* A repaint answers callbacks and leaves every buffer where it is.        *)
LEMMA RepaintKeeps ==
  ASSUME IInv, Repaint, UNCHANGED clientVars
  PROVE  IInv'
<1>1. TypeOK
  BY DEF IInv
<1>2. UNCHANGED <<requests, inbox, pc, unsent, readyToDraw, color, frames>>
  BY DEF Repaint, clientVars
<1>3. ASSUME NEW c \in Clients
      PROVE  /\ surf[c] \in SurfaceObject /\ outbox[c] \in Seq(Event)
             /\ surf'[c] = Painted(surf[c])
             /\ outbox'[c] = outbox[c] \o PaintEvents(surf[c])
             /\ NoRelease(outbox[c]) /\ NoRelease(inbox[c])
  BY <1>1 DEF TypeOK, Repaint, IInv, Sound, NothingReleased
<1>4. ASSUME NEW c \in Clients
      PROVE  /\ surf'[c] \in SurfaceObject
             /\ surf'[c].front.buffer = surf[c].front.buffer
             /\ surf'[c].back.buffer = surf[c].back.buffer
             /\ outbox'[c] \in Seq(Event) /\ NoRelease(outbox'[c])
  <2> DEFINE s == surf[c]
             n == Painted(s)
             events == PaintEvents(s)
             o == outbox[c]
  <2>1. s \in SurfaceObject /\ o \in Seq(Event) /\ NoRelease(o)
    BY <1>3
  <2> HIDE DEF s, o
  <2>2. n \in SurfaceObject /\ n.back = s.back /\ n.front.buffer = s.front.buffer
    BY <2>1 DEF Painted, SurfaceObject, SurfaceState, NoCallback
  <2>3. s.front.callbackDone \in Nat
    BY <2>1 DEF SurfaceObject, SurfaceState
  <2>4. <<>> \in Seq(Event) /\ NoRelease(<<>>)
    BY DEF NoRelease
  <2>5. events \in Seq(Event) /\ NoRelease(events)
    BY <2>3, <2>4, DoneIsNoRelease DEF PaintEvents
  <2> HIDE DEF n, events
  <2>6. o \o events \in Seq(Event) /\ NoRelease(o \o events)
    BY <2>1, <2>5, NoReleaseConcat
  <2>7. surf'[c] = n /\ outbox'[c] = o \o events /\ s = surf[c]
    BY <1>3 DEF s, o, n, events
  <2>8. QED
    BY <2>2, <2>6, <2>7
<1>5. TypeOK'
  <2>1. surf' \in [Clients -> SurfaceObject]
    BY <1>3, <1>4 DEF Repaint
  <2>2. outbox' \in [Clients -> Seq(Event)]
    BY <1>3, <1>4 DEF Repaint
  <2>3. QED
    BY <1>1, <1>2, <2>1, <2>2 DEF TypeOK
<1>6. ASSUME NEW c \in Clients PROVE Sound(c)'
  <2>1. Sound(c)
    BY DEF IInv
  <2>2. Undisturbed(c)
    BY <1>2, <1>4 DEF Undisturbed
  <2>3. NothingReleased(c)'
    BY <1>2, <1>3, <1>4 DEF NothingReleased
  <2>4. QED
    BY <2>1, <2>2, <2>3, UndisturbedKeeps
<1>7. QED
  BY <1>5, <1>6 DEF IInv

(* A flush moves events to the clients, and none of them is a release.     *)
LEMMA FlushKeeps ==
  ASSUME IInv, FlushClients, UNCHANGED clientVars
  PROVE  IInv'
<1>1. TypeOK
  BY DEF IInv
<1>2. UNCHANGED <<surf, requests, pc, unsent, readyToDraw, color, frames>>
  BY DEF FlushClients, clientVars
<1>3. ASSUME NEW c \in Clients
      PROVE  /\ outbox[c] \in Seq(Event) /\ inbox[c] \in Seq(Event)
             /\ NoRelease(outbox[c]) /\ NoRelease(inbox[c])
             /\ inbox'[c] = IF wantFlush[c] THEN inbox[c] \o outbox[c] ELSE inbox[c]
             /\ outbox'[c] = IF wantFlush[c] THEN <<>> ELSE outbox[c]
  BY <1>1 DEF TypeOK, FlushClients, IInv, Sound, NothingReleased
<1>4. ASSUME NEW c \in Clients
      PROVE  /\ inbox'[c] \in Seq(Event) /\ NoRelease(inbox'[c])
             /\ outbox'[c] \in Seq(Event) /\ NoRelease(outbox'[c])
  <2> DEFINE i == inbox[c]
             o == outbox[c]
  <2>1. i \in Seq(Event) /\ o \in Seq(Event) /\ NoRelease(i) /\ NoRelease(o)
    BY <1>3
  <2> HIDE DEF i, o
  <2>2. i \o o \in Seq(Event) /\ NoRelease(i \o o)
    BY <2>1, NoReleaseConcat
  <2>3. <<>> \in Seq(Event) /\ NoRelease(<<>>)
    BY DEF NoRelease
  <2>4. inbox'[c] \in {i, i \o o} /\ outbox'[c] \in {o, <<>>}
    BY <1>3 DEF i, o
  <2>5. QED
    BY <2>1, <2>2, <2>3, <2>4
<1>5. TypeOK'
  <2>1. outbox' \in [Clients -> Seq(Event)]
    BY <1>3, <1>4 DEF FlushClients
  <2>2. inbox' \in [Clients -> Seq(Event)]
    BY <1>3, <1>4 DEF FlushClients
  <2>3. QED
    BY <1>1, <1>2, <2>1, <2>2 DEF TypeOK
<1>6. ASSUME NEW c \in Clients PROVE Sound(c)'
  <2>1. Sound(c) /\ Undisturbed(c)
    BY <1>2 DEF IInv, Undisturbed
  <2>2. NothingReleased(c)'
    BY <1>4 DEF NothingReleased
  <2>3. QED
    BY <2>1, <2>2, UndisturbedKeeps
<1>7. QED
  BY <1>5, <1>6 DEF IInv

(* The client's loop sends the submission.                                 *)
LEMMA FlushRequestsKeeps ==
  ASSUME IInv, NEW c \in Clients, FlushRequests(c)
  PROVE  IInv'
<1> DEFINE u == unsent[c]
<1>1. TypeOK /\ Sound(c) /\ pc[c] = "looping" /\ u # <<>>
  BY DEF IInv, FlushRequests
<1>2. /\ requests' = [requests EXCEPT ![c] = @ \o u]
      /\ unsent' = [unsent EXCEPT ![c] = <<>>]
      /\ UNCHANGED <<surf, outbox, inbox, pc, readyToDraw, color, frames>>
  BY DEF FlushRequests
<1>3. /\ Whole(u) /\ u \in Seq(Request) /\ requests[c] = <<>>
      /\ surf[c].front.buffer = NoBuffer /\ surf[c].back.buffer = NoBuffer
  BY <1>1 DEF Sound, OneSubmission, TypeOK
<1> HIDE DEF u
<1>4. <<>> \o u = u
  BY <1>3, ConcatEmptySeq
<1>5. requests'[c] = u /\ unsent'[c] = <<>>
  BY <1>1, <1>2, <1>3, <1>4 DEF TypeOK
<1>6. TypeOK'
  <2>1. requests' = [requests EXCEPT ![c] = u]
    BY <1>2, <1>3, <1>4
  <2>2. <<>> \in Seq(Request)
    OBVIOUS
  <2>3. QED
    BY <1>1, <1>2, <1>3, <2>1, <2>2 DEF TypeOK
<1>7. Sound(c)'
  <2>1. OneSubmission(c)'
    BY <1>1, <1>2, <1>3, <1>5 DEF OneSubmission
  <2>2. DrawnOnce(c)' /\ NothingReleased(c)'
    BY <1>1, <1>2 DEF Sound, DrawnOnce, NothingReleased
  <2>3. QED
    BY <2>1, <2>2 DEF Sound
<1>8. ASSUME NEW d \in Clients, d # c PROVE Sound(d)'
  <2>1. Undisturbed(d) /\ outbox'[d] = outbox[d] /\ inbox'[d] = inbox[d]
    BY <1>1, <1>2, <1>8 DEF TypeOK, Undisturbed
  <2>2. Sound(d)
    BY DEF IInv
  <2>3. QED
    BY <2>1, <2>2, UntouchedKeeps
<1>9. QED
  BY <1>6, <1>7, <1>8 DEF IInv

\* Client c makes its submission: nothing was sent before
Submits(c, cb) ==
  /\ pc[c] = "start" /\ pc'[c] # "start"
  /\ unsent' = [unsent EXCEPT ![c] = @ \o SubmitRequests(buffer, cb)]
  /\ UNCHANGED <<surf, requests, outbox, inbox>>

(* The submission of a client is its first.                                *)
LEMMA SubmissionMade ==
  ASSUME TypeOK, NEW c \in Clients, Sound(c), NEW cb \in Nat, Submits(c, cb)
  PROVE  /\ OneSubmission(c)' /\ NothingReleased(c)'
         /\ unsent' \in [Clients -> Seq(Request)]
<1> DEFINE u == SubmitRequests(buffer, cb)
<1>1. Whole(u)
  BY SubmitsWhole
<1>2. /\ unsent[c] = <<>> /\ requests[c] = <<>>
      /\ surf[c].front.buffer = NoBuffer /\ surf[c].back.buffer = NoBuffer
  BY DEF Sound, OneSubmission, Submits
<1>3. unsent' = [unsent EXCEPT ![c] = @ \o u]
  BY DEF Submits
<1> HIDE DEF u
<1>4. u \in Seq(Request) /\ <<>> \o u = u
  BY <1>1, ConcatEmptySeq DEF Whole
<1>5. unsent' = [unsent EXCEPT ![c] = u]
  BY <1>2, <1>3, <1>4
<1>6. unsent'[c] = u /\ unsent' \in [Clients -> Seq(Request)]
  BY <1>4, <1>5 DEF TypeOK
<1>7. OneSubmission(c)'
  BY <1>1, <1>2, <1>6 DEF OneSubmission, Submits
<1>8. NothingReleased(c)'
  BY DEF Sound, NothingReleased, Submits
<1>9. QED
  BY <1>6, <1>7, <1>8

(* main paints its buffer and commits it.                                  *)
LEMMA CreateSurfaceKeeps ==
  ASSUME IInv, NEW c \in Clients, CreateSurface(c)
  PROVE  IInv'
<1>1. TypeOK /\ Sound(c) /\ pc[c] = "start" /\ c \in Main
  BY DEF IInv, CreateSurface
<1>2. readyToDraw[c] /\ color[c] = 0 /\ frames[c] = 0
  BY <1>1 DEF Sound, DrawnOnce
<1>3. /\ pc' = [pc EXCEPT ![c] = "looping"]
      /\ color' = [color EXCEPT ![c] = (@ + 1) % 256]
      /\ frames' = [frames EXCEPT ![c] = @ + 1]
      /\ Commit(c, frames'[c])
      /\ readyToDraw' = [readyToDraw EXCEPT ![c] = FALSE]
      /\ UNCHANGED <<surf, requests, outbox, inbox>>
  BY <1>2 DEF CreateSurface, Redraw, Draw, serverVars
<1>4. (color[c] + 1) % 256 = 1 /\ frames[c] + 1 = 1
  BY <1>2
<1>5. /\ color' = [color EXCEPT ![c] = 1] /\ frames' = [frames EXCEPT ![c] = 1]
      /\ color'[c] = 1 /\ frames'[c] = 1 /\ pc'[c] = "looping" /\ ~ readyToDraw'[c]
  BY <1>1, <1>3, <1>4 DEF TypeOK
<1>6. Submits(c, 1)
  BY <1>1, <1>3, <1>5 DEF Submits, Commit
<1>7. /\ OneSubmission(c)' /\ NothingReleased(c)'
      /\ unsent' \in [Clients -> Seq(Request)]
  BY <1>1, <1>6, SubmissionMade
<1>8. DrawnOnce(c)'
  BY <1>5 DEF DrawnOnce
<1>9. TypeOK'
  <2>1. pc' \in [Clients -> {"start", "committed", "looping"}]
    BY <1>1, <1>3 DEF TypeOK
  <2>2. color' \in [Clients -> Nat] /\ frames' \in [Clients -> Nat]
    BY <1>1, <1>5 DEF TypeOK
  <2>3. readyToDraw' \in [Clients -> BOOLEAN]
    BY <1>1, <1>3 DEF TypeOK
  <2>4. QED
    BY <1>1, <1>3, <1>7, <2>1, <2>2, <2>3 DEF TypeOK
<1>10. ASSUME NEW d \in Clients, d # c PROVE Sound(d)'
  <2>1. Undisturbed(d) /\ outbox'[d] = outbox[d] /\ inbox'[d] = inbox[d]
    BY <1>1, <1>3, <1>5, <1>10 DEF TypeOK, Undisturbed, Commit
  <2>2. Sound(d)
    BY DEF IInv
  <2>3. QED
    BY <2>1, <2>2, UntouchedKeeps
<1>11. QED
  BY <1>7, <1>8, <1>9, <1>10 DEF IInv, Sound

(* What main reads is an answer to its callback.  It redraws and, as its   *)
(* buffer is not ready, leaves everything as it is.                        *)
LEMMA HandleEventKeeps ==
  ASSUME IInv, NEW c \in Clients, HandleEvent(c)
  PROVE  IInv' /\ UNCHANGED color
<1> DEFINE i == inbox[c]
           t == Tail(i)
<1>1. TypeOK /\ Sound(c) /\ pc[c] = "looping" /\ c \in Main
  BY DEF IInv, HandleEvent
<1>2. i \in Seq(Event) /\ i # <<>> /\ NoRelease(i)
  BY <1>1 DEF TypeOK, HandleEvent, TakeEvent, Sound, NothingReleased
<1>3. inbox' = [inbox EXCEPT ![c] = t]
  BY DEF HandleEvent, TakeEvent
<1> HIDE DEF i
<1>4. t \in Seq(Event) /\ NoRelease(t) /\ Head(i).type = "done"
  <2>1. /\ t \in Seq(Event) /\ 1 \in DOMAIN i /\ Head(i) = i[1]
        /\ \A j \in DOMAIN t : j + 1 \in DOMAIN i /\ t[j] = i[j + 1]
    BY <1>2
  <2>2. QED
    BY <1>2, <2>1 DEF NoRelease
<1> HIDE DEF t
<1>5. ~ readyToDraw[c]
  BY <1>1 DEF Sound, DrawnOnce
<1>6. UNCHANGED <<surf, requests, outbox, pc, unsent, readyToDraw, color, frames>>
  BY <1>4, <1>5 DEF HandleEvent, Redraw, i
<1>7. TypeOK' /\ inbox'[c] = t
  BY <1>1, <1>3, <1>4, <1>6 DEF TypeOK
<1>8. Sound(c)'
  <2>1. Undisturbed(c)
    BY <1>6 DEF Undisturbed
  <2>2. NothingReleased(c)'
    BY <1>1, <1>4, <1>6, <1>7 DEF Sound, NothingReleased
  <2>3. QED
    BY <1>1, <2>1, <2>2, UndisturbedKeeps
<1>9. ASSUME NEW d \in Clients, d # c PROVE Sound(d)'
  <2>1. Undisturbed(d) /\ outbox'[d] = outbox[d] /\ inbox'[d] = inbox[d]
    BY <1>1, <1>3, <1>6, <1>9 DEF TypeOK, Undisturbed
  <2>2. Sound(d)
    BY DEF IInv
  <2>3. QED
    BY <2>1, <2>2, UntouchedKeeps
<1>10. QED
  BY <1>6, <1>7, <1>8, <1>9 DEF IInv

(* test1 commits its buffer before it paints it.                           *)
LEMMA CreateWindowKeeps ==
  ASSUME IInv, NEW c \in Clients, CreateWindow(c)
  PROVE  IInv'
<1>1. TypeOK /\ Sound(c) /\ pc[c] = "start" /\ c \notin Main
  BY DEF IInv, CreateWindow, Main
<1>2. /\ pc' = [pc EXCEPT ![c] = "committed"]
      /\ Commit(c, NoCallback)
      /\ UNCHANGED <<surf, requests, outbox, inbox, readyToDraw, color, frames>>
  BY DEF CreateWindow, serverVars
<1>3. pc'[c] = "committed"
  BY <1>1, <1>2 DEF TypeOK
<1>4. Submits(c, NoCallback) /\ NoCallback \in Nat
  BY <1>1, <1>2, <1>3 DEF Submits, Commit, NoCallback
<1>5. /\ OneSubmission(c)' /\ NothingReleased(c)'
      /\ unsent' \in [Clients -> Seq(Request)]
  BY <1>1, <1>4, SubmissionMade
<1>6. DrawnOnce(c)'
  BY <1>1, <1>2, <1>3 DEF Sound, DrawnOnce
<1>7. TypeOK'
  BY <1>1, <1>2, <1>5 DEF TypeOK
<1>8. ASSUME NEW d \in Clients, d # c PROVE Sound(d)'
  <2>1. Undisturbed(d) /\ outbox'[d] = outbox[d] /\ inbox'[d] = inbox[d]
    BY <1>1, <1>2, <1>8 DEF TypeOK, Undisturbed, Commit
  <2>2. Sound(d)
    BY DEF IInv
  <2>3. QED
    BY <2>1, <2>2, UntouchedKeeps
<1>9. QED
  BY <1>5, <1>6, <1>7, <1>8 DEF IInv, Sound

(* Then it paints: the submission has not left its connection.             *)
LEMMA PaintPixelsKeeps ==
  ASSUME IInv, NEW c \in Clients, PaintPixels(c)
  PROVE  IInv'
<1>1. TypeOK /\ Sound(c) /\ pc[c] = "committed" /\ c \notin Main
  BY DEF IInv, PaintPixels, Main
<1>2. /\ pc' = [pc EXCEPT ![c] = "looping"]
      /\ color' = [color EXCEPT ![c] = 1]
      /\ UNCHANGED <<surf, requests, outbox, inbox, unsent, readyToDraw, frames>>
  BY DEF PaintPixels, serverVars
<1>3. pc'[c] = "looping" /\ color'[c] = 1
  BY <1>1, <1>2 DEF TypeOK
<1>4. OneSubmission(c)'
  BY <1>1, <1>2, <1>3 DEF Sound, OneSubmission
<1>5. DrawnOnce(c)' /\ NothingReleased(c)'
  BY <1>1, <1>2, <1>3 DEF Sound, DrawnOnce, NothingReleased
<1>6. TypeOK'
  BY <1>1, <1>2 DEF TypeOK
<1>7. ASSUME NEW d \in Clients, d # c PROVE Sound(d)'
  <2>1. Undisturbed(d) /\ outbox'[d] = outbox[d] /\ inbox'[d] = inbox[d]
    BY <1>1, <1>2, <1>7 DEF TypeOK, Undisturbed
  <2>2. Sound(d)
    BY DEF IInv
  <2>3. QED
    BY <2>1, <2>2, UntouchedKeeps
<1>8. QED
  BY <1>4, <1>5, <1>6, <1>7 DEF IInv, Sound

(* Every step of the server and of the clients keeps the invariant.        *)
LEMMA NextIInv == IInv /\ [Next]_vars => IInv'
<1> SUFFICES ASSUME IInv, [Next]_vars PROVE IInv'
  OBVIOUS
<1>1. CASE ServerNext /\ UNCHANGED clientVars
  BY <1>1, DispatchKeeps, RepaintKeeps, FlushKeeps DEF ServerNext
<1>2. CASE \E c \in Clients : ClientStep(c)
  BY <1>2, FlushRequestsKeeps, CreateSurfaceKeeps, HandleEventKeeps,
     CreateWindowKeeps, PaintPixelsKeeps DEF ClientStep
<1>3. CASE UNCHANGED vars
  <2>1. UNCHANGED <<surf, requests, outbox, inbox, pc, unsent, readyToDraw, color, frames>>
    BY <1>3 DEF vars, serverVars, clientVars
  <2>2. TypeOK'
    BY <2>1 DEF IInv, TypeOK
  <2>3. ASSUME NEW c \in Clients PROVE Sound(c)'
    <3>1. /\ Sound(c) /\ Undisturbed(c)
          /\ outbox'[c] = outbox[c] /\ inbox'[c] = inbox[c]
      BY <2>1 DEF IInv, Undisturbed
    <3>2. QED
      BY <3>1, UntouchedKeeps
  <2>4. QED
    BY <2>2, <2>3 DEF IInv
<1>4. QED
  BY <1>1, <1>2, <1>3 DEF Next

(* Each client makes one submission, and no buffer ever comes back: the    *)
(* invariant of the example clients.                                       *)
THEOREM ClientInvariant == Spec => []IInv
<1>1. QED
  BY InitIInv, NextIInv, PTL DEF Spec

(* A buffer the server may read belongs to a client that has painted it    *)
(* and is in its loop.                                                     *)
LEMMA HeldIsPainted ==
  ASSUME IInv, NEW c \in Clients, Held(c)
  PROVE  pc[c] = "looping" /\ color[c] = 1
<1>1. Sound(c) /\ buffer # NoBuffer
  BY ExampleAssumption, NoBufferAssumption DEF IInv
<1>2. pc[c] = "looping"
  BY <1>1 DEF Sound, OneSubmission, Held
<1>3. QED
  BY <1>1, <1>2 DEF Sound, DrawnOnce

(* What the server has got is painted, for main and for test1, which       *)
(* commits first.                                                          *)
THEOREM ClientsShowPainted == Spec => []FirstFrameIsPainted
<1>1. IInv => FirstFrameIsPainted
  BY HeldIsPainted DEF FirstFrameIsPainted
<1>2. QED
  BY <1>1, ClientInvariant, PTL

(* No client paints into a buffer that the server may read.                *)
THEOREM ClientsPaintOwn == Spec => NoPaintWhileHeld
<1>1. IInv /\ [Next]_vars =>
        [\A c \in Clients : color'[c] # color[c] => ~ Held(c)]_vars
  <2> SUFFICES ASSUME IInv, Next, NEW c \in Clients, Held(c)
               PROVE  color'[c] = color[c]
    OBVIOUS
  <2>1. pc[c] = "looping" /\ TypeOK
    BY HeldIsPainted DEF IInv
  <2>2. CASE ServerNext /\ UNCHANGED clientVars
    BY <2>2 DEF clientVars
  <2>3. ASSUME NEW d \in Clients, ClientStep(d) PROVE color'[c] = color[c]
    <3>1. CASE FlushRequests(d)
      BY <3>1 DEF FlushRequests
    <3>2. CASE CreateSurface(d)
      <4>1. d # c
        BY <2>1, <3>2 DEF CreateSurface
      <4>2. QED
        BY <2>1, <3>2, <4>1 DEF CreateSurface, Redraw, Draw, TypeOK
    <3>3. CASE HandleEvent(d)
      BY <3>3, HandleEventKeeps
    <3>4. CASE CreateWindow(d)
      BY <3>4 DEF CreateWindow
    <3>5. CASE PaintPixels(d)
      <4>1. d # c
        BY <2>1, <3>5 DEF PaintPixels
      <4>2. QED
        BY <2>1, <3>5, <4>1 DEF PaintPixels, TypeOK
    <3>6. QED
      BY <2>3, <3>1, <3>2, <3>3, <3>4, <3>5 DEF ClientStep
  <2>4. QED
    BY <2>2, <2>3 DEF Next
<1>2. QED
  BY <1>1, ClientInvariant, PTL DEF Spec, NoPaintWhileHeld

\* main asked for a callback once at most, and no buffer is on its way back
OneFrameForEver ==
  \A c \in Main : frames[c] <= 1 /\ NothingReleased(c)

(* What makes the clients stall, from the side of safety: main never draws *)
(* a second frame, as the release that it waits for is never sent.         *)
THEOREM ClientsDrawOnce == Spec => []OneFrameForEver
<1>1. IInv => OneFrameForEver
  <2> SUFFICES ASSUME IInv, NEW c \in Main
               PROVE  frames[c] <= 1 /\ NothingReleased(c)
    BY DEF OneFrameForEver
  <2>1. Sound(c)
    BY DEF IInv, Main
  <2>2. frames[c] = 0 \/ frames[c] = 1
    BY <2>1 DEF Sound, DrawnOnce
  <2>3. QED
    BY <2>1, <2>2 DEF Sound
<1>2. QED
  BY <1>1, ClientInvariant, PTL

-----------------------------------------------------------------------------
(* The memory of main and test1 (module SharedMemory) *)

\* What program p leaves behind so far
Tidy(p) ==
  /\ p \in named => call[p] \in {"cloexec", "unlink", "killed"}
  /\ call[p] \in {"create", "failed", "faulted", "killed"} => p \notin open
  /\ p \in MainPrograms =>
       /\ call[p] \in {"running", "paint"} => p \notin open
       /\ call[p] \in {"map", "share", "paint"} => p \in reserved
       /\ call[p] # "faulted"

MemoryInv ==
  /\ DOMAIN call = Programs
  /\ named \subseteq Programs /\ open \subseteq Programs
  /\ \A p \in Programs : Tidy(p)

(* Every call of a program, whether it fails or not, and every way to be   *)
(* killed keeps that.                                                      *)
LEMMA MemoryStep == MemoryInv /\ [MemoryNext]_memoryVars => MemoryInv'
<1> SUFFICES ASSUME MemoryInv, [MemoryNext]_memoryVars PROVE MemoryInv'
  OBVIOUS
<1> USE DEF Goto, GoOn, GiveUp, Programs
<1>0. /\ DOMAIN call = Programs
      /\ named \subseteq Programs /\ open \subseteq Programs
      /\ \A p \in Programs : Tidy(p)
  BY DEF MemoryInv
<1>1. CASE UNCHANGED memoryVars
  BY <1>1 DEF memoryVars, MemoryInv, Tidy
\* Only program p moves
<1>2. ASSUME NEW p \in Programs, NEW next,
             call' = [call EXCEPT ![p] = next],
             named' \subseteq Programs, open' \subseteq Programs,
             \A o \in Programs : o # p =>
               /\ o \in named' <=> o \in named
               /\ o \in open' <=> o \in open
               /\ o \in reserved => o \in reserved',
             Tidy(p)'
      PROVE  MemoryInv'
  <2>1. ASSUME NEW o \in Programs, o # p PROVE Tidy(o)'
    BY <1>0, <1>2, <2>1 DEF Tidy
  <2>2. QED
    BY <1>0, <1>2, <2>1 DEF MemoryInv
<1>3. ASSUME NEW p \in Programs, CreateFile(p) PROVE MemoryInv'
  <2>1. Tidy(p) /\ call[p] = "create"
    BY <1>0, <1>3 DEF CreateFile
  <2>2. Tidy(p)'
    BY <1>0, <1>3, <2>1 DEF CreateFile, Tidy
  <2>3. QED
    BY <1>0, <1>2, <1>3, <2>2 DEF CreateFile
<1>4. ASSUME NEW p \in Programs, SetCloexec(p) PROVE MemoryInv'
  <2>1. Tidy(p)'
    BY <1>0, <1>4 DEF SetCloexec, Tidy
  <2>2. QED
    BY <1>0, <1>2, <1>4, <2>1 DEF SetCloexec
<1>5. ASSUME NEW p \in Programs, Unlink(p) PROVE MemoryInv'
  <2>1. Tidy(p)'
    BY <1>0, <1>5 DEF Unlink, Tidy
  <2>2. QED
    BY <1>0, <1>2, <1>5, <2>1 DEF Unlink
<1>6. ASSUME NEW p \in Programs, SetSize(p) PROVE MemoryInv'
  <2>1. Tidy(p)'
    BY <1>0, <1>6 DEF SetSize, Reserves, Tidy
  <2>2. QED
    BY <1>0, <1>2, <1>6, <2>1 DEF SetSize
<1>7. ASSUME NEW p \in Programs, Map(p) PROVE MemoryInv'
  <2>1. Tidy(p)'
    BY <1>0, <1>7 DEF Map, Tidy
  <2>2. QED
    BY <1>0, <1>2, <1>7, <2>1 DEF Map
<1>8. ASSUME NEW p \in Programs, Share(p) PROVE MemoryInv'
  <2>1. Tidy(p)'
    BY <1>0, <1>8 DEF Share, Tidy
  <2>2. QED
    BY <1>0, <1>2, <1>8, <2>1 DEF Share
<1>9. ASSUME NEW p \in Programs, Paint(p) PROVE MemoryInv'
  <2>1. Tidy(p)'
    BY <1>0, <1>9 DEF Paint, Tidy
  <2>2. QED
    BY <1>0, <1>2, <1>9, <2>1 DEF Paint
<1>10. ASSUME NEW p \in Programs, Kill(p) PROVE MemoryInv'
  <2>1. Tidy(p)'
    BY <1>0, <1>10 DEF Kill, Ended, Tidy
  <2>2. QED
    BY <1>0, <1>2, <1>10, <2>1 DEF Kill
<1>11. ASSUME NEW p \in Programs, DiskChanges(p) PROVE MemoryInv'
  BY <1>0, <1>11 DEF DiskChanges, MemoryInv, Tidy
<1>12. QED
  BY <1>1, <1>3, <1>4, <1>5, <1>6, <1>7, <1>8, <1>9, <1>10, <1>11 DEF MemoryNext

(* The invariant of the files and descriptors.                             *)
THEOREM MemoryInvariant == MemorySpec => []MemoryInv
<1>1. MemoryInit => MemoryInv
  BY DEF MemoryInit, MemoryInv, Tidy
<1>2. QED
  BY <1>1, MemoryStep, PTL DEF MemorySpec

(* Only a kill in the wrong place leaves the name of a file behind, and of *)
(* the programs that go on or give up only test1 keeps a descriptor,       *)
(* whichever call fails.                                                   *)
THEOREM MemoryIsTidy == MemorySpec => []NothingLeftBehind
<1>1. MemoryInv => NothingLeftBehind
  BY DEF MemoryInv, Tidy, NothingLeftBehind, Programs
<1>2. QED
  BY <1>1, MemoryInvariant, PTL

(* main never touches a page without a block: posix_fallocate has failed   *)
(* before.  Only test1 can be ended that way.                              *)
THEOREM MemoryFaultsSparse == MemorySpec => []OnlySparseFaults
<1>1. MemoryInv => OnlySparseFaults
  BY DEF MemoryInv, Tidy, OnlySparseFaults, Programs
<1>2. QED
  BY <1>1, MemoryInvariant, PTL
=============================================================================

----------------------------- MODULE CycleProofs -----------------------------
(***************************************************************************)
(* Proofs about module BufferCycle, for every set of clients and buffers,  *)
(* whoever of them is careless.                                            *)
(*                                                                         *)
(* The argument counts: the places a buffer is in are counted in the       *)
(* requests, the surface, the two queues of events and the client, and     *)
(* every step that takes it from one puts it into another.  That needs to  *)
(* know that an attached buffer cannot be overwritten by the next: behind  *)
(* every attach in the requests comes its commit.                          *)
(***************************************************************************)
EXTENDS BufferCycle, FiniteSetTheorems, SequenceTheorems, TLAPS

-----------------------------------------------------------------------------
(* Counting in sequences *)

At(s, e) == {i \in DOMAIN s : s[i] = e}

Count(s, e) == Cardinality(At(s, e))

(* A sequence has finitely many positions.                                 *)
LEMMA CountIsNat ==
  ASSUME NEW S, NEW s \in Seq(S), NEW e
  PROVE  /\ IsFiniteSet(At(s, e))
         /\ Count(s, e) \in Nat
         /\ Count(s, e) = 0 <=> At(s, e) = {}
<1>1. DOMAIN s = 1 .. Len(s) /\ Len(s) \in Nat
  OBVIOUS
<1>2. IsFiniteSet(1 .. Len(s))
  BY <1>1, FS_Interval
<1>3. At(s, e) \in SUBSET (1 .. Len(s))
  BY <1>1 DEF At
<1>4. IsFiniteSet(At(s, e))
  BY <1>2, <1>3, FS_Subset
<1>5. QED
  BY <1>4, FS_CardinalityType, FS_EmptySet DEF Count

(* What is counted in two sequences is counted in the one of both.         *)
LEMMA CountConcat ==
  ASSUME NEW S, NEW s \in Seq(S), NEW t \in Seq(S), NEW e
  PROVE  s \o t \in Seq(S) /\ Count(s \o t, e) = Count(s, e) + Count(t, e)
<1> DEFINE n == Len(s)
           A == At(s, e)
           B == At(t, e)
           C == At(s \o t, e) \ A
           f == [i \in B |-> i + n]
<1>1. /\ s \o t \in Seq(S)
      /\ n \in Nat /\ Len(t) \in Nat
      /\ DOMAIN s = 1 .. n /\ DOMAIN t = 1 .. Len(t)
      /\ DOMAIN (s \o t) = 1 .. n + Len(t)
      /\ \A i \in 1 .. n : (s \o t)[i] = s[i]
      /\ \A i \in n + 1 .. n + Len(t) : (s \o t)[i] = t[i - n]
  BY ConcatProperties, LenProperties
<1>2. IsFiniteSet(A) /\ IsFiniteSet(B) /\ IsFiniteSet(At(s \o t, e))
  <2> HIDE DEF A, B
  <2>1. QED
    BY <1>1, CountIsNat DEF A, B
<1>3. A \subseteq At(s \o t, e)
  BY <1>1 DEF At
<1>4. \A i \in B : i \in Nat /\ i >= 1 /\ i <= Len(t) /\ t[i] = e
  BY <1>1 DEF At
<1>5. ASSUME NEW i \in B PROVE i + n \in C
  <2>1. i + n \in n + 1 .. n + Len(t) /\ i + n \in 1 .. n + Len(t)
        /\ i + n \notin 1 .. n /\ (i + n) - n = i
    BY <1>1, <1>4
  <2>2. (s \o t)[i + n] = e
    BY <1>1, <1>4, <2>1
  <2>3. QED
    BY <1>1, <2>1, <2>2 DEF At
<1>6. ASSUME NEW k \in C PROVE \E i \in B : f[i] = k
  <2>1. k \in 1 .. n + Len(t) /\ (s \o t)[k] = e /\ k \notin A
    BY <1>1 DEF At
  <2>2. k \notin 1 .. n
    BY <1>1, <2>1 DEF At
  <2>3. k \in n + 1 .. n + Len(t)
    BY <1>1, <2>1, <2>2
  <2>4. t[k - n] = e
    BY <1>1, <2>1, <2>3
  <2>5. k - n \in 1 .. Len(t) /\ (k - n) + n = k
    BY <1>1, <2>3
  <2>6. k - n \in B
    BY <1>1, <2>4, <2>5 DEF At
  <2>7. QED
    BY <2>5, <2>6
<1>7. \A i, j \in B : f[i] = f[j] => i = j
  BY <1>1, <1>4
<1>8. f \in Bijection(B, C)
  <2>1. f \in [B -> C]
    BY <1>5
  <2>2. QED
    BY <1>6, <1>7, <2>1 DEF Bijection, Injection, IsInjective, Surjection
<1> HIDE DEF A, B, C, f
<1>9. IsFiniteSet(C) /\ Cardinality(C) = Cardinality(B)
  BY <1>2, <1>8, FS_Bijection DEF ExistsBijection
<1>10. At(s \o t, e) = A \cup C /\ A \cap C = {}
  BY <1>3 DEF C
<1>11. Cardinality(A \cup C) = Cardinality(A) + Cardinality(C) - Cardinality(A \cap C)
  BY <1>2, <1>9, FS_Union
<1>12. Cardinality(A) \in Nat /\ Cardinality(B) \in Nat /\ Cardinality(A \cap C) = 0
  BY <1>2, <1>10, FS_CardinalityType, FS_EmptySet
<1>13. Cardinality(At(s \o t, e)) = Cardinality(A) + Cardinality(B)
  BY <1>9, <1>10, <1>11, <1>12
<1>14. QED
  BY <1>1, <1>13 DEF Count, A, B

(* A single entry is counted once.                                         *)
LEMMA CountOne ==
  ASSUME NEW x, NEW e
  PROVE  Count(<<x>>, e) = IF x = e THEN 1 ELSE 0
<1>1. DOMAIN <<x>> = {1} /\ <<x>>[1] = x
  OBVIOUS
<1>2. At(<<x>>, e) = IF x = e THEN {1} ELSE {}
  BY <1>1 DEF At
<1>3. QED
  BY <1>2, FS_EmptySet, FS_Singleton DEF Count

(* Nothing is counted in the empty sequence.                               *)
LEMMA CountNone ==
  ASSUME NEW e
  PROVE  Count(<<>>, e) = 0
<1>1. At(<<>>, e) = {}
  BY DEF At
<1>2. QED
  BY <1>1, FS_EmptySet DEF Count

(* An entry that is appended is counted.                                   *)
LEMMA CountAppend ==
  ASSUME NEW S, NEW s \in Seq(S), NEW x \in S, NEW e
  PROVE  /\ Append(s, x) \in Seq(S)
         /\ Count(Append(s, x), e) = Count(s, e) + (IF x = e THEN 1 ELSE 0)
<1> DEFINE u == <<x>>
<1>1. Append(s, x) = s \o u /\ u \in Seq(S)
  BY AppendIsConcat
<1>2. Count(u, e) = IF x = e THEN 1 ELSE 0
  BY CountOne
<1> HIDE DEF u
<1>3. s \o u \in Seq(S) /\ Count(s \o u, e) = Count(s, e) + Count(u, e)
  BY <1>1, CountConcat
<1>4. QED
  BY <1>1, <1>2, <1>3

(* An entry that is taken from the front is no longer counted.             *)
LEMMA CountTail ==
  ASSUME NEW S, NEW s \in Seq(S), s # <<>>, NEW e
  PROVE  /\ Head(s) \in S /\ Tail(s) \in Seq(S)
         /\ Count(s, e) = Count(Tail(s), e) + (IF Head(s) = e THEN 1 ELSE 0)
<1> DEFINE h == Head(s)
           u == <<h>>
           t == Tail(s)
<1>1. h \in S /\ t \in Seq(S) /\ u \in Seq(S) /\ s = u \o t
  OBVIOUS
<1>2. Count(u, e) = IF h = e THEN 1 ELSE 0
  BY CountOne
<1> HIDE DEF h, u, t
<1>3. Count(u \o t, e) = Count(u, e) + Count(t, e)
  BY <1>1, CountConcat
<1>4. Count(u, e) \in Nat /\ Count(t, e) \in Nat
  BY <1>1, CountIsNat
<1>5. Count(s, e) = Count(t, e) + (IF h = e THEN 1 ELSE 0)
  BY <1>1, <1>2, <1>3, <1>4
<1>6. QED
  BY <1>1, <1>5 DEF h, t

-----------------------------------------------------------------------------
(* The inductive invariant *)

Attach(b)  == [op |-> "attach", buffer |-> b]
Destroy(b) == [op |-> "destroy", buffer |-> b]

Request == [op : {"attach", "destroy"}, buffer : Buffers]
           \cup [op : {"frame"}, callback : Nat] \cup [op : {"commit"}]

TypeOK ==
  /\ surf \in [Clients -> SurfaceObject]
  /\ requests \in [Clients -> Seq(Request)]
  /\ outbox \in [Clients -> Seq(Event)]
  /\ inbox \in [Clients -> Seq(Event)]
  /\ wantFlush \in [Clients -> BOOLEAN]
  /\ freed \in [Clients -> SUBSET Buffers]
  /\ mine \in [Clients -> SUBSET Buffers]
  /\ asked \in [Clients -> BOOLEAN]

\* Does a commit come at position i of the requests, or right behind it?
CommitFrom(s, i) ==
  /\ i \in DOMAIN s
  /\ \/ s[i].op = "commit"
     \/ s[i].op = "frame" /\ i + 1 \in DOMAIN s /\ s[i + 1].op = "commit"

\* No attach comes between an attach and its commit
Paired(c) ==
  /\ \A i \in DOMAIN requests[c] :
       requests[c][i].op = "attach" => CommitFrom(requests[c], i + 1)
  /\ surf[c].back.buffer # NoBuffer => CommitFrom(requests[c], 1)

Held(s, b) == (IF s.front.buffer = b THEN 1 ELSE 0)
              + (IF s.back.buffer = b THEN 1 ELSE 0)

Gone(c, b) == b \in freed[c] \/ Count(requests[c], Destroy(b)) # 0

\* The places buffer b is in while its client does not have it
Away(c, b) == Count(requests[c], Attach(b)) + Held(surf[c], b)
              + Count(outbox[c], Release(b)) + Count(inbox[c], Release(b))

\* Each buffer is in one place, or in none once a careful client has
\* destroyed it; of one that a careless client has destroyed only the client
\* knows nothing any more
Counted(c) ==
  \A b \in Buffers :
    /\ Gone(c, b) => b \notin mine[c]
    /\ Gone(c, b) =>  c \in Careless \/ Away(c, b) = 0
    /\ ~ Gone(c, b) => Away(c, b) = IF b \in mine[c] THEN 0 ELSE 1

\* What makes the connection of a client silent that never asked
Silent(c) ==
  ~ asked[c] =>
    /\ inbox[c] = <<>> /\ ~ wantFlush[c]
    /\ \A i \in DOMAIN requests[c] : requests[c][i].op # "frame"
    /\ surf[c].front.callbackDone = NoCallback
    /\ surf[c].back.callbackDone = NoCallback

Sound(c) == Paired(c) /\ Counted(c) /\ Silent(c)

IInv ==
  /\ TypeOK
  /\ \A c \in Clients : Sound(c)
  /\ culprits \subseteq Careless

-----------------------------------------------------------------------------
(* Handlers *)

(* A buffer that is attached goes to mBack.                                *)
LEMMA AttachHandled ==
  ASSUME NEW s \in SurfaceObject, NEW b \in Buffers, NEW x \in Int
  PROVE  LET t == Attached(s, b, x)
         IN  /\ t \in SurfaceObject
             /\ t.front = s.front /\ t.back.buffer = b
             /\ t.back.callbackDone = s.back.callbackDone
             /\ s.back.buffer = NoBuffer =>
                  \A a \in Buffers : Held(t, a) = Held(s, a) + (IF a = b THEN 1 ELSE 0)
<1> DEFINE t == Attached(s, b, x)
<1>1. /\ t \in SurfaceObject
      /\ t.front = s.front /\ t.back.buffer = b
      /\ t.back.callbackDone = s.back.callbackDone
  BY NoBufferAssumption DEF Attached, SurfaceObject, SurfaceState
<1> HIDE DEF t
<1>2. s.back.buffer = NoBuffer =>
        \A a \in Buffers : Held(t, a) = Held(s, a) + (IF a = b THEN 1 ELSE 0)
  BY <1>1, NoBufferAssumption DEF Held
<1>3. QED
  BY <1>1, <1>2 DEF t

(* A callback that is asked for waits in mBack.                            *)
LEMMA FrameHandled ==
  ASSUME NEW s \in SurfaceObject, NEW cb \in Nat
  PROVE  LET t == Framed(s, cb)
         IN  /\ t \in SurfaceObject
             /\ t.front = s.front /\ t.back.buffer = s.back.buffer
             /\ \A a : Held(t, a) = Held(s, a)
BY DEF Framed, SurfaceObject, SurfaceState, Held

(* What a callback's answer is worth to a buffer: nothing.                 *)
LEMMA DoneReleasesNothing ==
  ASSUME NEW cb \in Nat
  PROVE  /\ SendDone(cb) \in Seq(Event)
         /\ \A b : Count(SendDone(cb), Release(b)) = 0
         /\ cb = NoCallback => SendDone(cb) = <<>>
<1>1. CASE cb = NoCallback
  <2>1. SendDone(cb) = <<>>
    BY <1>1 DEF SendDone
  <2>2. QED
    BY <2>1, CountNone
<1>2. CASE cb # NoCallback
  <2>1. SendDone(cb) = <<Done(cb)>> /\ Done(cb) \in Event
    BY <1>2 DEF SendDone, Done, Event
  <2>2. \A b : Done(cb) # Release(b)
    BY DEF Done, Release
  <2> DEFINE d == Done(cb)
  <2> HIDE DEF d
  <2>3. \A b : Count(<<d>>, Release(b)) = 0
    BY <2>2, CountOne DEF d
  <2>4. QED
    BY <1>2, <2>1, <2>3 DEF d
<1>3. QED
  BY <1>1, <1>2

(* A commit shows what waited in mBack, and what was shown goes into the   *)
(* events: no buffer is lost between the two.                              *)
LEMMA CommitHandled ==
  ASSUME NEW s \in SurfaceObject
  PROVE  LET t == Committed(s)
             events == CommitEvents(s)
         IN  /\ t \in SurfaceObject /\ events \in Seq(Event)
             /\ t.back.buffer = NoBuffer
             /\ \A b \in Buffers :
                  Held(t, b) + Count(events, Release(b)) = Held(s, b)
             /\ s.front.callbackDone = NoCallback /\ s.back.callbackDone = NoCallback =>
                  /\ t.front.callbackDone = NoCallback
                  /\ t.back.callbackDone = NoCallback
                  /\ ~ Posted(events)
<1> DEFINE t == Committed(s)
           events == CommitEvents(s)
<1>1. CASE s.back.buffer = NoBuffer
  <2>1. t = s /\ events = <<>>
    BY <1>1 DEF Committed, CommitEvents
  <2>2. events \in Seq(Event) /\ ~ Posted(events)
    BY <2>1 DEF Posted
  <2>3. \A b \in Buffers : Held(t, b) \in Nat /\ Count(events, Release(b)) = 0
    BY <2>1, CountNone DEF Held
  <2> HIDE DEF t, events
  <2>4. QED
    BY <1>1, <2>1, <2>2, <2>3 DEF t, events
<1>2. CASE s.back.buffer # NoBuffer
  <2> DEFINE now == IF AnswersAtOnce(s) THEN SendDone(s.back.callbackDone) ELSE <<>>
             old == RecycledEvents(s.front)
  <2>1. t = [front |-> CommittedFront(s), back |-> RecycledBack(s), filled |-> Filled(s)]
        /\ events = now \o old
    BY <1>2 DEF Committed, CommitEvents
  <2>2. /\ CommittedFront(s) \in SurfaceState
        /\ CommittedFront(s).buffer = s.back.buffer
        /\ s.back.callbackDone = NoCallback =>
             CommittedFront(s).callbackDone = NoCallback
    BY DEF CommittedFront, SurfaceObject, SurfaceState, NoCallback
  <2>3. /\ RecycledBack(s) \in SurfaceState
        /\ RecycledBack(s).buffer = NoBuffer
        /\ s.front.callbackDone = NoCallback =>
             RecycledBack(s).callbackDone = NoCallback
    BY DEF RecycledBack, SurfaceObject, SurfaceState, NoCallback
  <2>4. Filled(s) \in Nat
    BY DEF Filled, SurfaceObject
  <2>5. /\ t \in SurfaceObject
        /\ t.front.buffer = s.back.buffer /\ t.back.buffer = NoBuffer
        /\ s.front.callbackDone = NoCallback /\ s.back.callbackDone = NoCallback =>
             /\ t.front.callbackDone = NoCallback
             /\ t.back.callbackDone = NoCallback
    BY <2>1, <2>2, <2>3, <2>4 DEF SurfaceObject
  <2>6. /\ s.front.callbackDone \in Nat /\ s.back.callbackDone \in Nat
        /\ s.front.buffer \in Buffers \cup {NoBuffer}
    BY DEF SurfaceObject, SurfaceState
  <2>7. /\ now \in Seq(Event) /\ \A b : Count(now, Release(b)) = 0
        /\ s.back.callbackDone = NoCallback => now = <<>>
    <3> DEFINE d == SendDone(s.back.callbackDone)
    <3>1. /\ d \in Seq(Event) /\ \A b : Count(d, Release(b)) = 0
          /\ s.back.callbackDone = NoCallback => d = <<>>
      BY <2>6, DoneReleasesNothing
    <3>2. now = d \/ now = <<>>
      OBVIOUS
    <3>3. <<>> \in Seq(Event) /\ \A b : Count(<<>>, Release(b)) = 0
      BY CountNone
    <3> HIDE DEF now, d
    <3>4. QED
      BY <3>1, <3>2, <3>3
  <2>8. /\ old \in Seq(Event)
        /\ \A b \in Buffers :
             Count(old, Release(b)) = IF s.front.buffer = b THEN 1 ELSE 0
        /\ s.front.callbackDone = NoCallback =>
             old = <<>> \/ old = <<Release(s.front.buffer)>>
    <3>1. CASE s.front.buffer = NoBuffer
      <4>1. old = <<>>
        BY <3>1 DEF RecycledEvents
      <4>2. QED
        BY <3>1, <4>1, CountNone, NoBufferAssumption
    <3>2. CASE s.front.buffer # NoBuffer
      <4> DEFINE e == Release(s.front.buffer)
                 u == <<e>>
                 d == SendDone(s.front.callbackDone)
      <4>1. old = u \o d /\ e \in Event
        BY <2>6, <3>2 DEF RecycledEvents, Release, Event
      <4>2. /\ d \in Seq(Event) /\ \A b : Count(d, Release(b)) = 0
            /\ s.front.callbackDone = NoCallback => d = <<>>
        BY <2>6, DoneReleasesNothing
      <4>3. \A b : Count(u, Release(b)) = IF e = Release(b) THEN 1 ELSE 0
        BY CountOne
      <4>4. \A b : e = Release(b) <=> s.front.buffer = b
        BY DEF Release
      <4>5. u \in Seq(Event)
        BY <4>1
      <4> HIDE DEF u, d, e
      <4>6. old \in Seq(Event)
            /\ \A b \in Buffers :
                 Count(old, Release(b)) = Count(u, Release(b)) + Count(d, Release(b))
        BY <4>1, <4>2, <4>5, CountConcat
      <4>7. s.front.callbackDone = NoCallback => old = u
        BY <4>1, <4>2, <4>5, ConcatEmptySeq
      <4>8. QED
        BY <4>2, <4>3, <4>4, <4>6, <4>7 DEF u, e
    <3>3. QED
      BY <3>1, <3>2
  <2> HIDE DEF now, old
  <2>9. /\ events \in Seq(Event)
        /\ \A b \in Buffers :
             Count(events, Release(b)) = IF s.front.buffer = b THEN 1 ELSE 0
    <3>1. now \o old \in Seq(Event)
          /\ \A b : Count(now \o old, Release(b))
                      = Count(now, Release(b)) + Count(old, Release(b))
      BY <2>7, <2>8, CountConcat
    <3>2. QED
      BY <2>1, <2>7, <2>8, <3>1
  <2>10. ASSUME s.front.callbackDone = NoCallback, s.back.callbackDone = NoCallback
         PROVE  ~ Posted(events)
    <3>1. events = old
      BY <2>1, <2>7, <2>8, <2>10, ConcatEmptySeq
    <3>2. Release(s.front.buffer).type # "done"
      BY DEF Release
    <3>3. QED
      BY <2>8, <2>10, <3>1, <3>2 DEF Posted
  <2> HIDE DEF t, events
  <2>11. ASSUME NEW b \in Buffers
         PROVE  Held(t, b) + Count(events, Release(b)) = Held(s, b)
    <3>1. t.front.buffer = s.back.buffer /\ t.back.buffer # b
      BY <2>5, NoBufferAssumption
    <3>2. Held(t, b) = IF s.back.buffer = b THEN 1 ELSE 0
      BY <3>1 DEF Held
    <3>3. Count(events, Release(b)) = IF s.front.buffer = b THEN 1 ELSE 0
      BY <2>9
    <3>4. QED
      BY <3>2, <3>3 DEF Held
  <2>12. QED
    BY <2>5, <2>9, <2>10, <2>11 DEF t, events
<1>3. QED
  BY <1>1, <1>2

(* A repaint answers a callback and moves no buffer.                       *)
LEMMA PaintHandled ==
  ASSUME NEW s \in SurfaceObject
  PROVE  LET t == Painted(s)
             events == PaintEvents(s)
         IN  /\ t \in SurfaceObject /\ events \in Seq(Event)
             /\ t.back = s.back /\ t.front.buffer = s.front.buffer
             /\ \A b : Held(t, b) = Held(s, b) /\ Count(events, Release(b)) = 0
             /\ s.front.callbackDone = NoCallback =>
                  t.front.callbackDone = NoCallback /\ events = <<>>
<1> DEFINE t == Painted(s)
           events == PaintEvents(s)
<1>1. /\ t \in SurfaceObject
      /\ t.back = s.back /\ t.front.buffer = s.front.buffer
      /\ s.front.callbackDone = NoCallback => t.front.callbackDone = NoCallback
  BY DEF Painted, SurfaceObject, SurfaceState, NoCallback
<1>2. s.front.callbackDone \in Nat
  BY DEF SurfaceObject, SurfaceState
<1>3. /\ events \in Seq(Event) /\ \A b : Count(events, Release(b)) = 0
      /\ s.front.callbackDone = NoCallback => events = <<>>
  BY <1>2, DoneReleasesNothing, CountNone DEF PaintEvents
<1>4. \A b : Held(t, b) = Held(s, b)
  BY <1>1 DEF Held
<1>5. QED
  BY <1>1, <1>3, <1>4

-----------------------------------------------------------------------------
(* Requests on their way *)

(* A commit that is on its way gets nearer with every request.             *)
LEMMA CommitNearer ==
  ASSUME NEW s \in Seq(Request), s # <<>>, NEW i \in Nat \ {0}
  PROVE  /\ CommitFrom(s, i + 1) => CommitFrom(Tail(s), i)
         /\ \A j \in DOMAIN Tail(s) : j + 1 \in DOMAIN s /\ Tail(s)[j] = s[j + 1]
         /\ DOMAIN Tail(s) \subseteq Nat \ {0}
         /\ 1 \in DOMAIN s /\ Head(s) = s[1]
<1>1. /\ DOMAIN s = 1 .. Len(s) /\ Len(s) \in Nat /\ Len(s) # 0
      /\ DOMAIN Tail(s) = 1 .. Len(s) - 1
      /\ \A j \in 1 .. Len(s) - 1 : Tail(s)[j] = s[j + 1]
      /\ Head(s) = s[1]
  OBVIOUS
<1>2. \A j \in Nat \ {0} : j + 1 \in DOMAIN s => j \in DOMAIN Tail(s) /\ Tail(s)[j] = s[j + 1]
  BY <1>1
<1>3. CommitFrom(s, i + 1) => CommitFrom(Tail(s), i)
  BY <1>2 DEF CommitFrom
<1>4. \A j \in DOMAIN Tail(s) : j + 1 \in DOMAIN s /\ Tail(s)[j] = s[j + 1]
  BY <1>1
<1>5. QED
  BY <1>1, <1>3, <1>4

(* A commit that is on its way stays there when more is sent.              *)
LEMMA CommitStays ==
  ASSUME NEW s \in Seq(Request), NEW t \in Seq(Request), NEW i,
         CommitFrom(s, i)
  PROVE  CommitFrom(s \o t, i)
<1>1. \A j \in DOMAIN s : j \in DOMAIN (s \o t) /\ (s \o t)[j] = s[j]
  OBVIOUS
<1>2. QED
  BY <1>1 DEF CommitFrom

(* With a callback they are three.                                         *)
LEMMA SubmissionOfThree ==
  ASSUME NEW b \in Buffers, NEW cb \in Nat, cb # NoCallback
  PROVE  LET q == SubmitRequests(b, cb)
         IN  /\ DOMAIN q = {1, 2, 3}
             /\ q[1] = Attach(b)
             /\ q[2] = [op |-> "frame", callback |-> cb]
             /\ q[3] = [op |-> "commit"]
<1> DEFINE r == Attach(b)
           f == [op |-> "frame", callback |-> cb]
           k == [op |-> "commit"]
           q == SubmitRequests(b, cb)
           w == Append(<<r>>, f)
<1>1. r \in Request /\ f \in Request /\ k \in Request
  BY DEF Request, Attach
<1>2. q = (<<r>> \o <<f>>) \o <<k>>
  BY DEF SubmitRequests, Attach
<1> HIDE DEF r, f, k, q, w
<1>3. <<r>> \in Seq(Request) /\ Len(<<r>>) = 1 /\ <<r>>[1] = r
  BY <1>1
<1>4. w = <<r>> \o <<f>>
  BY <1>1, <1>3, AppendIsConcat DEF w
<1>5. w \in Seq(Request) /\ Len(w) = 2 /\ w[1] = r /\ w[2] = f
  <2>1. /\ w \in Seq(Request) /\ Len(w) = 1 + 1 /\ w[1] = r /\ w[1 + 1] = f
    BY <1>1, <1>3, AppendProperties DEF w
  <2>2. QED
    BY <2>1
<1>6. q = Append(w, k)
  BY <1>1, <1>2, <1>4, <1>5, AppendIsConcat
<1>7. /\ q \in Seq(Request) /\ Len(q) = 3
      /\ q[1] = r /\ q[2] = f /\ q[3] = k
  <2>1. /\ q \in Seq(Request) /\ Len(q) = Len(w) + 1 /\ q[Len(w) + 1] = k
        /\ \A i \in 1 .. Len(w) : q[i] = w[i]
    <3>1. k \in Request /\ w \in Seq(Request)
      BY <1>1, <1>5
    <3>2. /\ Append(w, k) \in Seq(Request) /\ Len(Append(w, k)) = Len(w) + 1
          /\ \A i \in 1 .. Len(w) : Append(w, k)[i] = w[i]
          /\ Append(w, k)[Len(w) + 1] = k
      BY ONLY <3>1, AppendProperties
    <3>3. QED
      BY <1>6, <3>2
  <2>2. 1 \in 1 .. Len(w) /\ 2 \in 1 .. Len(w) /\ Len(w) + 1 = 3
    BY <1>5
  <2>3. QED
    BY <1>5, <2>1, <2>2
<1>8. DOMAIN q = {1, 2, 3}
  <2>1. DOMAIN q = 1 .. 3
    BY <1>7
  <2>2. QED
    BY <2>1
<1>9. QED
  BY <1>7, <1>8 DEF q, r, f, k

(* The requests a client shows a buffer with: one attach and its commit.   *)
LEMMA Submission ==
  ASSUME NEW b \in Buffers, NEW cb \in Nat
  PROVE  LET q == SubmitRequests(b, cb)
         IN  /\ q \in Seq(Request)
             /\ \A i \in DOMAIN q : q[i].op = "attach" => CommitFrom(q, i + 1)
             /\ \A a \in Buffers : /\ Count(q, Attach(a)) = IF a = b THEN 1 ELSE 0
                                   /\ Count(q, Destroy(a)) = 0
             /\ cb = NoCallback => \A i \in DOMAIN q : q[i].op # "frame"
<1> DEFINE q == SubmitRequests(b, cb)
           r == Attach(b)
           f == [op |-> "frame", callback |-> cb]
           k == [op |-> "commit"]
           u == <<r>>
           m == IF cb = NoCallback THEN <<>> ELSE <<f>>
           v == <<k>>
<1>1. /\ r \in Request /\ f \in Request /\ k \in Request
      /\ r.op = "attach" /\ f.op = "frame" /\ k.op = "commit"
      /\ \A a : /\ r = Attach(a) <=> a = b
                /\ r # Destroy(a) /\ f # Attach(a) /\ f # Destroy(a)
                /\ k # Attach(a) /\ k # Destroy(a)
  BY DEF Request, Attach, Destroy
<1>2. q = u \o m \o v
  BY DEF SubmitRequests, Attach
<1>3. \A a : /\ Count(u, Attach(a)) = IF a = b THEN 1 ELSE 0
             /\ Count(u, Destroy(a)) = 0
             /\ Count(v, Attach(a)) = 0 /\ Count(v, Destroy(a)) = 0
  <2> HIDE DEF r, k
  <2>1. QED
    BY <1>1, CountOne
<1>4. \A a : Count(m, Attach(a)) = 0 /\ Count(m, Destroy(a)) = 0
  <2> HIDE DEF f
  <2>1. QED
    BY <1>1, CountOne, CountNone
<1>5. u \in Seq(Request) /\ m \in Seq(Request) /\ v \in Seq(Request)
  <2> HIDE DEF r, f, k
  <2>1. QED
    BY <1>1
<1>6. /\ q \in Seq(Request)
      /\ \A e : Count(q, e) = Count(u, e) + Count(m, e) + Count(v, e)
  <2> HIDE DEF u, m, v
  <2>1. u \o m \in Seq(Request) /\ \A e : Count(u \o m, e) = Count(u, e) + Count(m, e)
    BY <1>5, CountConcat
  <2>2. /\ (u \o m) \o v \in Seq(Request)
        /\ \A e : Count((u \o m) \o v, e) = Count(u \o m, e) + Count(v, e)
    <3> DEFINE w == u \o m
    <3>1. w \in Seq(Request)
      BY <2>1
    <3> HIDE DEF w
    <3>2. w \o v \in Seq(Request) /\ \A e : Count(w \o v, e) = Count(w, e) + Count(v, e)
      BY <1>5, <3>1, CountConcat
    <3>3. QED
      BY <3>2 DEF w
  <2>3. QED
    BY <1>2, <2>1, <2>2
<1>7. \A a \in Buffers : /\ Count(q, Attach(a)) = IF a = b THEN 1 ELSE 0
                         /\ Count(q, Destroy(a)) = 0
  BY <1>3, <1>4, <1>6
<1> HIDE DEF r, f, k
<1>8. /\ \A i \in DOMAIN q : q[i].op = "attach" => CommitFrom(q, i + 1)
      /\ cb = NoCallback => \A i \in DOMAIN q : q[i].op # "frame"
  <2>1. CASE cb = NoCallback
    <3>1. /\ DOMAIN q = {1, 2} /\ q[1] = r /\ q[2] = k
      BY <1>2, <2>1
    <3>2. QED
      BY <1>1, <3>1 DEF CommitFrom
  <2>2. CASE cb # NoCallback
    <3>1. /\ DOMAIN q = {1, 2, 3} /\ q[1] = r /\ q[2] = f /\ q[3] = k
      BY <2>2, SubmissionOfThree DEF r, f, k
    <3>2. \A i \in DOMAIN q : q[i].op = "attach" => i = 1
      BY <1>1, <3>1
    <3>3. CommitFrom(q, 2)
      BY <1>1, <3>1 DEF CommitFrom
    <3>4. QED
      BY <2>2, <3>2, <3>3
  <2>3. QED
    BY <2>1, <2>2
<1>9. QED
  BY <1>6, <1>7, <1>8

-----------------------------------------------------------------------------
(* The counts and the properties *)

(* What is in flight is what is counted in the requests.                   *)
LEMMA FlightsCounted ==
  ASSUME TypeOK, NEW c \in Clients, NEW b \in Buffers
  PROVE  /\ InFlight(c, "attach", b) = At(requests[c], Attach(b))
         /\ InFlight(c, "destroy", b) = At(requests[c], Destroy(b))
         /\ b \in Destroyed(c) <=> Gone(c, b)
<1>1. requests[c] \in Seq(Request)
  BY DEF TypeOK
<1>2. ASSUME NEW i \in DOMAIN requests[c]
      PROVE  /\ requests[c][i].op = "attach" /\ requests[c][i].buffer = b
                  <=> requests[c][i] = Attach(b)
             /\ requests[c][i].op = "destroy" /\ requests[c][i].buffer = b
                  <=> requests[c][i] = Destroy(b)
  <2>1. requests[c][i] \in Request
    BY <1>1
  <2>2. QED
    BY <2>1 DEF Request, Attach, Destroy
<1>3. /\ InFlight(c, "attach", b) = At(requests[c], Attach(b))
      /\ InFlight(c, "destroy", b) = At(requests[c], Destroy(b))
  BY <1>2 DEF InFlight, At
<1>4. Count(requests[c], Destroy(b)) = 0 <=> At(requests[c], Destroy(b)) = {}
  BY <1>1, CountIsNat
<1>5. QED
  BY <1>3, <1>4 DEF Destroyed, Gone

(* The sum of the places in the run's property is the one counted here.    *)
LEMMA PlacesCounted ==
  ASSUME TypeOK, NEW c \in Clients, NEW b \in Buffers
  PROVE  Places(c, b) = Away(c, b) + (IF b \in mine[c] THEN 1 ELSE 0)
<1> DEFINE front == surf[c].front.buffer
           back == surf[c].back.buffer
           states == {st \in {"front", "back"} : surf[c][st].buffer = b}
<1>1. Cardinality(states) = Held(surf[c], b)
  <2>1. surf[c]["front"].buffer = front /\ surf[c]["back"].buffer = back
    OBVIOUS
  <2>0. Held(surf[c], b) = (IF front = b THEN 1 ELSE 0) + (IF back = b THEN 1 ELSE 0)
    BY DEF Held
  <2> HIDE DEF front, back
  <2>2. CASE front = b /\ back = b
    <3>1. states = {"front"} \cup {"back"}
      BY <2>1, <2>2
    <3>2. /\ IsFiniteSet({"front"}) /\ "back" \notin {"front"}
          /\ Cardinality({"front"}) = 1
      BY FS_Singleton
    <3>3. Cardinality(states) = 2
      <4> DEFINE one == {"front"}
                 other == "back"
      <4>1. /\ IsFiniteSet(one) /\ other \notin one /\ Cardinality(one) = 1
            /\ states = one \cup {other}
        BY <3>1, <3>2
      <4> HIDE DEF states, one, other
      <4>2. Cardinality(one \cup {other}) = Cardinality(one) + 1
        BY ONLY <4>1, FS_AddElement
      <4>3. QED
        BY <4>1, <4>2
    <3>4. QED
      BY <2>0, <2>2, <3>3
  <2>3. CASE front = b /\ back # b
    <3>1. states = {"front"}
      BY <2>1, <2>3
    <3>2. Cardinality(states) = 1
      BY <3>1, FS_Singleton
    <3> HIDE DEF states
    <3>3. Held(surf[c], b) = 1
      BY <2>0, <2>3
    <3>4. QED
      BY <3>2, <3>3
  <2>4. CASE front # b /\ back = b
    <3>1. states = {"back"}
      BY <2>1, <2>4
    <3>2. Cardinality(states) = 1
      BY <3>1, FS_Singleton
    <3> HIDE DEF states
    <3>3. Held(surf[c], b) = 1
      BY <2>0, <2>4
    <3>4. QED
      BY <3>2, <3>3
  <2>5. CASE front # b /\ back # b
    <3>1. states = {}
      BY <2>1, <2>5
    <3>2. Cardinality(states) = 0
      BY <3>1, FS_EmptySet
    <3> HIDE DEF states
    <3>3. Held(surf[c], b) = 0
      BY <2>0, <2>5
    <3>4. QED
      BY <3>2, <3>3
  <2>6. QED
    BY <2>2, <2>3, <2>4, <2>5
<1>2. InFlight(c, "attach", b) = At(requests[c], Attach(b))
  BY FlightsCounted
<1>3. /\ ReleasesIn(outbox[c], b) = At(outbox[c], Release(b))
      /\ ReleasesIn(inbox[c], b) = At(inbox[c], Release(b))
  BY DEF ReleasesIn, At
<1> HIDE DEF states
<1>4. Places(c, b) = Cardinality(InFlight(c, "attach", b)) + Cardinality(states)
        + Cardinality(ReleasesIn(outbox[c], b)) + Cardinality(ReleasesIn(inbox[c], b))
        + (IF b \in mine[c] THEN 1 ELSE 0)
  BY DEF Places, states
<1>5. QED
  BY <1>1, <1>2, <1>3, <1>4 DEF Away, Count

(* All counts are numbers.                                                 *)
LEMMA CountsAreNat ==
  ASSUME TypeOK, NEW c \in Clients, NEW b \in Buffers
  PROVE  /\ Count(requests[c], Attach(b)) \in Nat
         /\ Count(requests[c], Destroy(b)) \in Nat
         /\ Count(outbox[c], Release(b)) \in Nat
         /\ Count(inbox[c], Release(b)) \in Nat
         /\ Held(surf[c], b) \in Nat
         /\ surf[c].front.buffer = b => Held(surf[c], b) >= 1
         /\ surf[c].back.buffer = b => Held(surf[c], b) >= 1
         /\ Away(c, b) \in Nat
         /\ Away(c, b) >= Held(surf[c], b)
         /\ Away(c, b) >= Count(inbox[c], Release(b))
<1>1. /\ requests[c] \in Seq(Request)
      /\ outbox[c] \in Seq(Event) /\ inbox[c] \in Seq(Event)
  BY DEF TypeOK
<1>2. /\ Count(requests[c], Attach(b)) \in Nat
      /\ Count(requests[c], Destroy(b)) \in Nat
      /\ Count(outbox[c], Release(b)) \in Nat
      /\ Count(inbox[c], Release(b)) \in Nat
  BY <1>1, CountIsNat
<1>3. /\ Held(surf[c], b) \in Nat
      /\ surf[c].front.buffer = b => Held(surf[c], b) >= 1
      /\ surf[c].back.buffer = b => Held(surf[c], b) >= 1
  BY DEF Held
<1>4. QED
  BY <1>2, <1>3 DEF Away

(* What the surface of a client holds, the client does not have, and a     *)
(* careful client has not destroyed it.                                    *)
LEMMA HeldIsAway ==
  ASSUME TypeOK, NEW c \in Clients, Counted(c), NEW b \in Buffers,
         b \in {surf[c].front.buffer, surf[c].back.buffer}
  PROVE  /\ b \notin mine[c]
         /\ Gone(c, b) => c \in Careless
<1>1. Away(c, b) \in Nat /\ Away(c, b) >= 1
  <2>1. /\ Away(c, b) \in Nat /\ Held(surf[c], b) \in Nat
        /\ Away(c, b) >= Held(surf[c], b) /\ Held(surf[c], b) >= 1
    BY CountsAreNat
  <2>2. QED
    BY <2>1
<1>2. /\ Gone(c, b) => b \notin mine[c]
      /\ Gone(c, b) => c \in Careless \/ Away(c, b) = 0
      /\ ~ Gone(c, b) => Away(c, b) = IF b \in mine[c] THEN 0 ELSE 1
  BY DEF Counted
<1>3. QED
  BY <1>1, <1>2

-----------------------------------------------------------------------------
(* The invariant is inductive *)

(* At the beginning every buffer is with its client.                       *)
LEMMA InitIInv == Init => IInv
<1> SUFFICES ASSUME Init PROVE IInv
  OBVIOUS
<1>1. NewSurface \in SurfaceObject
  BY DEF NewSurface, EmptyState, SurfaceObject, SurfaceState, NoCallback
<1>2. TypeOK
  <2>1. /\ surf \in [Clients -> SurfaceObject]
    BY <1>1 DEF Init, ServerInit
  <2>2. /\ requests \in [Clients -> Seq(Request)]
        /\ outbox \in [Clients -> Seq(Event)]
        /\ inbox \in [Clients -> Seq(Event)]
    BY DEF Init, ServerInit
  <2>3. QED
    BY <2>1, <2>2 DEF Init, ServerInit, TypeOK
<1>3. ASSUME NEW c \in Clients PROVE Sound(c)
  <2>1. /\ surf[c] = NewSurface /\ requests[c] = <<>>
        /\ outbox[c] = <<>> /\ inbox[c] = <<>>
        /\ freed[c] = {} /\ mine[c] = Buffers /\ ~ wantFlush[c]
    BY DEF Init, ServerInit
  <2>2. /\ surf[c].front.buffer = NoBuffer /\ surf[c].back.buffer = NoBuffer
        /\ surf[c].front.callbackDone = NoCallback
        /\ surf[c].back.callbackDone = NoCallback
    BY <2>1 DEF NewSurface, EmptyState
  <2>3. DOMAIN requests[c] = {}
    BY <2>1
  <2>4. Paired(c)
    BY <2>2, <2>3 DEF Paired
  <2>5. Silent(c)
    BY <2>1, <2>2, <2>3 DEF Silent
  <2>6. ASSUME NEW b \in Buffers PROVE ~ Gone(c, b) /\ Away(c, b) = 0
    <3>1. Held(surf[c], b) = 0
      BY <2>2, NoBufferAssumption DEF Held
    <3>2. \A e : Count(<<>>, e) = 0
      BY CountNone
    <3>3. QED
      BY <2>1, <3>1, <3>2 DEF Gone, Away
  <2>7. Counted(c)
    BY <2>1, <2>6 DEF Counted
  <2>8. QED
    BY <2>4, <2>5, <2>7 DEF Sound
<1>4. QED
  BY <1>2, <1>3 DEF IInv, Init, ServerInit

\* Nothing of client c changes
Untouched(c) ==
  /\ surf'[c] = surf[c] /\ requests'[c] = requests[c]
  /\ outbox'[c] = outbox[c] /\ inbox'[c] = inbox[c]
  /\ wantFlush'[c] = wantFlush[c] /\ freed'[c] = freed[c]
  /\ mine'[c] = mine[c] /\ asked'[c] = asked[c]

(* A client is as sound as it was if nothing of it changes.                *)
LEMMA UntouchedKeeps ==
  ASSUME NEW c \in Clients, Sound(c), Untouched(c)
  PROVE  Sound(c)'
<1>1. Paired(c)'
  BY DEF Untouched, Sound, Paired
<1>2. Silent(c)'
  BY DEF Untouched, Sound, Silent
<1>3. \A b : (Gone(c, b)' <=> Gone(c, b)) /\ Away(c, b)' = Away(c, b)
  BY DEF Untouched, Gone, Away
<1>4. Counted(c)'
  BY <1>3 DEF Untouched, Sound, Counted
<1>5. QED
  BY <1>1, <1>2, <1>4 DEF Sound

(* Buffers that move between the places are still counted.                 *)
LEMMA MovedCounted ==
  ASSUME NEW c \in Clients, Counted(c), mine'[c] = mine[c],
         \A b \in Buffers : (Gone(c, b)' <=> Gone(c, b)) /\ Away(c, b)' = Away(c, b)
  PROVE  Counted(c)'
BY DEF Counted

(* The server uses no freed buffer of a careful client.                    *)
LEMMA FreedOfCareless ==
  ASSUME IInv, NEW c \in Clients, FrontFreed(c)
  PROVE  c \in Careless
<1> DEFINE b == surf[c].front.buffer
<1>1. b \in freed[c] /\ b \in Buffers
  BY DEF FrontFreed, IInv, TypeOK
<1>2. TypeOK /\ Counted(c) /\ Gone(c, b)
  BY <1>1 DEF IInv, Sound, Gone
<1>3. b \in {surf[c].front.buffer, surf[c].back.buffer}
  OBVIOUS
<1> HIDE DEF b
<1>4. QED
  BY <1>1, <1>2, <1>3, HeldIsAway

(* The handler of a request: a buffer moves from the request to mBack,     *)
(* from mFront into a release, or from one state to the other.             *)
LEMMA DispatchKeeps ==
  ASSUME IInv, NEW c \in Clients, DispatchRequest(c), UNCHANGED cycleVars
  PROVE  IInv'
<1> DEFINE q == requests[c]
           r == Head(q)
           t == Tail(q)
           s == surf[c]
           events == HandlerEvents(s, r)
<1>1. TypeOK /\ Sound(c) /\ q # <<>>
  BY DEF IInv, DispatchRequest
<1>2. /\ surf' = [surf EXCEPT ![c] = Handled(s, r)]
      /\ outbox' = [outbox EXCEPT ![c] = @ \o events]
      /\ wantFlush' = [wantFlush EXCEPT ![c] = @ \/ Posted(events)]
      /\ freed' = [freed EXCEPT ![c] =
                      IF r.op = "destroy" THEN @ \cup {r.buffer} ELSE @]
      /\ culprits' = IF UsesFreed(c, r) THEN {c} ELSE {}
      /\ requests' = [requests EXCEPT ![c] = t]
      /\ UNCHANGED <<inbox, mine, asked>>
  BY DEF DispatchRequest, cycleVars
<1>3. /\ q \in Seq(Request) /\ s \in SurfaceObject
      /\ outbox[c] \in Seq(Event) /\ inbox[c] \in Seq(Event)
      /\ freed[c] \subseteq Buffers
  BY <1>1 DEF TypeOK
<1>4. /\ r \in Request /\ t \in Seq(Request)
      /\ \A e : Count(q, e) = Count(t, e) + (IF r = e THEN 1 ELSE 0)
      /\ \A e : Count(t, e) \in Nat
  <2>1. q # <<>> /\ q \in Seq(Request)
    BY <1>1, <1>3
  <2> HIDE DEF q
  <2>2. r \in Request /\ t \in Seq(Request)
        /\ \A e : Count(q, e) = Count(t, e) + (IF r = e THEN 1 ELSE 0)
    BY <2>1, CountTail
  <2> HIDE DEF r, t
  <2>3. \A e : Count(t, e) \in Nat
    BY <2>2, CountIsNat
  <2>4. QED
    BY <2>2, <2>3
<1>5. /\ \A i \in Nat \ {0} : CommitFrom(q, i + 1) => CommitFrom(t, i)
      /\ \A j \in DOMAIN t : j + 1 \in DOMAIN q /\ t[j] = q[j + 1] /\ j \in Nat \ {0}
      /\ 1 \in DOMAIN q /\ r = q[1]
  <2>1. q # <<>> /\ q \in Seq(Request)
    BY <1>1, <1>3
  <2> HIDE DEF q
  <2>2. \A i \in Nat \ {0} :
          /\ CommitFrom(q, i + 1) => CommitFrom(Tail(q), i)
          /\ \A j \in DOMAIN Tail(q) : j + 1 \in DOMAIN q /\ Tail(q)[j] = q[j + 1]
          /\ DOMAIN Tail(q) \subseteq Nat \ {0}
          /\ 1 \in DOMAIN q /\ Head(q) = q[1]
    BY <2>1, CommitNearer
  <2>3. 1 \in Nat \ {0}
    OBVIOUS
  <2>4. QED
    BY <2>2, <2>3
<1>6. /\ \A i \in DOMAIN q : q[i].op = "attach" => CommitFrom(q, i + 1)
      /\ s.back.buffer # NoBuffer => CommitFrom(q, 1)
  BY <1>1 DEF Sound, Paired
<1>7. CommitFrom(q, 1) => r.op \in {"commit", "frame"}
                          /\ (r.op = "frame" => CommitFrom(t, 1))
  <2>1. ASSUME CommitFrom(q, 1), r.op # "commit"
        PROVE  r.op = "frame" /\ CommitFrom(t, 1)
    <3>1. r.op = "frame" /\ 2 \in DOMAIN q /\ q[2].op = "commit"
      BY <1>5, <2>1 DEF CommitFrom
    <3>2. CommitFrom(q, 2)
      BY <3>1 DEF CommitFrom
    <3>3. 1 \in Nat \ {0} /\ 1 + 1 = 2
      OBVIOUS
    <3> HIDE DEF q, t, r
    <3>4. CommitFrom(t, 1)
      BY <1>5, <3>2, <3>3
    <3>5. QED
      BY <3>1, <3>4
  <2>2. QED
    BY <2>1
<1>8. r.op = "attach" => CommitFrom(t, 1)
  <2>1. ASSUME r.op = "attach" PROVE CommitFrom(q, 1 + 1)
    BY <1>5, <1>6, <2>1
  <2>2. 1 \in Nat \ {0}
    OBVIOUS
  <2> HIDE DEF q, t, r
  <2>3. QED
    BY <1>5, <2>1, <2>2
<1> DEFINE n == Handled(s, r)
\* Each handler leaves the surface as n, puts events into the outbox, and
\* moves the buffer of the request if there is one
<1>9. /\ n \in SurfaceObject /\ events \in Seq(Event)
      /\ n.back.buffer # NoBuffer => CommitFrom(t, 1)
      /\ \A b \in Buffers :
           Held(n, b) + Count(events, Release(b))
             = Held(s, b) + (IF r = Attach(b) THEN 1 ELSE 0)
      /\ r.op # "frame" /\ s.front.callbackDone = NoCallback
           /\ s.back.callbackDone = NoCallback =>
           /\ n.front.callbackDone = NoCallback
           /\ n.back.callbackDone = NoCallback
           /\ ~ Posted(events)
  <2>1. ASSUME r.op # "commit"
        PROVE  /\ events = <<>> /\ <<>> \in Seq(Event) /\ ~ Posted(events)
               /\ \A b \in Buffers : Count(events, Release(b)) = 0
    <3>1. events = <<>>
      BY <2>1 DEF HandlerEvents
    <3>2. ~ Posted(<<>>)
      BY DEF Posted
    <3>3. QED
      BY <3>1, <3>2, CountNone
  <2>2. \A b : /\ Held(s, b) \in Nat /\ Held(n, b) \in Nat
               /\ r = Attach(b) => r.op = "attach" /\ r.buffer = b
    BY DEF Held, Attach
  <2>3. CASE r.op = "attach"
    <3>1. r = Attach(r.buffer) /\ r.buffer \in Buffers
      BY <1>4, <2>3 DEF Request, Attach
    <3>2. s.back.buffer = NoBuffer
      BY <1>6, <1>7, <2>3
    <3>3. n = Attached(s, r.buffer, 0)
      BY <2>3 DEF Handled
    <3>4. PICK x \in Int : x = 0
      OBVIOUS
    <3> DEFINE b0 == r.buffer
    <3>5. b0 \in Buffers /\ r = Attach(b0) /\ n = Attached(s, b0, x)
      BY <3>1, <3>3, <3>4
    <3> HIDE DEF b0, n, events, q, s, r, t
    <3>6. LET u == Attached(s, b0, x)
          IN  /\ u \in SurfaceObject
              /\ u.front = s.front /\ u.back.buffer = b0
              /\ u.back.callbackDone = s.back.callbackDone
              /\ s.back.buffer = NoBuffer =>
                   \A a \in Buffers : Held(u, a) = Held(s, a) + (IF a = b0 THEN 1 ELSE 0)
      <4>1. s \in SurfaceObject /\ b0 \in Buffers /\ x \in Int
        BY <1>3, <3>5
      <4>2. QED
        BY ONLY <4>1, AttachHandled
    <3>7. /\ n \in SurfaceObject
          /\ n.front = s.front
          /\ n.back.callbackDone = s.back.callbackDone
          /\ \A a \in Buffers : Held(n, a) = Held(s, a) + (IF a = b0 THEN 1 ELSE 0)
      BY <3>2, <3>5, <3>6
    <3>8. \A a \in Buffers : r = Attach(a) <=> a = b0
      BY <3>5 DEF Attach
    <3>9. ASSUME NEW b \in Buffers
          PROVE Held(n, b) + Count(events, Release(b))
                  = Held(s, b) + (IF r = Attach(b) THEN 1 ELSE 0)
      <4>1. Count(events, Release(b)) = 0
        BY <2>1, <2>3
      <4>2. Held(n, b) = Held(s, b) + (IF r = Attach(b) THEN 1 ELSE 0)
        BY <3>7, <3>8
      <4>3. Held(n, b) \in Nat
        BY <2>2
      <4>4. QED
        BY <4>1, <4>2, <4>3
    <3>10. QED
      BY <1>8, <2>1, <2>3, <3>7, <3>9
  <2>4. CASE r.op = "frame"
    <3>1. n = Framed(s, r.callback)
      BY <2>4 DEF Handled
    <3>2. r.callback \in Nat
      BY <1>4, <2>4 DEF Request
    <3> HIDE DEF n, events, q, r, s
    <3>3. /\ n \in SurfaceObject
          /\ n.front = s.front /\ n.back.buffer = s.back.buffer
          /\ \A a : Held(n, a) = Held(s, a)
      BY <1>3, <3>1, <3>2, FrameHandled
    <3>4. ASSUME NEW b \in Buffers
          PROVE Held(n, b) + Count(events, Release(b))
                  = Held(s, b) + (IF r = Attach(b) THEN 1 ELSE 0)
      <4>1. Count(events, Release(b)) = 0 /\ r # Attach(b)
        BY <2>1, <2>2, <2>4
      <4>2. Held(n, b) = Held(s, b) /\ Held(s, b) \in Nat
        BY <2>2, <3>3
      <4>3. QED
        BY <4>1, <4>2
    <3>5. n.back.buffer # NoBuffer => CommitFrom(t, 1)
      BY <1>6, <1>7, <2>4, <3>3
    <3>6. QED
      BY <2>1, <2>4, <3>3, <3>4, <3>5
  <2>5. CASE r.op = "commit"
    <3>1. n = Committed(s) /\ events = CommitEvents(s)
      BY <2>5 DEF Handled, HandlerEvents
    <3>2. \A b : r # Attach(b)
      BY <2>2, <2>5
    <3> HIDE DEF n, events, q, r, s
    <3>3. /\ n \in SurfaceObject /\ events \in Seq(Event)
          /\ n.back.buffer = NoBuffer
          /\ \A b \in Buffers :
               Held(n, b) + Count(events, Release(b)) = Held(s, b)
          /\ s.front.callbackDone = NoCallback /\ s.back.callbackDone = NoCallback =>
               /\ n.front.callbackDone = NoCallback
               /\ n.back.callbackDone = NoCallback
               /\ ~ Posted(events)
      BY <1>3, <3>1, CommitHandled
    <3>4. ASSUME NEW b \in Buffers
          PROVE Held(n, b) + Count(events, Release(b))
                  = Held(s, b) + (IF r = Attach(b) THEN 1 ELSE 0)
      BY <2>2, <3>2, <3>3
    <3>5. QED
      BY <3>3, <3>4
  <2>6. CASE r.op = "destroy"
    <3>1. n = s
      BY <2>6 DEF Handled
    <3>2. s.back.buffer = NoBuffer
      BY <1>6, <1>7, <2>6
    <3> HIDE DEF n, events, q, r, s
    <3>3. ASSUME NEW b \in Buffers
          PROVE Held(n, b) + Count(events, Release(b))
                  = Held(s, b) + (IF r = Attach(b) THEN 1 ELSE 0)
      <4>1. Count(events, Release(b)) = 0 /\ r # Attach(b)
        BY <2>1, <2>2, <2>6
      <4>2. QED
        BY <2>2, <3>1, <4>1
    <3>4. QED
      BY <1>3, <2>1, <2>6, <3>1, <3>2, <3>3
  <2>7. r.op \in {"attach", "frame", "commit", "destroy"}
    BY <1>4 DEF Request
  <2>8. QED
    BY <2>3, <2>4, <2>5, <2>6, <2>7
<1> HIDE DEF n, events, q, r, s, t
<1>10. /\ outbox[c] \o events \in Seq(Event)
       /\ \A e : Count(outbox[c] \o events, e) = Count(outbox[c], e) + Count(events, e)
  BY <1>3, <1>9, CountConcat
<1>11. /\ surf'[c] = n /\ requests'[c] = t /\ outbox'[c] = outbox[c] \o events
       /\ inbox'[c] = inbox[c] /\ mine'[c] = mine[c] /\ asked'[c] = asked[c]
       /\ wantFlush'[c] = (wantFlush[c] \/ Posted(events))
       /\ freed'[c] = IF r.op = "destroy" THEN freed[c] \cup {r.buffer} ELSE freed[c]
  BY <1>1, <1>2 DEF TypeOK, n
<1>12. r.op = "destroy" => r.buffer \in Buffers /\ r = Destroy(r.buffer)
  BY <1>4 DEF Request, Destroy
<1>13. TypeOK'
  <2>1. freed' \in [Clients -> SUBSET Buffers]
    BY <1>1, <1>2, <1>12 DEF TypeOK
  <2>2. wantFlush' \in [Clients -> BOOLEAN]
    <3>1. (wantFlush[c] \/ Posted(events)) \in BOOLEAN
      OBVIOUS
    <3>2. QED
      BY <1>1, <1>2, <3>1 DEF TypeOK
  <2>3. surf' \in [Clients -> SurfaceObject]
    BY <1>1, <1>2, <1>9 DEF TypeOK, n
  <2>4. QED
    BY <1>1, <1>2, <1>4, <1>10, <2>1, <2>2, <2>3 DEF TypeOK
<1>14. ASSUME NEW d \in Clients, d # c PROVE Sound(d)'
  <2>1. Untouched(d)
    BY <1>1, <1>2, <1>14 DEF TypeOK, Untouched
  <2>2. Sound(d)
    BY DEF IInv
  <2>3. QED
    BY <2>1, <2>2, UntouchedKeeps
<1>15. Paired(c)'
  <2>1. ASSUME NEW i \in DOMAIN t, t[i].op = "attach" PROVE CommitFrom(t, i + 1)
    <3>1. i \in Nat \ {0} /\ i + 1 \in DOMAIN q /\ q[i + 1].op = "attach"
      BY <1>5, <2>1
    <3>2. CommitFrom(q, (i + 1) + 1) /\ i + 1 \in Nat \ {0}
      BY <1>6, <3>1
    <3>3. QED
      BY <1>5, <3>2
  <2>2. QED
    BY <1>9, <1>11, <2>1 DEF Paired
<1>16. Counted(c)'
  <2>1. ASSUME NEW b \in Buffers PROVE Gone(c, b)' <=> Gone(c, b)
    <3>1. /\ Count(q, Destroy(b)) = Count(t, Destroy(b)) + (IF r = Destroy(b) THEN 1 ELSE 0)
          /\ Count(t, Destroy(b)) \in Nat
      BY <1>4
    <3>2. r = Destroy(b) <=> r.op = "destroy" /\ r.buffer = b
      BY <1>12 DEF Destroy
    <3>3. Gone(c, b)' <=> b \in freed'[c] \/ Count(t, Destroy(b)) # 0
      BY <1>11 DEF Gone
    <3>4. Gone(c, b) <=> b \in freed[c] \/ Count(q, Destroy(b)) # 0
      BY DEF Gone, q
    <3>5. b \in freed'[c] <=> b \in freed[c] \/ r = Destroy(b)
      BY <1>11, <3>2
    <3>6. Count(q, Destroy(b)) # 0 <=> Count(t, Destroy(b)) # 0 \/ r = Destroy(b)
      BY <3>1
    <3>7. QED
      BY <3>3, <3>4, <3>5, <3>6
  <2>2. ASSUME NEW b \in Buffers PROVE Away(c, b)' = Away(c, b)
    <3>1. /\ Count(q, Attach(b)) = Count(t, Attach(b)) + (IF r = Attach(b) THEN 1 ELSE 0)
          /\ Count(t, Attach(b)) \in Nat
      BY <1>4
    <3>2. Count(outbox[c] \o events, Release(b))
            = Count(outbox[c], Release(b)) + Count(events, Release(b))
      BY <1>10
    <3>3. Held(n, b) + Count(events, Release(b))
            = Held(s, b) + (IF r = Attach(b) THEN 1 ELSE 0)
      BY <1>9
    <3>4. /\ Count(outbox[c], Release(b)) \in Nat /\ Count(inbox[c], Release(b)) \in Nat
          /\ Count(events, Release(b)) \in Nat
      BY <1>3, <1>9, CountIsNat
    <3>5. Held(n, b) \in Nat /\ Held(s, b) \in Nat
      BY DEF Held
    <3>6. Away(c, b)' = Count(t, Attach(b)) + Held(n, b)
                        + Count(outbox[c] \o events, Release(b))
                        + Count(inbox[c], Release(b))
      BY <1>11 DEF Away
    <3>7. Away(c, b) = Count(q, Attach(b)) + Held(s, b)
                       + Count(outbox[c], Release(b)) + Count(inbox[c], Release(b))
      BY DEF Away, q, s
    <3>8. QED
      BY <3>1, <3>2, <3>3, <3>4, <3>5, <3>6, <3>7
  <2>3. QED
    BY <1>1, <1>11, <2>1, <2>2, MovedCounted DEF Sound
<1>17. Silent(c)'
  <2>1. SUFFICES ASSUME ~ asked[c]
                 PROVE  /\ inbox'[c] = <<>> /\ ~ wantFlush'[c]
                        /\ \A i \in DOMAIN requests'[c] : requests'[c][i].op # "frame"
                        /\ surf'[c].front.callbackDone = NoCallback
                        /\ surf'[c].back.callbackDone = NoCallback
    BY <1>11 DEF Silent
  <2>2. /\ inbox[c] = <<>> /\ ~ wantFlush[c]
        /\ \A i \in DOMAIN q : q[i].op # "frame"
        /\ s.front.callbackDone = NoCallback /\ s.back.callbackDone = NoCallback
    BY <1>1, <2>1 DEF Sound, Silent, q, s
  <2>3. r.op # "frame"
    BY <1>5, <2>2
  <2>4. \A i \in DOMAIN t : t[i].op # "frame"
    BY <1>5, <2>2
  <2>5. QED
    BY <1>9, <1>11, <2>2, <2>3, <2>4
<1>18. culprits' \subseteq Careless
  <2>1. ASSUME UsesFreed(c, r) PROVE c \in Careless
    BY <2>1, FreedOfCareless DEF UsesFreed
  <2>2. QED
    BY <1>2, <2>1
<1>19. QED
  BY <1>13, <1>14, <1>15, <1>16, <1>17, <1>18 DEF IInv, Sound

(* A repaint takes no buffer from its place: it only answers callbacks.    *)
LEMMA RepaintKeeps ==
  ASSUME IInv, Repaint, UNCHANGED cycleVars
  PROVE  IInv'
<1>1. TypeOK
  BY DEF IInv
<1>2. UNCHANGED <<requests, inbox, freed, mine, asked>>
  BY DEF Repaint, cycleVars
<1>3. ASSUME NEW c \in Clients
      PROVE  /\ surf[c] \in SurfaceObject /\ outbox[c] \in Seq(Event)
             /\ surf'[c] = Painted(surf[c])
             /\ outbox'[c] = outbox[c] \o PaintEvents(surf[c])
             /\ wantFlush'[c] = (wantFlush[c] \/ Posted(PaintEvents(surf[c])))
  BY <1>1 DEF TypeOK, Repaint
<1>4. ASSUME NEW c \in Clients
      PROVE  /\ surf'[c] \in SurfaceObject /\ outbox'[c] \in Seq(Event)
             /\ surf'[c].back = surf[c].back
             /\ \A b : Held(surf'[c], b) = Held(surf[c], b)
             /\ \A b \in Buffers :
                  Count(outbox'[c], Release(b)) = Count(outbox[c], Release(b))
             /\ surf[c].front.callbackDone = NoCallback =>
                  /\ surf'[c].front.callbackDone = NoCallback
                  /\ ~ Posted(PaintEvents(surf[c]))
  <2> DEFINE s == surf[c]
             n == Painted(s)
             events == PaintEvents(s)
             o == outbox[c]
  <2>1. s \in SurfaceObject /\ o \in Seq(Event)
    BY <1>3
  <2> HIDE DEF s, o
  <2>2. /\ n \in SurfaceObject /\ events \in Seq(Event)
        /\ n.back = s.back
        /\ \A b : Held(n, b) = Held(s, b) /\ Count(events, Release(b)) = 0
        /\ s.front.callbackDone = NoCallback =>
             n.front.callbackDone = NoCallback /\ events = <<>>
    BY <2>1, PaintHandled
  <2> HIDE DEF n, events
  <2>3. /\ o \o events \in Seq(Event)
        /\ \A e : Count(o \o events, e) = Count(o, e) + Count(events, e)
    BY <2>1, <2>2, CountConcat
  <2>4. \A e : Count(o, e) \in Nat
    BY <2>1, CountIsNat
  <2>5. \A b \in Buffers : Count(o \o events, Release(b)) = Count(o, Release(b))
    BY <2>2, <2>3, <2>4
  <2>6. ~ Posted(<<>>)
    BY DEF Posted
  <2>7. surf'[c] = n /\ outbox'[c] = o \o events /\ s = surf[c] /\ o = outbox[c]
        /\ events = PaintEvents(surf[c])
    BY <1>3 DEF s, o, n, events
  <2>8. QED
    BY <2>2, <2>3, <2>5, <2>6, <2>7
<1>5. TypeOK'
  <2>1. surf' \in [Clients -> SurfaceObject]
    BY <1>3, <1>4 DEF Repaint
  <2>2. outbox' \in [Clients -> Seq(Event)]
    BY <1>3, <1>4 DEF Repaint
  <2>3. wantFlush' \in [Clients -> BOOLEAN]
    <3>1. \A c \in Clients : (wantFlush[c] \/ Posted(PaintEvents(surf[c]))) \in BOOLEAN
      OBVIOUS
    <3>2. QED
      BY <3>1 DEF Repaint
  <2>4. QED
    BY <1>1, <1>2, <2>1, <2>2, <2>3 DEF TypeOK
<1>6. ASSUME NEW c \in Clients PROVE Sound(c)'
  <2>1. Sound(c)
    BY DEF IInv
  <2>2. Paired(c)'
    BY <1>2, <1>4, <2>1 DEF Sound, Paired
  <2>3. Counted(c)'
    <3>1. \A b \in Buffers : Gone(c, b)' <=> Gone(c, b)
      BY <1>2 DEF Gone
    <3>2. \A b \in Buffers : Away(c, b)' = Away(c, b)
      BY <1>2, <1>4 DEF Away
    <3>3. QED
      BY <1>2, <2>1, <3>1, <3>2, MovedCounted DEF Sound
  <2>4. Silent(c)'
    BY <1>2, <1>3, <1>4, <2>1 DEF Sound, Silent
  <2>5. QED
    BY <2>2, <2>3, <2>4 DEF Sound
<1>7. culprits' \subseteq Careless
  BY FreedOfCareless DEF Repaint, ReadsFreed
<1>8. QED
  BY <1>5, <1>6, <1>7 DEF IInv

(* A flush moves releases from the server's buffer to the client's.        *)
LEMMA FlushKeeps ==
  ASSUME IInv, FlushClients, UNCHANGED cycleVars
  PROVE  IInv'
<1>1. TypeOK
  BY DEF IInv
<1>2. UNCHANGED <<surf, requests, freed, culprits, mine, asked>>
  BY DEF FlushClients, cycleVars, bufferVars
<1>3. ASSUME NEW c \in Clients
      PROVE  /\ outbox[c] \in Seq(Event) /\ inbox[c] \in Seq(Event)
             /\ inbox'[c] = IF wantFlush[c] THEN inbox[c] \o outbox[c] ELSE inbox[c]
             /\ outbox'[c] = IF wantFlush[c] THEN <<>> ELSE outbox[c]
             /\ ~ wantFlush'[c]
  BY <1>1 DEF TypeOK, FlushClients
<1>4. ASSUME NEW c \in Clients
      PROVE  /\ outbox'[c] \in Seq(Event) /\ inbox'[c] \in Seq(Event)
             /\ \A b \in Buffers :
                  Count(outbox'[c], Release(b)) + Count(inbox'[c], Release(b))
                    = Count(outbox[c], Release(b)) + Count(inbox[c], Release(b))
             /\ \A b \in Buffers : /\ Count(outbox'[c], Release(b)) \in Nat
                                   /\ Count(inbox'[c], Release(b)) \in Nat
                                   /\ Count(outbox[c], Release(b)) \in Nat
                                   /\ Count(inbox[c], Release(b)) \in Nat
  <2> DEFINE i == inbox[c]
             o == outbox[c]
  <2>1. i \in Seq(Event) /\ o \in Seq(Event)
    BY <1>3
  <2>2. CASE ~ wantFlush[c]
    <3>1. inbox'[c] = inbox[c] /\ outbox'[c] = outbox[c]
      BY <1>3, <2>2
    <3>2. \A e : Count(outbox[c], e) \in Nat /\ Count(inbox[c], e) \in Nat
      BY <1>3, CountIsNat
    <3>3. QED
      BY <1>3, <3>1, <3>2
  <2>3. CASE wantFlush[c]
    <3>1. inbox'[c] = i \o o /\ outbox'[c] = <<>>
      BY <1>3, <2>3
    <3> HIDE DEF i, o
    <3>2. /\ i \o o \in Seq(Event)
          /\ \A e : Count(i \o o, e) = Count(i, e) + Count(o, e)
          /\ \A e : Count(i, e) \in Nat /\ Count(o, e) \in Nat
      BY <2>1, CountConcat, CountIsNat
    <3>3. /\ <<>> \in Seq(Event)
          /\ \A e : Count(<<>>, e) = 0
      BY CountNone
    <3>4. \A e : /\ Count(outbox'[c], e) = 0
                 /\ Count(inbox'[c], e) = Count(i, e) + Count(o, e)
      BY <3>1, <3>2, <3>3
    <3>5. QED
      BY <3>1, <3>2, <3>3, <3>4 DEF i, o
  <2>4. QED
    BY <2>2, <2>3
<1>5. TypeOK'
  <2>1. outbox' \in [Clients -> Seq(Event)]
    BY <1>3, <1>4 DEF FlushClients
  <2>2. inbox' \in [Clients -> Seq(Event)]
    BY <1>3, <1>4 DEF FlushClients
  <2>3. wantFlush' \in [Clients -> BOOLEAN]
    BY DEF FlushClients
  <2>4. QED
    BY <1>1, <1>2, <2>1, <2>2, <2>3 DEF TypeOK
<1>6. ASSUME NEW c \in Clients PROVE Sound(c)'
  <2>1. Sound(c)
    BY DEF IInv
  <2>2. Paired(c)'
    BY <1>2, <2>1 DEF Sound, Paired
  <2>3. Counted(c)'
    <3>1. \A b \in Buffers : Gone(c, b)' <=> Gone(c, b)
      BY <1>2 DEF Gone
    <3>2. ASSUME NEW b \in Buffers PROVE Away(c, b)' = Away(c, b)
      <4>1. /\ Count(requests[c], Attach(b)) \in Nat /\ Held(surf[c], b) \in Nat
        BY <1>1, CountsAreNat
      <4>2. Away(c, b)' = Count(requests[c], Attach(b)) + Held(surf[c], b)
                          + Count(outbox'[c], Release(b)) + Count(inbox'[c], Release(b))
        BY <1>2 DEF Away
      <4>3. Away(c, b) = Count(requests[c], Attach(b)) + Held(surf[c], b)
                         + Count(outbox[c], Release(b)) + Count(inbox[c], Release(b))
        BY DEF Away
      <4>4. /\ Count(outbox'[c], Release(b)) + Count(inbox'[c], Release(b))
                 = Count(outbox[c], Release(b)) + Count(inbox[c], Release(b))
            /\ Count(outbox'[c], Release(b)) \in Nat
            /\ Count(inbox'[c], Release(b)) \in Nat
            /\ Count(outbox[c], Release(b)) \in Nat
            /\ Count(inbox[c], Release(b)) \in Nat
        BY <1>4
      <4>5. QED
        BY <4>1, <4>2, <4>3, <4>4
    <3>3. QED
      BY <1>2, <2>1, <3>1, <3>2, MovedCounted DEF Sound
  <2>4. Silent(c)'
    BY <1>2, <1>3, <2>1 DEF Sound, Silent
  <2>5. QED
    BY <2>2, <2>3, <2>4 DEF Sound
<1>7. QED
  BY <1>2, <1>5, <1>6 DEF IInv

(* Requests stay paired when paired requests are sent behind them.         *)
LEMMA PairedStays ==
  ASSUME NEW s \in Seq(Request), NEW t \in Seq(Request),
         \A i \in DOMAIN s : s[i].op = "attach" => CommitFrom(s, i + 1),
         \A i \in DOMAIN t : t[i].op = "attach" => CommitFrom(t, i + 1)
  PROVE  /\ \A i \in DOMAIN (s \o t) :
              (s \o t)[i].op = "attach" => CommitFrom(s \o t, i + 1)
         /\ \A i \in DOMAIN (s \o t) :
              (\E j \in DOMAIN s : (s \o t)[i] = s[j])
              \/ (\E j \in DOMAIN t : (s \o t)[i] = t[j])
<1> DEFINE n == Len(s)
           u == s \o t
<1>1. /\ n \in Nat /\ Len(t) \in Nat
      /\ DOMAIN s = 1 .. n /\ DOMAIN t = 1 .. Len(t)
      /\ DOMAIN u = 1 .. n + Len(t)
      /\ \A i \in 1 .. n : u[i] = s[i]
      /\ \A i \in n + 1 .. n + Len(t) : u[i] = t[i - n]
  BY ConcatProperties, LenProperties
<1>2. \A j \in DOMAIN t : j + n \in DOMAIN u /\ u[j + n] = t[j]
  <2> HIDE DEF n, u
  <2>1. ASSUME NEW j \in DOMAIN t PROVE j + n \in n + 1 .. n + Len(t) /\ (j + n) - n = j
    BY <1>1
  <2>2. \A i \in n + 1 .. n + Len(t) : i \in 1 .. n + Len(t)
    BY <1>1
  <2>3. QED
    BY <1>1, <2>1, <2>2
<1>3. \A i \in DOMAIN u : i \in DOMAIN s \/ (i - n \in DOMAIN t /\ u[i] = t[i - n])
  <2> HIDE DEF n, u
  <2>1. QED
    BY <1>1
<1>4. ASSUME NEW i \in Nat, CommitFrom(t, i) PROVE CommitFrom(u, i + n)
  <2> HIDE DEF n, u
  <2>1. i \in DOMAIN t /\ i + n \in DOMAIN u /\ u[i + n] = t[i]
    BY <1>2, <1>4 DEF CommitFrom
  <2>2. CASE t[i].op = "commit"
    BY <2>1, <2>2 DEF CommitFrom
  <2>3. CASE t[i].op # "commit"
    <3>1. t[i].op = "frame" /\ i + 1 \in DOMAIN t /\ t[i + 1].op = "commit"
      BY <1>4, <2>3 DEF CommitFrom
    <3>2. (i + 1) + n \in DOMAIN u /\ u[(i + 1) + n] = t[i + 1]
      BY <1>2, <3>1
    <3>3. (i + 1) + n = (i + n) + 1
      BY <1>1
    <3>4. (i + n) + 1 \in DOMAIN u /\ u[(i + n) + 1].op = "commit"
      BY <3>1, <3>2, <3>3
    <3>5. QED
      BY <2>1, <3>1, <3>4 DEF CommitFrom
  <2>4. QED
    BY <2>2, <2>3
<1>5. ASSUME NEW i \in DOMAIN u, u[i].op = "attach" PROVE CommitFrom(u, i + 1)
  <2>1. CASE i \in DOMAIN s
    <3>1. CommitFrom(s, i + 1)
      BY <1>1, <1>5, <2>1
    <3>2. QED
      BY <3>1, CommitStays
  <2>2. CASE i \notin DOMAIN s
    <3> HIDE DEF n, u
    <3>1. i - n \in DOMAIN t /\ u[i] = t[i - n]
      BY <1>3, <2>2
    <3>2. CommitFrom(t, (i - n) + 1)
      BY <1>5, <3>1
    <3>3. (i - n) + 1 \in Nat /\ ((i - n) + 1) + n = i + 1
      BY <1>1, <3>1
    <3>4. QED
      BY <1>4, <3>2, <3>3
  <2>3. QED
    BY <2>1, <2>2
<1>6. QED
  BY <1>1, <1>3, <1>5

(* A buffer that is drawn and committed goes from its client into the      *)
(* requests.                                                               *)
LEMMA DrawAndCommitKeeps ==
  ASSUME IInv, NEW c \in Clients, NEW b \in Buffers, NEW cb \in Callbacks[c],
         DrawAndCommit(c, b, cb)
  PROVE  IInv'
<1> DEFINE q == requests[c]
           w == SubmitRequests(b, cb)
<1>1. TypeOK /\ Sound(c)
  BY DEF IInv
<1>2. cb \in Nat
  BY CycleAssumption DEF NoCallback
<1>3. /\ requests' = [requests EXCEPT ![c] = q \o w]
      /\ mine' = [mine EXCEPT ![c] = @ \ {b}]
      /\ asked' = [asked EXCEPT ![c] = @ \/ cb # NoCallback]
      /\ b \in mine[c]
      /\ UNCHANGED <<surf, outbox, wantFlush, inbox, freed, culprits>>
  BY DEF DrawAndCommit, Submit, bufferVars
<1>4. q \in Seq(Request)
  BY <1>1 DEF TypeOK
<1>5. /\ w \in Seq(Request)
      /\ \A i \in DOMAIN w : w[i].op = "attach" => CommitFrom(w, i + 1)
      /\ \A a \in Buffers : /\ Count(w, Attach(a)) = IF a = b THEN 1 ELSE 0
                            /\ Count(w, Destroy(a)) = 0
      /\ cb = NoCallback => \A i \in DOMAIN w : w[i].op # "frame"
  BY <1>2, Submission
<1>6. /\ \A i \in DOMAIN q : q[i].op = "attach" => CommitFrom(q, i + 1)
      /\ surf[c].back.buffer # NoBuffer => CommitFrom(q, 1)
  BY <1>1 DEF Sound, Paired
<1>7. /\ mine'[c] = mine[c] \ {b}
      /\ asked'[c] = (asked[c] \/ cb # NoCallback)
      /\ requests'[c] = q \o w
  BY <1>1, <1>3 DEF TypeOK
<1> HIDE DEF w, q
<1>8. /\ q \o w \in Seq(Request)
      /\ \A e : Count(q \o w, e) = Count(q, e) + Count(w, e)
      /\ \A e : Count(q, e) \in Nat
  <2>1. q \in Seq(Request) /\ w \in Seq(Request)
    BY <1>4, <1>5
  <2>2. /\ q \o w \in Seq(Request)
        /\ \A e : Count(q \o w, e) = Count(q, e) + Count(w, e)
    BY ONLY <2>1, CountConcat
  <2>3. \A e : Count(q, e) \in Nat
    BY ONLY <2>1, CountIsNat
  <2>4. QED
    BY <2>2, <2>3
<1>9. /\ \A i \in DOMAIN (q \o w) :
           (q \o w)[i].op = "attach" => CommitFrom(q \o w, i + 1)
      /\ \A i \in DOMAIN (q \o w) : \/ \E j \in DOMAIN q : (q \o w)[i] = q[j]
                                    \/ \E j \in DOMAIN w : (q \o w)[i] = w[j]
  BY <1>4, <1>5, <1>6, PairedStays
<1>10. surf[c].back.buffer # NoBuffer => CommitFrom(q \o w, 1)
  BY <1>4, <1>5, <1>6, CommitStays
<1>11. TypeOK'
  <2>1. requests' \in [Clients -> Seq(Request)]
    BY <1>1, <1>3, <1>8 DEF TypeOK
  <2>2. mine' \in [Clients -> SUBSET Buffers]
    BY <1>1, <1>3 DEF TypeOK
  <2>3. asked' \in [Clients -> BOOLEAN]
    <3>1. (asked[c] \/ cb # NoCallback) \in BOOLEAN
      OBVIOUS
    <3>2. QED
      BY <1>1, <1>3, <3>1 DEF TypeOK
  <2>4. QED
    BY <1>1, <1>3, <2>1, <2>2, <2>3 DEF TypeOK
<1>12. ASSUME NEW d \in Clients, d # c PROVE Sound(d)'
  <2>1. Untouched(d)
    BY <1>1, <1>3, <1>12 DEF TypeOK, Untouched
  <2>2. Sound(d)
    BY DEF IInv
  <2>3. QED
    BY <2>1, <2>2, UntouchedKeeps
<1>13. Paired(c)'
  BY <1>3, <1>7, <1>9, <1>10 DEF Paired
<1>14. Counted(c)'
  <2>1. ASSUME NEW a \in Buffers PROVE Gone(c, a)' <=> Gone(c, a)
    <3>1. Count(q \o w, Destroy(a)) = Count(q, Destroy(a)) + Count(w, Destroy(a))
          /\ Count(w, Destroy(a)) = 0 /\ Count(q, Destroy(a)) \in Nat
      BY <1>5, <1>8
    <3>2. Count(q \o w, Destroy(a)) = Count(q, Destroy(a))
      BY <3>1
    <3>3. QED
      BY <1>3, <1>7, <3>2 DEF Gone, q
  <2>2. ASSUME NEW a \in Buffers
        PROVE  Away(c, a)' = Away(c, a) + (IF a = b THEN 1 ELSE 0)
    <3>1. Count(q \o w, Attach(a)) = Count(q, Attach(a)) + Count(w, Attach(a))
          /\ Count(w, Attach(a)) = (IF a = b THEN 1 ELSE 0) /\ Count(q, Attach(a)) \in Nat
      BY <1>5, <1>8
    <3>2. /\ Held(surf[c], a) \in Nat /\ Count(outbox[c], Release(a)) \in Nat
          /\ Count(inbox[c], Release(a)) \in Nat
      BY <1>1, CountsAreNat
    <3>3. Away(c, a)' = Count(q \o w, Attach(a)) + Held(surf[c], a)
                        + Count(outbox[c], Release(a)) + Count(inbox[c], Release(a))
      BY <1>3, <1>7 DEF Away
    <3>4. Away(c, a) = Count(q, Attach(a)) + Held(surf[c], a)
                       + Count(outbox[c], Release(a)) + Count(inbox[c], Release(a))
      BY DEF Away, q
    <3>5. QED
      BY <3>1, <3>2, <3>3, <3>4
  <2>3. ~ Gone(c, b) /\ Away(c, b) = 0
    BY <1>1, <1>3 DEF Sound, Counted
  <2>4. ASSUME NEW a \in Buffers
        PROVE  /\ Gone(c, a) => a \notin mine[c]
               /\ Gone(c, a) => c \in Careless \/ Away(c, a) = 0
               /\ ~ Gone(c, a) => Away(c, a) = IF a \in mine[c] THEN 0 ELSE 1
    BY <1>1 DEF Sound, Counted
  <2>5. ASSUME NEW a \in Buffers
        PROVE  /\ Gone(c, a)' => a \notin mine'[c]
               /\ Gone(c, a)' => c \in Careless \/ Away(c, a)' = 0
               /\ ~ Gone(c, a)' => Away(c, a)' = IF a \in mine'[c] THEN 0 ELSE 1
    <3>1. CASE a = b
      <4>1. ~ Gone(c, a)' /\ a \notin mine'[c]
        BY <1>7, <2>1, <2>3, <3>1
      <4>2. Away(c, a)' = 1
        BY <2>2, <2>3, <3>1
      <4>3. QED
        BY <4>1, <4>2
    <3>2. CASE a # b
      <4>1. Away(c, a) \in Nat
        BY <1>1, CountsAreNat
      <4>2. Away(c, a)' = Away(c, a)
        BY <2>2, <3>2, <4>1
      <4>3. a \in mine'[c] <=> a \in mine[c]
        BY <1>7, <3>2
      <4>4. QED
        BY <2>1, <2>4, <4>2, <4>3
    <3>3. QED
      BY <3>1, <3>2
  <2>6. QED
    BY <2>5 DEF Counted
<1>15. Silent(c)'
  <2>1. ASSUME ~ asked'[c]
        PROVE  /\ ~ asked[c] /\ \A i \in DOMAIN w : w[i].op # "frame"
    BY <1>5, <1>7, <2>1
  <2>2. ASSUME ~ asked'[c], NEW i \in DOMAIN (q \o w)
        PROVE  (q \o w)[i].op # "frame"
    <3>1. \A j \in DOMAIN q : q[j].op # "frame"
      BY <1>1, <2>1, <2>2 DEF Sound, Silent, q
    <3>2. QED
      BY <1>9, <2>1, <2>2, <3>1
  <2>3. QED
    BY <1>1, <1>3, <1>7, <2>1, <2>2 DEF Sound, Silent
<1>16. culprits' \subseteq Careless
  BY <1>3 DEF IInv
<1>17. QED
  BY <1>11, <1>12, <1>13, <1>14, <1>15, <1>16 DEF IInv, Sound

(* A client destroys a buffer it has or, if it is careless, any: from then *)
(* on the buffer is gone.                                                  *)
LEMMA DestroyBufferKeeps ==
  ASSUME IInv, NEW c \in Clients, NEW b \in Buffers, DestroyBuffer(c, b)
  PROVE  IInv'
<1> DEFINE q == requests[c]
           r == Destroy(b)
           w == <<r>>
<1>1. TypeOK /\ Sound(c)
  BY DEF IInv
<1>2. /\ requests' = [requests EXCEPT ![c] = Append(q, r)]
      /\ mine' = [mine EXCEPT ![c] = @ \ {b}]
      /\ c \in Careless \/ b \in mine[c]
      /\ UNCHANGED <<surf, outbox, wantFlush, inbox, freed, culprits, asked>>
  BY DEF DestroyBuffer, Destroy, bufferVars
<1>3. q \in Seq(Request)
  BY <1>1 DEF TypeOK
<1>4. /\ r \in Request /\ r.op = "destroy" /\ \A a : r # Attach(a)
      /\ \A a : r = Destroy(a) <=> a = b
  BY DEF Request, Attach, Destroy
<1>5. /\ \A i \in DOMAIN q : q[i].op = "attach" => CommitFrom(q, i + 1)
      /\ surf[c].back.buffer # NoBuffer => CommitFrom(q, 1)
  BY <1>1 DEF Sound, Paired
<1>6. /\ mine'[c] = mine[c] \ {b}
      /\ requests'[c] = Append(q, r)
  BY <1>1, <1>2 DEF TypeOK
<1> HIDE DEF q, r
<1>7. w \in Seq(Request) /\ Append(q, r) = q \o w
  BY <1>3, <1>4, AppendIsConcat
<1>8. /\ DOMAIN w = {1} /\ w[1] = r
      /\ \A i \in DOMAIN w : w[i].op = "attach" => CommitFrom(w, i + 1)
  BY <1>4
<1> HIDE DEF w
<1>9. /\ \A i \in DOMAIN (q \o w) :
           (q \o w)[i].op = "attach" => CommitFrom(q \o w, i + 1)
      /\ \A i \in DOMAIN (q \o w) : \/ \E j \in DOMAIN q : (q \o w)[i] = q[j]
                                    \/ \E j \in DOMAIN w : (q \o w)[i] = w[j]
  BY <1>3, <1>5, <1>7, <1>8, PairedStays
<1>10. surf[c].back.buffer # NoBuffer => CommitFrom(q \o w, 1)
  BY <1>3, <1>5, <1>7, CommitStays
<1>11. /\ Append(q, r) \in Seq(Request)
       /\ \A e : Count(Append(q, r), e) = Count(q, e) + (IF r = e THEN 1 ELSE 0)
       /\ \A e : Count(q, e) \in Nat
  <2>1. q \in Seq(Request) /\ r \in Request
    BY <1>3, <1>4
  <2>2. \A e : /\ Append(q, r) \in Seq(Request)
               /\ Count(Append(q, r), e) = Count(q, e) + (IF r = e THEN 1 ELSE 0)
    BY ONLY <2>1, CountAppend
  <2>3. \A e : Count(q, e) \in Nat
    BY ONLY <2>1, CountIsNat
  <2>4. QED
    BY <2>2, <2>3
<1>12. TypeOK'
  <2>1. requests' \in [Clients -> Seq(Request)]
    BY <1>1, <1>2, <1>11 DEF TypeOK
  <2>2. mine' \in [Clients -> SUBSET Buffers]
    BY <1>1, <1>2 DEF TypeOK
  <2>3. QED
    BY <1>1, <1>2, <2>1, <2>2 DEF TypeOK
<1>13. ASSUME NEW d \in Clients, d # c PROVE Sound(d)'
  <2>1. Untouched(d)
    BY <1>1, <1>2, <1>13 DEF TypeOK, Untouched
  <2>2. Sound(d)
    BY DEF IInv
  <2>3. QED
    BY <2>1, <2>2, UntouchedKeeps
<1>14. Paired(c)'
  BY <1>2, <1>6, <1>7, <1>9, <1>10 DEF Paired
<1>15. Counted(c)'
  <2>1. ASSUME NEW a \in Buffers PROVE Gone(c, a)' <=> Gone(c, a) \/ a = b
    <3>1. /\ Count(Append(q, r), Destroy(a))
               = Count(q, Destroy(a)) + (IF r = Destroy(a) THEN 1 ELSE 0)
          /\ Count(q, Destroy(a)) \in Nat
          /\ r = Destroy(a) <=> a = b
      BY <1>4, <1>11
    <3>2. Count(Append(q, r), Destroy(a)) # 0 <=> Count(q, Destroy(a)) # 0 \/ a = b
      BY <3>1
    <3>3. QED
      BY <1>2, <1>6, <3>2 DEF Gone, q
  <2>2. ASSUME NEW a \in Buffers PROVE Away(c, a)' = Away(c, a)
    <3>1. /\ Count(Append(q, r), Attach(a))
               = Count(q, Attach(a)) + (IF r = Attach(a) THEN 1 ELSE 0)
          /\ Count(q, Attach(a)) \in Nat
          /\ r # Attach(a)
      BY <1>4, <1>11
    <3>2. Count(Append(q, r), Attach(a)) = Count(q, Attach(a))
      BY <3>1
    <3>3. QED
      BY <1>2, <1>6, <3>2 DEF Away, q
  <2>3. c \in Careless \/ Away(c, b) = 0
    BY <1>1, <1>2 DEF Sound, Counted
  <2>4. ASSUME NEW a \in Buffers
        PROVE  /\ Gone(c, a) => a \notin mine[c]
               /\ Gone(c, a) => c \in Careless \/ Away(c, a) = 0
               /\ ~ Gone(c, a) => Away(c, a) = IF a \in mine[c] THEN 0 ELSE 1
    BY <1>1 DEF Sound, Counted
  <2>5. ASSUME NEW a \in Buffers
        PROVE  /\ Gone(c, a)' => a \notin mine'[c]
               /\ Gone(c, a)' => c \in Careless \/ Away(c, a)' = 0
               /\ ~ Gone(c, a)' => Away(c, a)' = IF a \in mine'[c] THEN 0 ELSE 1
    <3>1. CASE a = b
      BY <1>6, <2>1, <2>2, <2>3, <3>1
    <3>2. CASE a # b
      <4>1. a \in mine'[c] <=> a \in mine[c]
        BY <1>6, <3>2
      <4>2. QED
        BY <2>1, <2>2, <2>4, <3>2, <4>1
    <3>3. QED
      BY <3>1, <3>2
  <2>6. QED
    BY <2>5 DEF Counted
<1>16. Silent(c)'
  <2>1. ASSUME ~ asked[c], NEW i \in DOMAIN (q \o w)
        PROVE  (q \o w)[i].op # "frame"
    <3>1. \A j \in DOMAIN q : q[j].op # "frame"
      BY <1>1, <2>1 DEF Sound, Silent, q
    <3>2. QED
      BY <1>4, <1>8, <1>9, <3>1
  <2>2. QED
    BY <1>1, <1>2, <1>6, <1>7, <2>1 DEF Sound, Silent
<1>17. culprits' \subseteq Careless
  BY <1>2 DEF IInv
<1>18. QED
  BY <1>12, <1>13, <1>14, <1>15, <1>16, <1>17 DEF IInv, Sound

(* A client that reads a release has its buffer back, unless it destroyed  *)
(* it meanwhile.                                                           *)
LEMMA ReadEventKeeps ==
  ASSUME IInv, NEW c \in Clients, ReadEvent(c)
  PROVE  IInv'
<1> DEFINE i == inbox[c]
           e == Head(i)
           t == Tail(i)
<1>1. TypeOK /\ Sound(c)
  BY DEF IInv
<1>2. i \in Seq(Event) /\ i # <<>>
  BY <1>1 DEF TypeOK, ReadEvent, TakeEvent
<1>3. /\ inbox' = [inbox EXCEPT ![c] = t]
      /\ mine' = IF e.type = "release"
                 THEN [mine EXCEPT ![c] = @ \cup ({e.buffer} \ Destroyed(c))]
                 ELSE mine
      /\ UNCHANGED <<surf, requests, outbox, wantFlush, freed, culprits, asked>>
  BY DEF ReadEvent, TakeEvent, bufferVars
<1> HIDE DEF i
<1>4. /\ e \in Event /\ t \in Seq(Event)
      /\ \A x : Count(i, x) = Count(t, x) + (IF e = x THEN 1 ELSE 0)
  BY ONLY <1>2, CountTail
<1> HIDE DEF e, t
<1>5. \A x : Count(t, x) \in Nat
  BY ONLY <1>4, CountIsNat
<1>6. e.type = "release" => e.buffer \in Buffers /\ e = Release(e.buffer)
  BY <1>4 DEF Event, Release
<1>7. \A a : e = Release(a) => e.type = "release" /\ e.buffer = a
  BY DEF Release
<1>8. inbox'[c] = t /\ inbox[c] = i
  BY <1>1, <1>3 DEF TypeOK, i
<1>9. ASSUME NEW a \in Buffers
      PROVE  a \in mine'[c] <=> a \in mine[c] \/ (e = Release(a) /\ ~ Gone(c, a))
  <2>1. a \in Destroyed(c) <=> Gone(c, a)
    BY <1>1, FlightsCounted
  <2>2. CASE e.type = "release"
    <3>1. mine'[c] = mine[c] \cup ({e.buffer} \ Destroyed(c))
      BY <1>1, <1>3, <2>2 DEF TypeOK
    <3>2. e = Release(a) <=> e.buffer = a
      BY <1>6, <1>7, <2>2
    <3>3. QED
      BY <2>1, <3>1, <3>2
  <2>3. CASE e.type # "release"
    BY <1>3, <1>7, <2>3
  <2>4. QED
    BY <2>2, <2>3
<1>10. TypeOK'
  <2>1. inbox' \in [Clients -> Seq(Event)]
    BY <1>1, <1>3, <1>4 DEF TypeOK
  <2>2. mine' \in [Clients -> SUBSET Buffers]
    BY <1>1, <1>3, <1>6 DEF TypeOK
  <2>3. QED
    BY <1>1, <1>3, <2>1, <2>2 DEF TypeOK
<1>11. ASSUME NEW d \in Clients, d # c PROVE Sound(d)'
  <2>1. Untouched(d)
    BY <1>1, <1>3, <1>11 DEF TypeOK, Untouched
  <2>2. Sound(d)
    BY DEF IInv
  <2>3. QED
    BY <2>1, <2>2, UntouchedKeeps
<1>12. Paired(c)'
  BY <1>1, <1>3 DEF Sound, Paired
<1>13. Counted(c)'
  <2>1. \A a \in Buffers : Gone(c, a)' <=> Gone(c, a)
    BY <1>3 DEF Gone
  <2>2. ASSUME NEW a \in Buffers
        PROVE  /\ Away(c, a) \in Nat /\ Away(c, a)' \in Nat
               /\ Away(c, a) = Away(c, a)' + (IF e = Release(a) THEN 1 ELSE 0)
    <3>1. /\ Count(i, Release(a))
               = Count(t, Release(a)) + (IF e = Release(a) THEN 1 ELSE 0)
          /\ Count(t, Release(a)) \in Nat
      BY <1>4, <1>5
    <3>2. /\ Held(surf[c], a) \in Nat /\ Count(outbox[c], Release(a)) \in Nat
          /\ Count(requests[c], Attach(a)) \in Nat
      BY <1>1, CountsAreNat
    <3>3. Away(c, a)' = Count(requests[c], Attach(a)) + Held(surf[c], a)
                        + Count(outbox[c], Release(a)) + Count(t, Release(a))
      BY <1>3, <1>8 DEF Away
    <3>4. Away(c, a) = Count(requests[c], Attach(a)) + Held(surf[c], a)
                       + Count(outbox[c], Release(a)) + Count(i, Release(a))
      BY <1>8 DEF Away
    <3>5. QED
      BY <3>1, <3>2, <3>3, <3>4
  <2>3. ASSUME NEW a \in Buffers
        PROVE  /\ Gone(c, a) => a \notin mine[c]
               /\ Gone(c, a) => c \in Careless \/ Away(c, a) = 0
               /\ ~ Gone(c, a) => Away(c, a) = IF a \in mine[c] THEN 0 ELSE 1
    BY <1>1 DEF Sound, Counted
  <2>4. ASSUME NEW a \in Buffers
        PROVE  /\ Gone(c, a)' => a \notin mine'[c]
               /\ Gone(c, a)' => c \in Careless \/ Away(c, a)' = 0
               /\ ~ Gone(c, a)' => Away(c, a)' = IF a \in mine'[c] THEN 0 ELSE 1
    <3> DEFINE now == Away(c, a)
    <3>0. PICK later : later = Away(c, a)'
      OBVIOUS
    <3>1. /\ now \in Nat /\ later \in Nat
          /\ now = later + (IF e = Release(a) THEN 1 ELSE 0)
      BY <2>2, <3>0
    <3>2. /\ Gone(c, a) => a \notin mine[c]
          /\ Gone(c, a) => c \in Careless \/ now = 0
          /\ ~ Gone(c, a) => now = IF a \in mine[c] THEN 0 ELSE 1
      BY <2>3
    <3>3. a \in mine'[c] <=> a \in mine[c] \/ (e = Release(a) /\ ~ Gone(c, a))
      BY <1>9
    <3> HIDE DEF now
    <3>4. /\ Gone(c, a) => a \notin mine'[c]
          /\ Gone(c, a) => c \in Careless \/ later = 0
          /\ ~ Gone(c, a) => later = IF a \in mine'[c] THEN 0 ELSE 1
      BY <3>1, <3>2, <3>3
    <3>5. QED
      BY <2>1, <3>0, <3>4
  <2>5. QED
    BY <2>4 DEF Counted
<1>14. Silent(c)'
  BY <1>1, <1>2, <1>3 DEF Sound, Silent, i
<1>15. culprits' \subseteq Careless
  BY <1>3 DEF IInv
<1>16. QED
  BY <1>10, <1>11, <1>12, <1>13, <1>14, <1>15 DEF IInv, Sound

(* Every step of the server and of the clients keeps the invariant.        *)
LEMMA NextIInv == IInv /\ [Next]_vars => IInv'
<1> SUFFICES ASSUME IInv, [Next]_vars PROVE IInv'
  OBVIOUS
<1>1. CASE \E c \in Clients : DispatchRequest(c) /\ UNCHANGED cycleVars
  BY <1>1, DispatchKeeps
<1>2. CASE Repaint /\ UNCHANGED cycleVars
  BY <1>2, RepaintKeeps
<1>3. CASE FlushClients /\ UNCHANGED cycleVars
  BY <1>3, FlushKeeps
<1>4. CASE \E c \in Clients, b \in Buffers :
             \E cb \in Callbacks[c] : DrawAndCommit(c, b, cb)
  BY <1>4, DrawAndCommitKeeps
<1>5. CASE \E c \in Clients, b \in Buffers : DestroyBuffer(c, b)
  BY <1>5, DestroyBufferKeeps
<1>6. CASE \E c \in Clients : ReadEvent(c)
  BY <1>6, ReadEventKeeps
<1>7. CASE UNCHANGED vars
  <2>1. UNCHANGED <<surf, requests, outbox, wantFlush, inbox, freed, culprits, mine, asked>>
    BY <1>7 DEF vars, serverVars, bufferVars, cycleVars
  <2>2. TypeOK' /\ culprits' \subseteq Careless
    BY <2>1 DEF IInv, TypeOK
  <2>3. ASSUME NEW c \in Clients PROVE Sound(c)'
    <3>1. Untouched(c) /\ Sound(c)
      BY <2>1 DEF Untouched, IInv
    <3>2. QED
      BY <3>1, UntouchedKeeps
  <2>4. QED
    BY <2>2, <2>3 DEF IInv
<1>8. QED
  BY <1>1, <1>2, <1>3, <1>4, <1>5, <1>6, <1>7 DEF Next, ServerNext, ClientStep

(* The places of all buffers, the order of the requests and the silence    *)
(* of the clients that do not ask: the invariant of the whole system.      *)
THEOREM CycleInvariant == Spec => []IInv
<1>1. Init => IInv
  BY InitIInv
<1>2. IInv /\ [Next]_vars => IInv'
  BY NextIInv
<1>3. QED
  BY <1>1, <1>2, PTL DEF Spec

(* No buffer is lost and none is handed out twice.  The run's property     *)
(* says nothing about a buffer that was destroyed but that its client      *)
(* never has it again.                                                     *)
THEOREM CycleConserves == Spec => []BufferConserved
<1>1. IInv => BufferConserved
  <2> SUFFICES ASSUME IInv, NEW c \in Clients
               PROVE  /\ \A b \in Buffers \ Destroyed(c) : Places(c, b) = 1
                      /\ Destroyed(c) \cap mine[c] = {}
    BY DEF BufferConserved
  <2>1. TypeOK /\ Sound(c)
    BY DEF IInv
  <2>2. ASSUME NEW b \in Buffers
        PROVE  /\ b \in Destroyed(c) <=> Gone(c, b)
               /\ Gone(c, b) => b \notin mine[c]
               /\ ~ Gone(c, b) => Places(c, b) = 1
    <3>1. Places(c, b) = Away(c, b) + (IF b \in mine[c] THEN 1 ELSE 0)
      BY <2>1, PlacesCounted
    <3>2. /\ Gone(c, b) => b \notin mine[c]
          /\ ~ Gone(c, b) => Away(c, b) = IF b \in mine[c] THEN 0 ELSE 1
      BY <2>1 DEF Sound, Counted
    <3>3. b \in Destroyed(c) <=> Gone(c, b)
      BY <2>1, FlightsCounted
    <3>4. QED
      BY <3>1, <3>2, <3>3
  <2>3. mine[c] \subseteq Buffers
    BY <2>1 DEF TypeOK
  <2>4. QED
    BY <2>2, <2>3
<1>2. QED
  BY <1>1, CycleInvariant, PTL

(* The compositor never reads from a buffer that its client may draw into. *)
THEOREM CycleNeverTears == Spec => []NoTearing
<1>1. IInv => NoTearing
  <2> SUFFICES ASSUME IInv, NEW c \in Clients,
                      NEW b \in {surf[c].front.buffer, surf[c].back.buffer},
                      b \in mine[c]
               PROVE  FALSE
    BY DEF NoTearing
  <2>1. TypeOK /\ Counted(c)
    BY DEF IInv, Sound
  <2>2. b \in Buffers
    BY <2>1 DEF TypeOK
  <2>3. QED
    BY <2>1, <2>2, HeldIsAway
<1>2. QED
  BY <1>1, CycleInvariant, PTL

(* A client that never asked for a callback is never sent an event.        *)
THEOREM CycleIsSilent == Spec => []SilentWithoutCallbacks
<1>1. IInv => SilentWithoutCallbacks
  BY DEF IInv, Sound, Silent, SilentWithoutCallbacks
<1>2. QED
  BY <1>1, CycleInvariant, PTL

(* Only a careless client can have the server use memory that is freed.    *)
THEOREM CycleFreedOnlyOfCareless == Spec => []UsesFreedOnlyOfCareless
<1>1. IInv => UsesFreedOnlyOfCareless
  BY DEF IInv, UsesFreedOnlyOfCareless
<1>2. QED
  BY <1>1, CycleInvariant, PTL

-----------------------------------------------------------------------------
(* What drives the cycle: the safety half of ReleaseArrives, CanDrawAgain  *)
(* and DestroyedOnDisplayBreaks.                                           *)

\* The state lockBuffer takes for drawable is the one with a buffer
Ready(s) == s.front.isReady <=> s.front.buffer # NoBuffer

\* The next repaint answers a callback, and so has the connection flushed
PaintDue(s) ==
  s.front.isReady /\ s.front.buffer # NoBuffer /\ s.front.callbackDone # NoCallback

\* Every commit among the requests q finds a callback: that of the frame
\* request before it, or the one that waits in mBack of surface s
AsksFirst(q, s) ==
  /\ \A i \in Nat \ {0} :
       i + 1 \in DOMAIN q /\ q[i + 1].op = "commit" =>
         q[i].op = "frame" /\ q[i].callback # NoCallback
  /\ 1 \in DOMAIN q /\ q[1].op = "commit" => s.back.callbackDone # NoCallback

\* Nothing waits in the server's buffer without being about to leave it
InTime(c) == outbox[c] # <<>> => wantFlush[c] \/ PaintDue(surf[c])

Driven(c) ==
  /\ Ready(surf[c])
  /\ c \in Asking => AsksFirst(requests[c], surf[c]) /\ InTime(c)

DrivenInv == \A c \in Clients : Driven(c)

(* Every handler leaves a state ready exactly if it has a buffer.          *)
LEMMA HandledReady ==
  ASSUME NEW s \in SurfaceObject, Ready(s), NEW r,
         r.op \in {"attach", "frame", "commit", "destroy"}
  PROVE  Ready(Handled(s, r))
<1>1. CASE r.op = "attach"
  BY <1>1 DEF Handled, Attached, Ready, SurfaceObject, SurfaceState
<1>2. CASE r.op = "frame"
  BY <1>2 DEF Handled, Framed, Ready, SurfaceObject, SurfaceState
<1>3. CASE r.op = "destroy"
  BY <1>3 DEF Handled
<1>4. CASE r.op = "commit"
  <2>1. Handled(s, r) = Committed(s)
    BY <1>4 DEF Handled
  <2>2. Ready(Committed(s))
    BY DEF Committed, CommittedFront, Ready, SurfaceObject, SurfaceState
  <2>3. QED
    BY <2>1, <2>2
<1>5. QED
  BY <1>1, <1>2, <1>3, <1>4

(* And so does a repaint.                                                  *)
LEMMA PaintedReady ==
  ASSUME NEW s \in SurfaceObject, Ready(s)
  PROVE  Ready(Painted(s))
BY DEF Ready, Painted, SurfaceObject, SurfaceState

(* A commit that finds a callback in mBack answers one at once, or leaves  *)
(* one for the next repaint.                                               *)
LEMMA CommitDrives ==
  ASSUME NEW s \in SurfaceObject, s.back.callbackDone # NoCallback,
         s.back.buffer # NoBuffer
  PROVE  Posted(CommitEvents(s)) \/ PaintDue(Committed(s))
<1> DEFINE cb == s.back.callbackDone
           old == RecycledEvents(s.front)
<1>1. CASE AnswersAtOnce(s)
  <2>1. CommitEvents(s) = <<Done(cb)>> \o old
    BY <1>1 DEF CommitEvents, SendDone
  <2>2. old \in Seq(Event)
    <3>1. /\ s.front.callbackDone \in Nat
          /\ s.front.buffer # NoBuffer => s.front.buffer \in Buffers
      BY DEF SurfaceObject, SurfaceState
    <3>2. SendDone(s.front.callbackDone) \in Seq(Event)
      BY <3>1, DoneReleasesNothing
    <3>3. s.front.buffer # NoBuffer => <<Release(s.front.buffer)>> \in Seq(Event)
      BY <3>1 DEF Release, Event
    <3>4. QED
      BY <3>2, <3>3 DEF RecycledEvents
  <2>3. Done(cb) \in Event /\ Done(cb).type = "done"
    BY DEF Done, Event, SurfaceObject, SurfaceState
  <2> DEFINE d == Done(cb)
  <2> HIDE DEF d, old
  <2>4. /\ 1 \in DOMAIN (<<d>> \o old) /\ (<<d>> \o old)[1] = d
    BY <2>2, <2>3 DEF d
  <2>5. QED
    BY <2>1, <2>3, <2>4 DEF Posted, d
<1>2. CASE ~ AnswersAtOnce(s)
  BY <1>2 DEF Committed, CommittedFront, PaintDue, SurfaceObject, SurfaceState
<1>3. QED
  BY <1>1, <1>2

(* What a repaint sends is posted, and it does send if it is due.          *)
LEMMA PaintDrives ==
  ASSUME NEW s \in SurfaceObject
  PROVE  /\ PaintEvents(s) = <<>> \/ Posted(PaintEvents(s))
         /\ PaintDue(s) => Posted(PaintEvents(s))
<1> DEFINE cb == s.front.callbackDone
<1>1. Posted(<<Done(cb)>>)
  <2>1. 1 \in DOMAIN <<Done(cb)>> /\ <<Done(cb)>>[1].type = "done"
    BY DEF Done
  <2>2. QED
    BY <2>1 DEF Posted
<1>2. PaintDue(s) => PaintEvents(s) = <<Done(cb)>>
  BY DEF PaintDue, PaintEvents, SendDone
<1>3. ~ PaintDue(s) => PaintEvents(s) = <<>>
  BY DEF PaintDue, PaintEvents, SendDone
<1>4. QED
  BY <1>1, <1>2, <1>3

(* The request at the head leaves mBack as the next one needs it.          *)
LEMMA AskedAtTail ==
  ASSUME NEW q \in Seq(Request), q # <<>>, NEW s \in SurfaceObject, AsksFirst(q, s)
  PROVE  AsksFirst(Tail(q), Handled(s, Head(q)))
<1> DEFINE t == Tail(q)
           n == Handled(s, Head(q))
<1>1. /\ \A j \in DOMAIN t : j + 1 \in DOMAIN q /\ t[j] = q[j + 1]
      /\ DOMAIN t \subseteq Nat \ {0}
      /\ 1 \in DOMAIN q /\ Head(q) = q[1]
  <2>1. 1 \in Nat \ {0}
    OBVIOUS
  <2>2. QED
    BY <2>1, CommitNearer
<1>2. DOMAIN t = 1 .. Len(q) - 1 /\ Len(q) \in Nat
  OBVIOUS
<1>3. ASSUME NEW i \in Nat \ {0}, i + 1 \in DOMAIN t, t[i + 1].op = "commit"
      PROVE  t[i].op = "frame" /\ t[i].callback # NoCallback
  <2> HIDE DEF t
  <2>1. (i + 1) + 1 \in DOMAIN q /\ q[(i + 1) + 1].op = "commit"
    BY <1>1, <1>3
  <2>2. i + 1 \in Nat \ {0}
    BY <1>3
  <2>3. q[i + 1].op = "frame" /\ q[i + 1].callback # NoCallback
    BY <2>1, <2>2 DEF AsksFirst
  <2>4. i \in DOMAIN t
    BY <1>2, <1>3
  <2>5. t[i] = q[i + 1]
    BY <1>1, <2>4
  <2>6. QED
    BY <2>3, <2>5
<1>4. ASSUME 1 \in DOMAIN t, t[1].op = "commit"
      PROVE  n.back.callbackDone # NoCallback
  <2> HIDE DEF t
  <2>1. 1 + 1 \in DOMAIN q /\ q[1 + 1].op = "commit" /\ 1 \in Nat \ {0}
    BY <1>1, <1>4
  <2>2. Head(q).op = "frame" /\ Head(q).callback # NoCallback
    BY <1>1, <2>1 DEF AsksFirst
  <2>3. n = Framed(s, Head(q).callback)
    BY <2>2 DEF Handled
  <2>4. n.back.callbackDone = Head(q).callback
    BY <2>3 DEF Framed, SurfaceObject, SurfaceState
  <2>5. QED
    BY <2>2, <2>4
<1>5. QED
  BY <1>3, <1>4 DEF AsksFirst

(* Requests that ask first may follow each other.                          *)
LEMMA AskedBehind ==
  ASSUME NEW q \in Seq(Request), NEW t \in Seq(Request), NEW s,
         AsksFirst(q, s), t # <<>>, t[1].op # "commit",
         \A i \in Nat \ {0} :
           i + 1 \in DOMAIN t /\ t[i + 1].op = "commit" =>
             t[i].op = "frame" /\ t[i].callback # NoCallback
  PROVE  AsksFirst(q \o t, s)
<1> DEFINE u == q \o t
           n == Len(q)
<1>1. /\ n \in Nat /\ Len(t) \in Nat /\ Len(t) # 0
      /\ DOMAIN q = 1 .. n /\ DOMAIN t = 1 .. Len(t)
      /\ DOMAIN u = 1 .. n + Len(t)
      /\ \A i \in 1 .. n : u[i] = q[i]
      /\ \A i \in n + 1 .. n + Len(t) : u[i] = t[i - n]
  BY ConcatProperties, LenProperties
<1> HIDE DEF u, n
<1>2. ASSUME NEW i \in Nat \ {0}, i + 1 \in DOMAIN u, u[i + 1].op = "commit"
      PROVE  u[i].op = "frame" /\ u[i].callback # NoCallback
  <2>1. CASE i + 1 <= n
    <3>1. i \in 1 .. n /\ i + 1 \in 1 .. n
      BY <1>1, <1>2, <2>1
    <3>2. u[i] = q[i] /\ u[i + 1] = q[i + 1] /\ i + 1 \in DOMAIN q
      BY <1>1, <3>1
    <3>3. QED
      BY <1>2, <3>2 DEF AsksFirst
  <2>2. CASE i = n
    <3>1. u[i + 1] = t[1]
      <4>1. i + 1 \in n + 1 .. n + Len(t) /\ (i + 1) - n = 1
        BY <1>1, <2>2
      <4>2. QED
        BY <1>1, <4>1
    <3>2. QED
      BY <1>2, <3>1
  <2>3. CASE i > n
    <3>1. /\ i \in n + 1 .. n + Len(t) /\ i + 1 \in n + 1 .. n + Len(t)
          /\ i - n \in Nat \ {0} /\ (i - n) + 1 \in DOMAIN t
          /\ (i + 1) - n = (i - n) + 1
      BY <1>1, <1>2, <2>3
    <3>2. u[i] = t[i - n] /\ u[i + 1] = t[(i - n) + 1]
      BY <1>1, <3>1
    <3>3. QED
      BY <1>2, <3>1, <3>2
  <2>4. QED
    BY <1>1, <2>1, <2>2, <2>3
<1>3. ASSUME 1 \in DOMAIN u, u[1].op = "commit"
      PROVE  s.back.callbackDone # NoCallback
  <2>1. CASE n = 0
    <3>1. 1 \in n + 1 .. n + Len(t) /\ 1 - n = 1
      BY <1>1, <2>1
    <3>2. u[1] = t[1]
      BY <1>1, <3>1
    <3>3. QED
      BY <1>3, <3>2
  <2>2. CASE n # 0
    <3>1. 1 \in 1 .. n
      BY <1>1, <2>2
    <3>2. u[1] = q[1] /\ 1 \in DOMAIN q
      BY <1>1, <3>1
    <3>3. QED
      BY <1>3, <3>2 DEF AsksFirst
  <2>3. QED
    BY <2>1, <2>2
<1>4. QED
  BY <1>2, <1>3 DEF AsksFirst, u

(* The requests that show a buffer ask for a callback before they commit.  *)
LEMMA SubmissionAsks ==
  ASSUME NEW b \in Buffers, NEW cb \in Nat, cb # NoCallback
  PROVE  LET t == SubmitRequests(b, cb)
         IN  /\ t # <<>> /\ t[1].op # "commit"
             /\ \A i \in Nat \ {0} :
                  i + 1 \in DOMAIN t /\ t[i + 1].op = "commit" =>
                    t[i].op = "frame" /\ t[i].callback # NoCallback
<1> DEFINE r == Attach(b)
           f == [op |-> "frame", callback |-> cb]
           k == [op |-> "commit"]
           t == SubmitRequests(b, cb)
<1>1. r.op = "attach" /\ f.op = "frame" /\ f.callback = cb /\ k.op = "commit"
  BY DEF Attach
<1>2. DOMAIN t = {1, 2, 3} /\ t[1] = r /\ t[2] = f /\ t[3] = k
  BY SubmissionOfThree
<1> HIDE DEF r, f, k, t
<1>3. t # <<>>
  BY <1>2
<1>6. ASSUME NEW i \in Nat \ {0}, i + 1 \in DOMAIN t, t[i + 1].op = "commit"
      PROVE  t[i].op = "frame" /\ t[i].callback # NoCallback
  <2>1. i = 1 \/ i = 2
    BY <1>2, <1>6
  <2>2. i # 1
    BY <1>1, <1>2, <1>6
  <2>3. QED
    BY <1>1, <1>2, <2>1, <2>2
<1>7. QED
  BY <1>1, <1>2, <1>3, <1>6 DEF t

(* Every step leaves all clients' events driven.                           *)
LEMMA DrivenNext == IInv /\ DrivenInv /\ [Next]_vars => DrivenInv'
<1> SUFFICES ASSUME IInv, DrivenInv, [Next]_vars, NEW c \in Clients
             PROVE  Driven(c)'
  BY DEF DrivenInv
<1>1. /\ surf[c] \in SurfaceObject /\ requests[c] \in Seq(Request)
      /\ outbox[c] \in Seq(Event) /\ inbox[c] \in Seq(Event)
      /\ wantFlush[c] \in BOOLEAN
  BY DEF IInv, TypeOK
<1>2. /\ Ready(surf[c])
      /\ c \in Asking => AsksFirst(requests[c], surf[c])
      /\ c \in Asking => InTime(c)
  BY DEF DrivenInv, Driven
\* The surface and what is on its way back do not change
<1>3. ASSUME surf'[c] = surf[c], requests'[c] = requests[c],
             outbox'[c] = outbox[c], wantFlush'[c] = wantFlush[c]
      PROVE  Driven(c)'
  BY <1>2, <1>3 DEF Driven, InTime
<1>4. CASE UNCHANGED vars
  BY <1>3, <1>4 DEF vars, serverVars
<1>5. ASSUME NEW d \in Clients, DispatchRequest(d) PROVE Driven(c)'
  <2>1. CASE d # c
    BY <1>3, <1>5, <2>1 DEF DispatchRequest, IInv, TypeOK
  <2>2. CASE d = c
    <3> DEFINE s == surf[c]
               q == requests[c]
               r == Head(q)
               n == Handled(s, r)
               events == HandlerEvents(s, r)
    <3>1. /\ q # <<>> /\ surf'[c] = n /\ requests'[c] = Tail(q)
          /\ outbox'[c] = outbox[c] \o events
          /\ wantFlush'[c] = (wantFlush[c] \/ Posted(events))
      BY <1>5, <2>2 DEF DispatchRequest, IInv, TypeOK
    <3>2. s \in SurfaceObject /\ Ready(s) /\ q \in Seq(Request)
      BY <1>1, <1>2
    <3>3. r \in Request
      <4> HIDE DEF q
      <4>1. QED
        BY <3>1, <3>2
    <3>4. r.op \in {"attach", "frame", "commit", "destroy"}
      BY <3>3 DEF Request
    <3> HIDE DEF n, events, r
    <3>5. Ready(surf'[c])
      BY <3>1, <3>2, <3>4, HandledReady DEF n
    <3>6. ASSUME c \in Asking
          PROVE  AsksFirst(requests'[c], surf'[c])
      BY <1>2, <3>1, <3>2, <3>6, AskedAtTail DEF n, r
    <3>7. ASSUME c \in Asking, outbox'[c] # <<>>
          PROVE  wantFlush'[c] \/ PaintDue(surf'[c])
      <4>1. CASE r.op # "commit" \/ s.back.buffer = NoBuffer
        <5>1. events = <<>> /\ n.front = s.front
          BY <1>1, <3>4, <4>1 DEF events, n, HandlerEvents, CommitEvents, Handled,
                                  Attached, Framed, Committed, SurfaceObject, SurfaceState
        <5>2. outbox'[c] = outbox[c]
          BY <1>1, <3>1, <5>1
        <5>3. wantFlush[c] \/ PaintDue(s)
          BY <1>2, <3>7, <5>2 DEF InTime
        <5>4. PaintDue(s) => PaintDue(n)
          BY <5>1 DEF PaintDue
        <5>5. QED
          BY <3>1, <5>3, <5>4
      <4>2. CASE r.op = "commit" /\ s.back.buffer # NoBuffer
        <5>1. s.back.callbackDone # NoCallback
          <6>1. 1 \in DOMAIN q /\ r = q[1]
            BY <3>1, <3>2 DEF r
          <6>2. QED
            BY <1>2, <3>7, <4>2, <6>1 DEF AsksFirst
        <5>2. events = CommitEvents(s) /\ n = Committed(s)
          BY <4>2 DEF events, n, HandlerEvents, Handled
        <5>3. Posted(events) \/ PaintDue(n)
          BY <3>2, <4>2, <5>1, <5>2, CommitDrives
        <5>4. QED
          BY <3>1, <5>3
      <4>3. QED
        BY <4>1, <4>2
    <3>8. QED
      BY <3>5, <3>6, <3>7 DEF Driven, InTime
  <2>3. QED
    BY <2>1, <2>2
<1>6. CASE Repaint
  <2> DEFINE s == surf[c]
             events == PaintEvents(s)
  <2>1. /\ surf'[c] = Painted(s) /\ requests'[c] = requests[c]
        /\ outbox'[c] = outbox[c] \o events
        /\ wantFlush'[c] = (wantFlush[c] \/ Posted(events))
    BY <1>6 DEF Repaint
  <2>2. s \in SurfaceObject /\ Ready(s)
    BY <1>1, <1>2
  <2>3. /\ events = <<>> \/ Posted(events)
        /\ PaintDue(s) => Posted(events)
    BY <2>2, PaintDrives
  <2>4. Ready(Painted(s))
    BY <2>2, PaintedReady
  <2>5. Painted(s).back = s.back
    BY <2>2 DEF Painted, SurfaceObject, SurfaceState
  <2> HIDE DEF events
  <2>6. ASSUME c \in Asking PROVE AsksFirst(requests'[c], surf'[c])
    BY <1>2, <2>1, <2>5, <2>6 DEF AsksFirst
  <2>7. ASSUME c \in Asking, outbox'[c] # <<>> PROVE wantFlush'[c]
    <3>1. CASE events = <<>>
      <4>1. outbox'[c] = outbox[c]
        BY <1>1, <2>1, <3>1
      <4>2. QED
        BY <1>2, <2>1, <2>3, <2>7, <4>1 DEF InTime
    <3>2. QED
      BY <2>1, <2>3, <3>1
  <2>8. QED
    BY <2>1, <2>4, <2>6, <2>7 DEF Driven, InTime
<1>7. CASE FlushClients
  <2>1. /\ surf'[c] = surf[c] /\ requests'[c] = requests[c]
        /\ wantFlush'[c] = FALSE
        /\ outbox'[c] = IF wantFlush[c] THEN <<>> ELSE outbox[c]
    BY <1>7 DEF FlushClients
  <2>2. CASE wantFlush[c]
    BY <1>2, <2>1, <2>2 DEF Driven, InTime
  <2>3. CASE ~ wantFlush[c]
    BY <1>1, <1>3, <2>1, <2>3
  <2>4. QED
    BY <2>2, <2>3
\* A client sends the requests t, or nothing
<1>8. ASSUME NEW d \in Clients, UNCHANGED <<surf, outbox, wantFlush>>,
             NEW t \in Seq(Request),
             requests' = [requests EXCEPT ![d] = @ \o t],
             d \in Asking =>
               /\ t # <<>> /\ t[1].op # "commit"
               /\ \A i \in Nat \ {0} :
                    i + 1 \in DOMAIN t /\ t[i + 1].op = "commit" =>
                      t[i].op = "frame" /\ t[i].callback # NoCallback
      PROVE  Driven(c)'
  <2>1. CASE d # c
    BY <1>3, <1>8, <2>1 DEF IInv, TypeOK
  <2>2. CASE d = c
    <3>1. requests'[c] = requests[c] \o t
      BY <1>8, <2>2 DEF IInv, TypeOK
    <3>2. ASSUME c \in Asking PROVE AsksFirst(requests'[c], surf[c])
      BY <1>1, <1>2, <1>8, <2>2, <3>1, <3>2, AskedBehind
    <3>3. QED
      BY <1>2, <1>8, <3>2 DEF Driven, InTime
  <2>3. QED
    BY <2>1, <2>2
<1>9. ASSUME NEW d \in Clients, NEW b \in Buffers, NEW cb \in Callbacks[d],
             DrawAndCommit(d, b, cb)
      PROVE  Driven(c)'
  <2> DEFINE t == SubmitRequests(b, cb)
  <2>1. cb \in Nat
    BY CycleAssumption DEF NoCallback
  <2>2. t \in Seq(Request)
    BY <2>1, Submission
  <2>3. d \in Asking => cb # NoCallback
    BY DEF Asking, NoCallback
  <2>4. d \in Asking =>
          /\ t # <<>> /\ t[1].op # "commit"
          /\ \A i \in Nat \ {0} :
               i + 1 \in DOMAIN t /\ t[i + 1].op = "commit" =>
                 t[i].op = "frame" /\ t[i].callback # NoCallback
    BY <2>1, <2>3, SubmissionAsks
  <2>5. /\ UNCHANGED <<surf, outbox, wantFlush>>
        /\ requests' = [requests EXCEPT ![d] = @ \o t]
    BY <1>9 DEF DrawAndCommit, Submit
  <2> HIDE DEF t
  <2>6. QED
    BY <1>8, <2>2, <2>4, <2>5
<1>10. ASSUME NEW d \in Clients, NEW b \in Buffers, DestroyBuffer(d, b)
       PROVE  Driven(c)'
  <2> DEFINE r == Destroy(b)
             t == <<r>>
  <2>1. r \in Request /\ r.op = "destroy"
    BY DEF Request, Destroy
  <2>2. /\ UNCHANGED <<surf, outbox, wantFlush>>
        /\ requests' = [requests EXCEPT ![d] = Append(@, r)]
    BY <1>10 DEF DestroyBuffer, Destroy
  <2>3. requests[d] \in Seq(Request)
    BY DEF IInv, TypeOK
  <2> HIDE DEF r
  <2>4. Append(requests[d], r) = requests[d] \o t
    BY <2>1, <2>3, AppendIsConcat
  <2>5. requests' = [requests EXCEPT ![d] = @ \o t]
    BY <2>2, <2>4
  <2>6. /\ t \in Seq(Request) /\ t # <<>> /\ t[1].op # "commit"
        /\ DOMAIN t = {1}
    BY <2>1
  <2> HIDE DEF t
  <2>7. \A i \in Nat \ {0} : i + 1 \notin DOMAIN t
    BY <2>6
  <2>8. QED
    BY <1>8, <2>2, <2>5, <2>6, <2>7
<1>11. ASSUME NEW d \in Clients, ReadEvent(d) PROVE Driven(c)'
  BY <1>3, <1>11 DEF ReadEvent
<1>12. QED
  BY <1>4, <1>5, <1>6, <1>7, <1>9, <1>10, <1>11 DEF Next, ServerNext, ClientStep

(* The invariant of what drives the cycle, together with the counts.       *)
LEMMA DrivenInvariance == Spec => [](IInv /\ DrivenInv)
<1>1. Init => DrivenInv
  <2> SUFFICES ASSUME Init, NEW c \in Clients PROVE Driven(c)
    BY DEF DrivenInv
  <2>1. /\ surf[c] = NewSurface /\ requests[c] = <<>> /\ outbox[c] = <<>>
    BY DEF Init, ServerInit
  <2>2. Ready(NewSurface)
    BY DEF NewSurface, EmptyState, Ready
  <2>3. DOMAIN <<>> = {}
    OBVIOUS
  <2>4. \A i \in Nat \ {0} : i + 1 \notin DOMAIN <<>> /\ 1 \notin DOMAIN <<>>
    BY <2>3
  <2>5. AsksFirst(requests[c], surf[c])
    BY <2>1, <2>3, <2>4 DEF AsksFirst
  <2>6. QED
    BY <2>1, <2>2, <2>5 DEF Driven, InTime
<1>2. QED
  BY <1>1, CycleInvariant, DrivenNext, PTL DEF Spec

(* surfaceCommit only queues a release, but for a client that asks for     *)
(* callbacks none is stuck: the connection is to be flushed, or the next   *)
(* repaint answers a callback and so asks for it.                          *)
THEOREM CycleReleaseIsPushed ==
  Spec => [](\A c \in Asking : outbox[c] # <<>> =>
               wantFlush[c] \/ PaintDue(surf[c]))
<1>1. DrivenInv => \A c \in Asking : outbox[c] # <<>> =>
                     wantFlush[c] \/ PaintDue(surf[c])
  BY DEF DrivenInv, Driven, InTime, Asking
<1>2. QED
  BY <1>1, DrivenInvariance, PTL

(* A buffer that is destroyed while it is on display stays there until the *)
(* server breaks, and the next repaint breaks it.                          *)
THEOREM CycleFreedStaysOnDisplay ==
  Spec => [][\A c \in Clients : FrontFreed(c) =>
               /\ FrontFreed(c)' \/ Broken'
               /\ Repaint => Broken']_vars
<1>1. IInv /\ DrivenInv /\ [Next]_vars =>
        [\A c \in Clients : FrontFreed(c) =>
           /\ FrontFreed(c)' \/ Broken'
           /\ Repaint => Broken']_vars
  <2> SUFFICES ASSUME IInv, DrivenInv, Next, NEW c \in Clients, FrontFreed(c)
               PROVE  /\ FrontFreed(c)' \/ Broken'
                      /\ Repaint => Broken'
    OBVIOUS
  <2>1. /\ surf[c] \in SurfaceObject /\ freed[c] \subseteq Buffers
        /\ requests[c] \in Seq(Request) /\ Ready(surf[c])
    BY DEF IInv, TypeOK, DrivenInv, Driven
  <2>2. surf[c].front.buffer \in freed[c] /\ surf[c].front.isReady
    BY <2>1, NoBufferAssumption DEF FrontFreed, Ready
  <2>3. ASSUME Repaint PROVE Broken'
    BY <2>2, <2>3 DEF Repaint, ReadsFreed, FrontFreed, Broken
  <2>4. ASSUME surf'[c].front.buffer = surf[c].front.buffer, freed[c] \subseteq freed'[c]
        PROVE  FrontFreed(c)'
    BY <2>2, <2>4 DEF FrontFreed
  <2>5. ASSUME NEW d \in Clients, DispatchRequest(d)
        PROVE  FrontFreed(c)' \/ Broken'
    <3> DEFINE s == surf[c]
               r == Head(requests[c])
    <3>1. CASE d # c
      BY <2>4, <2>5, <3>1 DEF DispatchRequest, IInv, TypeOK
    <3>2. CASE d = c
      <4>1. /\ surf'[c] = Handled(s, r) /\ freed[c] \subseteq freed'[c]
            /\ UsesFreed(c, r) => Broken'
        BY <2>5, <3>2 DEF DispatchRequest, IInv, TypeOK, Broken
      <4>2. r.op \in {"attach", "frame", "commit", "destroy"}
        <5>1. r \in Request
          BY <2>1, <2>5, <3>2 DEF DispatchRequest
        <5>2. QED
          BY <5>1 DEF Request
      <4>3. ~ UsesFreed(c, r) => Handled(s, r).front = s.front
        <5>1. CASE r.op = "commit" /\ s.back.buffer = NoBuffer
          BY <5>1 DEF Handled, Committed
        <5>2. CASE r.op # "commit"
          BY <2>1, <4>2, <5>2 DEF Handled, Attached, Framed, SurfaceObject, SurfaceState
        <5>3. CASE r.op = "commit" /\ s.back.buffer # NoBuffer
          BY <5>3 DEF UsesFreed
        <5>4. QED
          BY <5>1, <5>2, <5>3
      <4>4. QED
        BY <2>4, <4>1, <4>3
    <3>3. QED
      BY <3>1, <3>2
  <2>6. ASSUME FlushClients PROVE FrontFreed(c)'
    <3>1. UNCHANGED <<surf, freed>>
      BY <2>6 DEF FlushClients, bufferVars
    <3>2. QED
      BY <2>4, <3>1
  <2>7. ASSUME NEW d \in Clients, ClientStep(d) PROVE FrontFreed(c)'
    <3>1. UNCHANGED <<surf, freed>>
      BY <2>7 DEF ClientStep, DrawAndCommit, DestroyBuffer, ReadEvent, bufferVars
    <3>2. QED
      BY <2>4, <3>1
  <2>8. QED
    BY <2>3, <2>5, <2>6, <2>7 DEF Next, ServerNext
<1>2. QED
  BY <1>1, DrivenInvariance, PTL DEF Spec

(* A client that asks for callbacks and has no buffer to draw into, though *)
(* it has kept two, never waits in vain: the server has a request of it,   *)
(* or an event is in its hands or is about to leave the server.            *)
THEOREM CycleNeverStandsStill ==
  ASSUME IsFiniteSet(Buffers)
  PROVE  Spec => [](\A c \in Asking :
                      /\ mine[c] = {}
                      /\ Cardinality(Destroyed(c)) <= Cardinality(Buffers) - 2
                      => \/ requests[c] # <<>> \/ inbox[c] # <<>>
                         \/ outbox[c] # <<>> /\ (wantFlush[c] \/ PaintDue(surf[c])))
<1>1. IInv /\ DrivenInv =>
        \A c \in Asking :
          /\ mine[c] = {}
          /\ Cardinality(Destroyed(c)) <= Cardinality(Buffers) - 2
          => \/ requests[c] # <<>> \/ inbox[c] # <<>>
             \/ outbox[c] # <<>> /\ (wantFlush[c] \/ PaintDue(surf[c]))
  <2> SUFFICES ASSUME IInv, DrivenInv, NEW c \in Asking, mine[c] = {},
                      Cardinality(Destroyed(c)) <= Cardinality(Buffers) - 2,
                      requests[c] = <<>>, inbox[c] = <<>>,
                      ~ (outbox[c] # <<>> /\ (wantFlush[c] \/ PaintDue(surf[c])))
               PROVE  FALSE
    OBVIOUS
  <2>1. c \in Clients /\ TypeOK /\ Sound(c)
    BY DEF Asking, IInv
  <2>2. outbox[c] = <<>>
    BY DEF DrivenInv, Driven, InTime, Asking
  <2>3. surf[c].back.buffer = NoBuffer
    <3>1. DOMAIN <<>> = {}
      OBVIOUS
    <3>2. ~ CommitFrom(requests[c], 1)
      BY <3>1 DEF CommitFrom
    <3>3. QED
      BY <2>1, <3>2 DEF Sound, Paired
  <2> DEFINE front == surf[c].front.buffer
             kept == Buffers \ Destroyed(c)
  <2>4. ASSUME NEW b \in kept PROVE b = front
    <3>1. b \in Buffers /\ ~ Gone(c, b)
      BY <2>1, <2>4, FlightsCounted
    <3>2. Away(c, b) = 1
      BY <2>1, <3>1 DEF Sound, Counted
    <3>3. /\ Count(requests[c], Attach(b)) = 0
          /\ Count(outbox[c], Release(b)) = 0 /\ Count(inbox[c], Release(b)) = 0
      BY <2>2, CountNone
    <3>4. Held(surf[c], b) = 1
      <4>1. Held(surf[c], b) \in Nat
        BY DEF Held
      <4>2. QED
        BY <3>2, <3>3, <4>1 DEF Away
    <3>5. QED
      BY <2>3, <3>1, <3>4, NoBufferAssumption DEF Held
  <2>5. Destroyed(c) \subseteq Buffers
    BY <2>1 DEF Destroyed, TypeOK
  <2> DEFINE gone == Destroyed(c)
  <2> HIDE DEF front, kept, gone
  <2>6. /\ IsFiniteSet(kept)
        /\ Cardinality(kept) = Cardinality(Buffers) - Cardinality(Buffers \cap gone)
    BY FS_Difference DEF kept, gone
  <2>7. Buffers \cap gone = gone
    BY <2>5 DEF gone
  <2>8. IsFiniteSet(gone)
    BY <2>5, FS_Subset DEF gone
  <2>9. /\ Cardinality(kept) \in Nat /\ Cardinality(gone) \in Nat
        /\ Cardinality(Buffers) \in Nat
    BY <2>6, <2>8, FS_CardinalityType
  <2>10. Cardinality(kept) <= 1
    <3>1. kept \subseteq {front}
      BY <2>4
    <3>2. IsFiniteSet({front}) /\ Cardinality({front}) = 1
      BY FS_Singleton
    <3>3. Cardinality(kept) <= Cardinality({front})
      BY <3>1, <3>2, FS_Subset
    <3>4. QED
      BY <3>2, <3>3
  <2>11. Cardinality(gone) <= Cardinality(Buffers) - 2
    BY DEF gone
  <2>12. ASSUME NEW k \in Nat, NEW g \in Nat, NEW n \in Nat,
                k = n - g, k <= 1, g <= n - 2
         PROVE  FALSE
    BY <2>12
  <2>13. Cardinality(kept) = Cardinality(Buffers) - Cardinality(gone)
    BY <2>6, <2>7
  <2>14. QED
    BY <2>9, <2>10, <2>11, <2>12, <2>13
<1>2. QED
  BY <1>1, DrivenInvariance, PTL
=============================================================================

------------------------------ MODULE Mailbox ------------------------------
(***************************************************************************)
(* What a Surface promises its client, without its two states, its swap    *)
(* and its counter: a mailbox with room for one frame.                     *)
(*                                                                         *)
(*   - The frame on display is the last one committed.  Committing the     *)
(*     next one gives the buffer of the frame it replaces back, once.      *)
(*   - The first frame's callback is answered on commit.  A later frame's  *)
(*     callback is answered when the frame is painted or, if it never was, *)
(*     when it is replaced, right after the release of its buffer.         *)
(*   - What is attached or asked for waits for the next commit that brings *)
(*     a buffer, and the last request wins.                                *)
(***************************************************************************)
EXTENDS SurfaceOps

VARIABLES shown,      \* buffer of the frame on display
          shownCb,    \* its callback, until it is answered
          pending,    \* buffer attached since the last commit
          pendingCb,  \* callback asked for since the last commit
          sent        \* events of the last step

mailVars == <<shown, shownCb, pending, pendingCb, sent>>

Init ==
  /\ shown = NoBuffer
  /\ shownCb = NoCallback
  /\ pending = NoBuffer
  /\ pendingCb = NoCallback
  /\ sent = <<>>

Offer(b) ==
  /\ pending' = b
  /\ sent' = <<>>
  /\ UNCHANGED <<shown, shownCb, pendingCb>>

Ask ==
  /\ pendingCb' \in Nat \ {NoCallback}
  /\ sent' = <<>>
  /\ UNCHANGED <<shown, shownCb, pending>>

FirstFrame ==
  /\ pending # NoBuffer
  /\ shown = NoBuffer
  /\ shown' = pending
  /\ sent' = SendDone(pendingCb)
  /\ pending' = NoBuffer
  /\ pendingCb' = NoCallback
  /\ UNCHANGED shownCb

NextFrame ==
  /\ pending # NoBuffer
  /\ shown # NoBuffer
  /\ shown' = pending
  /\ shownCb' = pendingCb
  /\ sent' = <<Release(shown)>> \o SendDone(shownCb)
  /\ pending' = NoBuffer
  /\ pendingCb' = NoCallback

Paint ==
  /\ shown # NoBuffer
  /\ sent' = SendDone(shownCb)
  /\ shownCb' = NoCallback
  /\ UNCHANGED <<shown, pending, pendingCb>>

\* A request or a repaint with nothing to act on
Idle ==
  /\ sent' = <<>>
  /\ UNCHANGED <<shown, shownCb, pending, pendingCb>>

Next ==
  \/ \E b \in Buffers : Offer(b)
  \/ Ask
  \/ FirstFrame
  \/ NextFrame
  \/ Paint
  \/ Idle

Spec == Init /\ [][Next]_mailVars

\* The compositor's timer keeps painting
FairSpec == Spec /\ WF_mailVars(Paint)
=============================================================================

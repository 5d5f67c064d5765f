------------------------------- MODULE Layout -------------------------------
(***************************************************************************)
(* Where Compositor::repaint puts the surfaces and which of them is seen.  *)
(* relayoutSurfaces cuts the display into one strip for each shell         *)
(* surface, but nothing clips a surface to its strip: a frame is copied    *)
(* from its first row to the bottom of the display.  That strips are seen  *)
(* at all follows from the order of mSurfacesList, which is the order of   *)
(* painting and the order of the strips.                                   *)
(*                                                                         *)
(* A frame is its height here, 0 before the first commit, and covers the   *)
(* width of the display; clients attach at offset 0, as all clients of     *)
(* this repository do.  Columns and offsets are the subject of Blit.       *)
(***************************************************************************)
EXTENDS Integers, Sequences, FiniteSets

CONSTANTS Height,         \* mDisplayHeight
          FrameHeights,   \* heights of the buffers clients attach
          MaxSurfaces     \* bound: surfaces at one time

ASSUME LayoutAssumption ==
  /\ Height \in Nat \ {0}
  /\ FrameHeights \subseteq Nat \ {0}
  /\ MaxSurfaces \in Nat

Rows       == 0 .. Height - 1
Background == 0

\* What matters here of a Surface: isShellSurface(), mY, and the frame
SurfaceRecord == [shell : BOOLEAN, y : Nat, frame : FrameHeights \cup {0}]

VARIABLES list,     \* mSurfacesList
          display,  \* mDisplayBuffer: the list position seen in each row
          painted   \* has nothing changed since the last repaint?

vars == <<list, display, painted>>

Init ==
  /\ list = <<>>
  /\ display = [r \in Rows |-> Background]
  /\ painted = FALSE

-----------------------------------------------------------------------------
(* Requests *)

\* Compositor::createSurface
CreateSurface ==
  /\ Len(list) < MaxSurfaces
  /\ list' = Append(list, [shell |-> FALSE, y |-> 0, frame |-> 0])
  /\ painted' = FALSE
  /\ UNCHANGED display

\* Shell::getShellSurface and Surface::setShellSurface
GetShellSurface(p) ==
  /\ list' = [list EXCEPT ![p].shell = TRUE]
  /\ painted' = FALSE
  /\ UNCHANGED display

\* Surface::surfaceCommit of a frame that is h rows high
Commit(p, h) ==
  /\ list' = [list EXCEPT ![p].frame = h]
  /\ painted' = FALSE
  /\ UNCHANGED display

\* Compositor::notify
Notify(p) ==
  /\ list' = SubSeq(list, 1, p - 1) \o SubSeq(list, p + 1, Len(list))
  /\ painted' = FALSE
  /\ UNCHANGED display

-----------------------------------------------------------------------------
(* Compositor::repaint *)

Shells(s) == {p \in DOMAIN s : s[p].shell}

\* Mutant: y grows with every surface
SurfacesBefore(s, p) == {q \in DOMAIN s : q < p}

ShellsBefore(s, p) == {q \in Shells(s) : q < p}

\* The height of a strip; relayoutSurfaces returns early without shells
StripHeight(s) == Height \div Cardinality(Shells(s))

\* relayoutSurfaces: y grows by one strip with every shell surface
Relayouted(s) ==
  [p \in DOMAIN s |->
     IF s[p].shell
     THEN [s[p] EXCEPT !.y = Cardinality(ShellsBefore(s, p)) * StripHeight(s)]
     ELSE s[p]]

\* copyShmBufferToDisplay writes the rows of a frame that are on the display
Covers(s, p, r) == s[p].y <= r /\ r < s[p].y + s[p].frame

\* Mutant: the list is painted from its end
ComposedBackwards(s) ==
  [r \in Rows |->
     LET covering == {p \in DOMAIN s : Covers(s, p, r)}
     IN  IF covering = {} THEN Background
         ELSE CHOOSE p \in covering : \A q \in covering : p <= q]

\* clearDisplay, then every surface over those before it
Composed(s) ==
  [r \in Rows |->
     LET covering == {p \in DOMAIN s : Covers(s, p, r)}
     IN  IF covering = {} THEN Background
         ELSE CHOOSE p \in covering : \A q \in covering : q <= p]

Repaint ==
  /\ list' = Relayouted(list)
  /\ display' = Composed(list')
  /\ painted' = TRUE

Next ==
  \/ CreateSurface
  \/ \E p \in DOMAIN list : GetShellSurface(p)
  \/ \E p \in DOMAIN list, h \in FrameHeights : Commit(p, h)
  \/ \E p \in DOMAIN list : Notify(p)
  \/ Repaint

Spec == Init /\ [][Next]_vars

-----------------------------------------------------------------------------
(* Properties *)

Strip(p) == list[p].y .. list[p].y + StripHeight(list) - 1

(* After a repaint the shell surfaces have strips of their own inside the  *)
(* display, one below the other in the order of their creation: the        *)
(* positions set by earlier repaints, when there were more or fewer of     *)
(* them, are all replaced.                                                 *)
StripsAreDisjoint ==
  painted =>
    \A p, q \in Shells(list) :
      /\ Strip(p) \subseteq Rows
      /\ p < q => list[p].y + StripHeight(list) <= list[q].y

(* A shell surface is seen in every row of its strip that its frame        *)
(* covers, although the frames above reach into it: only a surface that is *)
(* no shell surface and was created later may hide it.                     *)
StripsAreSeen ==
  painted =>
    \A p \in Shells(list) : \A r \in Strip(p) :
      Covers(list, p, r) =>
        \/ display[r] = p
        \/ display[r] > p /\ ~ list[display[r]].shell
=============================================================================

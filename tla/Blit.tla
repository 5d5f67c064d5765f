-------------------------------- MODULE Blit --------------------------------
(***************************************************************************)
(* Compositor::copyShmBufferToDisplay: one frame of w by h pixels copied   *)
(* to the display at (posX, posY), clipped, line by line.  The position is *)
(* what the client attached with, plus what the layout adds; nothing       *)
(* checks it.  The rows of the buffer are a stride apart, which the client *)
(* chooses too and the code never asks for.  libwayland compares a stride  *)
(* in bytes with a width in pixels, so rows may even overlap.              *)
(*                                                                         *)
(* Offsets and sizes count pixels: every quantity of the code is a         *)
(* multiple of BYTES_PER_PIXEL.  Memory is what the two pointers reach; an *)
(* access outside is undefined behaviour, and the copy is then at fault.   *)
(* Pixels are opaque: the one copied last is the one seen.  Overflow of    *)
(* the int32_t arithmetic itself is not modelled, and the assumptions      *)
(* exclude the displays and positions that overflow by themselves.         *)
(***************************************************************************)
EXTENDS Integers

CONSTANTS Width,          \* mDisplayWidth
          Height,         \* mDisplayHeight
          Sizes,          \* widths and heights of frames
          Positions,      \* coordinates a frame is copied to
          Paddings        \* what the rows are apart more than they are wide

ASSUME BlitAssumption ==
  /\ Width \in Nat \ {0} /\ Height \in Nat \ {0}
  /\ Sizes \subseteq Nat \ {0}
  /\ Positions \subseteq Int
  /\ Paddings \subseteq Int

\* The bytes of the display, and every position in bytes and its negative, are
\* int32_t values
ASSUME Int32Assumption ==
  /\ 4 * (Width * Height) <= 2147483647
  /\ \A p \in Positions : -2147483647 <= 4 * p /\ 4 * p <= 2147483647

\* The size blitLine gets for a negative lineSize, a uint32_t of bytes
Wrapped(n) == IF n < 0 THEN 2^30 + n ELSE n

Smaller(m, n) == IF m < n THEN m ELSE n

Background == -1

Pixels == 0 .. Width * Height - 1

VARIABLES w, h, stride,   \* size of the frame, and what its rows are apart
          posX, posY,     \* the arguments
          y,              \* line counter of the loop
          offsetSrc, offsetDst,
          display,        \* mDisplayBuffer: the source pixel seen, per pixel
          status          \* "ready", "copying", "done" or "fault"

arguments == <<w, h, stride, posX, posY>>
vars == <<arguments, y, offsetSrc, offsetDst, display, status>>

Init ==
  /\ w \in Sizes /\ h \in Sizes
  /\ \E p \in Paddings : stride = w + p /\ 4 * stride >= w
  /\ posX \in Positions /\ posY \in Positions
  /\ y = 0 /\ offsetSrc = 0 /\ offsetDst = 0
  /\ display = [i \in Pixels |-> Background]
  /\ status = "ready"

-----------------------------------------------------------------------------
Left == IF posX < 0 THEN 0 ELSE posX

\* Columns left of the display, skipped in the frame
Skipped == Left - posX

\* Mutant: the skipped columns are not taken off
LineSizeUnskipped == Smaller(w, Width - posX)

LineSize == Smaller(w, Width - posX) - Skipped

NrOfLines == Smaller(posY + h, Height)

\* Mutant: the frame is read from its first column
ClipFromFirstColumn ==
  /\ status = "ready"
  /\ y' = posY
  /\ offsetSrc' = 0
  /\ offsetDst' = posY * Width + Left
  /\ status' = "copying"
  /\ UNCHANGED <<arguments, display>>

\* The assignments before the loop
Clip ==
  /\ status = "ready"
  /\ y' = posY
  /\ offsetSrc' = Skipped
  /\ offsetDst' = posY * Width + Left
  /\ status' = "copying"
  /\ UNCHANGED <<arguments, display>>

\* Does blitLine stay inside both buffers?
LineInBounds ==
  LET n == Wrapped(LineSize)
  IN  n > 0 =>
        /\ offsetDst >= 0 /\ offsetDst + n <= Width * Height
        /\ offsetSrc >= 0 /\ offsetSrc + n <= stride * h

BlitLine ==
  display' = [i \in Pixels |->
                IF offsetDst <= i /\ i < offsetDst + LineSize
                THEN offsetSrc + (i - offsetDst) ELSE display[i]]

\* One turn of the loop: the next row is taken to start where this one ends
CopyLine ==
  /\ status = "copying"
  /\ y < NrOfLines
  /\ LineInBounds
  /\ BlitLine
  /\ y' = y + 1
  /\ offsetDst' = offsetDst + Width
  /\ offsetSrc' = offsetSrc + w
  /\ UNCHANGED <<arguments, status>>

\* blitLine leaves one of the buffers
Fault ==
  /\ status = "copying"
  /\ y < NrOfLines
  /\ ~ LineInBounds
  /\ status' = "fault"
  /\ UNCHANGED <<arguments, y, offsetSrc, offsetDst, display>>

Return ==
  /\ status = "copying"
  /\ y >= NrOfLines
  /\ status' = "done"
  /\ UNCHANGED <<arguments, y, offsetSrc, offsetDst, display>>

Next == Clip \/ CopyLine \/ Fault \/ Return

Spec == Init /\ [][Next]_vars

-----------------------------------------------------------------------------
(* Properties *)

\* No row above the display, no column further left or right than one frame
\* or one display
SafePosition == posY >= 0 /\ -w <= posX /\ posX <= Width

(* From a safe position the copy never leaves a buffer, for every size of  *)
(* frame and display, the bottom being clipped for any posY, if the rows   *)
(* do not overlap.  From every other position it does, and so does not     *)
(* come to its end, unless the frame lies below the display or beside it   *)
(* without a pixel.                                                        *)
FaultsWhenUnsafe ==
  /\ status = "fault" => ~ SafePosition \/ stride < w
  /\ status = "done" => SafePosition \/ posY >= Height \/ LineSize = 0

\* The pixel of the frame that belongs to pixel i of the display
Expected(i) ==
  LET row == (i \div Width) - posY
      col == (i % Width) - posX
  IN  IF row \in 0 .. h - 1 /\ col \in 0 .. w - 1
      THEN row * stride + col ELSE Background

\* Do the rows after the first leave anything to see?
SeveralRows == LineSize > 0 /\ NrOfLines > posY + 1

(* A copy that comes to its end shows the part of the frame that lies on   *)
(* the display, at its place, and nothing else, exactly when the rows      *)
(* follow each other without a gap or an overlap, or at most one of them   *)
(* is seen: blitLine steps through the frame by its width, not its stride. *)
CopiesTheClip ==
  status = "done" =>
    ((\A i \in Pixels : display[i] = Expected(i)) <=> stride = w \/ ~ SeveralRows)
=============================================================================

------------------------------ MODULE BlitProofs ------------------------------
(***************************************************************************)
(* Proofs about module Blit, for every display, frame, position and stride *)
(* that int32_t offsets can express.                                       *)
(*                                                                         *)
(* The loop invariant gives the two offsets as products and says which     *)
(* pixels of the display are already copied.  What is left is that the     *)
(* rows and columns copied are those in which frame and display overlap.   *)
(***************************************************************************)
EXTENDS Blit, TLAPS

-----------------------------------------------------------------------------
(* Rows and columns *)

Row(i) == i \div Width
Col(i) == i % Width

(* A pixel of the display lies in one row and one column.                  *)
LEMMA PixelPlace ==
  ASSUME NEW i \in Pixels
  PROVE  /\ i \in Nat
         /\ Row(i) \in 0 .. Height - 1 /\ Col(i) \in 0 .. Width - 1
         /\ i = Row(i) * Width + Col(i)
<1>1. Width \in Nat \ {0} /\ Height \in Nat \ {0} /\ Width * Height \in Nat
  BY BlitAssumption
<1>2. i \in Nat /\ i < Width * Height
  BY <1>1 DEF Pixels
<1>3. i = Row(i) * Width + Col(i)
  BY <1>1, <1>2 DEF Row, Col
<1>4. Col(i) \in Nat /\ Col(i) < Width /\ Row(i) \in Int /\ Row(i) >= 0
  BY <1>1, <1>2 DEF Row, Col
<1>5. Row(i) < Height
  <2>1. ASSUME Row(i) >= Height PROVE FALSE
    <3> DEFINE r == Row(i)
    <3>1. r \in Int /\ r >= Height
      BY <1>4, <2>1
    <3>2. i = r * Width + Col(i)
      BY <1>3
    <3> HIDE DEF r
    <3>3. r * Width >= Height * Width
      BY <1>1, <3>1
    <3>4. QED
      BY <1>1, <1>2, <1>4, <3>1, <3>2, <3>3
  <2>2. QED
    BY <1>1, <1>4, <2>1
<1>6. QED
  BY <1>1, <1>2, <1>3, <1>4, <1>5

(* What lies between two places of a row lies in that row.                 *)
LEMMA RowInterval ==
  ASSUME NEW i \in Pixels, NEW a \in Int, NEW l \in Nat, NEW n \in Nat,
         l + n <= Width
  PROVE  a * Width + l <= i /\ i < (a * Width + l) + n
           <=> Row(i) = a /\ l <= Col(i) /\ Col(i) < l + n
<1> DEFINE r == Row(i)
           c == Col(i)
<1>1. /\ Width \in Nat \ {0} /\ r \in Int /\ c \in Nat /\ c < Width
      /\ i = r * Width + c /\ i \in Nat
  BY PixelPlace, BlitAssumption
<1> HIDE DEF r, c
<1>2. r * Width \in Int /\ a * Width \in Int
  BY <1>1
<1>3. CASE r = a
  BY <1>1, <1>2, <1>3 DEF r, c
<1>4. CASE r < a
  <2>1. r * Width + Width <= a * Width
    BY <1>1, <1>4
  <2>2. QED
    BY <1>1, <1>2, <1>4, <2>1 DEF r
<1>5. CASE r > a
  <2>1. a * Width + Width <= r * Width
    BY <1>1, <1>5
  <2>2. QED
    BY <1>1, <1>2, <1>5, <2>1 DEF r
<1>6. QED
  BY <1>1, <1>3, <1>4, <1>5

-----------------------------------------------------------------------------
(* The invariant *)

ArgumentsOK ==
  /\ w \in Nat \ {0} /\ h \in Nat \ {0} /\ stride \in Int
  /\ posX \in Positions /\ posY \in Positions
  /\ posX \in Int /\ posY \in Int

\* The offsets of line y
Offsets ==
  /\ y \in Int /\ y >= posY /\ (y = posY \/ y <= NrOfLines)
  /\ offsetSrc = Skipped + (y - posY) * w
  /\ offsetDst = y * Width + Left

\* The columns of the display on which the frame lies
InColumns(i) == Left <= Col(i) /\ Col(i) < Left + LineSize

\* The display once the lines up to line z are copied
Shown(z, i) ==
  IF posY <= Row(i) /\ Row(i) < z /\ InColumns(i)
  THEN (Skipped + (Row(i) - posY) * w) + (Col(i) - Left) ELSE Background

\* A line is copied only from a safe position, or if nothing is to be copied
OnlySafe == y > posY => LineSize = 0 \/ (LineSize > 0 /\ SafePosition)

IInv ==
  /\ ArgumentsOK
  /\ status \in {"ready", "copying", "done", "fault"}
  /\ status = "ready" => \A i \in Pixels : display[i] = Background
  /\ DOMAIN display = Pixels
  /\ status \in {"copying", "done"} =>
       /\ Offsets /\ OnlySafe
       /\ \A i \in Pixels : display[i] = Shown(y, i)
  /\ status = "done" => y >= NrOfLines
  /\ status = "fault" => ~ SafePosition \/ stride < w

(* The sizes and positions that the code computes with before its loop.    *)
LEMMA ClipBounds ==
  ASSUME ArgumentsOK
  PROVE  /\ Width \in Nat \ {0} /\ Height \in Nat \ {0}
         /\ w \in Nat /\ w > 0 /\ h \in Nat /\ h > 0 /\ posX \in Int /\ posY \in Int
         /\ Left \in Nat /\ Skipped \in Nat /\ LineSize \in Int /\ NrOfLines \in Int
         /\ Left - Skipped = posX /\ (Left = 0 \/ Skipped = 0)
         /\ Left + LineSize <= Width /\ Skipped + LineSize <= w
         /\ NrOfLines <= Height /\ NrOfLines <= posY + h
         /\ NrOfLines = Height \/ NrOfLines = posY + h
         /\ Left + LineSize = Width \/ Skipped + LineSize = w
         /\ LineSize >= 0 => -w <= posX /\ posX <= Width
         /\ -w <= posX /\ posX <= Width => LineSize >= 0
         /\ LineSize < 0 => LineSize > -536870912
<1>1. Width \in Nat \ {0} /\ Height \in Nat \ {0}
  BY BlitAssumption
<1>2. w \in Nat /\ w > 0 /\ h \in Nat /\ h > 0 /\ posX \in Int /\ posY \in Int
  BY DEF ArgumentsOK
<1>3. -2147483647 <= 4 * posX /\ 4 * posX <= 2147483647
  BY Int32Assumption DEF ArgumentsOK
<1>4. Left \in Nat /\ Left = IF posX < 0 THEN 0 ELSE posX
  BY <1>2 DEF Left
<1>5. Skipped \in Nat /\ Skipped = IF posX < 0 THEN -posX ELSE 0
  BY <1>2, <1>4 DEF Skipped
<1>6. LineSize = (IF w < Width - posX THEN w ELSE Width - posX) - Skipped
  BY DEF LineSize, Smaller
<1>7. NrOfLines = IF posY + h < Height THEN posY + h ELSE Height
  BY DEF NrOfLines, Smaller
<1>8. QED
  BY <1>1, <1>2, <1>3, <1>4, <1>5, <1>6, <1>7

-----------------------------------------------------------------------------
(* The steps *)

(* The invariant holds of every frame and position the copy starts with.   *)
LEMMA InitIInv == Init => IInv
<1> SUFFICES ASSUME Init PROVE IInv
  OBVIOUS
<1>1. w \in Nat \ {0} /\ h \in Nat \ {0} /\ posX \in Int /\ posY \in Int
  BY BlitAssumption DEF Init
<1>2. stride \in Int
  <2>1. PICK p \in Paddings : stride = w + p
    BY DEF Init
  <2>2. p \in Int
    BY <2>1, BlitAssumption
  <2>3. QED
    BY <1>1, <2>1, <2>2
<1>3. ArgumentsOK
  BY <1>1, <1>2 DEF Init, ArgumentsOK
<1>4. status = "ready" /\ DOMAIN display = Pixels
      /\ \A i \in Pixels : display[i] = Background
  BY DEF Init
<1>5. QED
  BY <1>3, <1>4 DEF IInv

(* What the code computes from its arguments is the same in every line.    *)
LEMMA ArgumentsStay ==
  ASSUME UNCHANGED arguments, ArgumentsOK
  PROVE  /\ ArgumentsOK'
         /\ Left' = Left /\ Skipped' = Skipped /\ LineSize' = LineSize
         /\ NrOfLines' = NrOfLines /\ (SafePosition' <=> SafePosition)
         /\ w' = w /\ h' = h /\ stride' = stride /\ posX' = posX /\ posY' = posY
BY DEF arguments, ArgumentsOK, Left, Skipped, LineSize, NrOfLines, Smaller, SafePosition

(* A line that is copied has no negative size: its uint32_t would be       *)
(* larger than the display.                                                *)
LEMMA CopiedSize ==
  ASSUME ArgumentsOK, Offsets, LineInBounds
  PROVE  LineSize >= 0
<1>1. Width \in Nat /\ Height \in Nat /\ Width * Height \in Nat
      /\ 4 * (Width * Height) <= 2147483647
  BY BlitAssumption, Int32Assumption
<1>2. LineSize \in Int /\ (LineSize < 0 => LineSize > -536870912)
  BY ClipBounds
<1>3. SUFFICES ASSUME LineSize < 0 PROVE FALSE
  BY <1>2
<1>4. Wrapped(LineSize) = 1073741824 + LineSize
  BY <1>2, <1>3 DEF Wrapped
<1>5. offsetDst \in Int
  BY <1>1, ClipBounds DEF Offsets
<1>6. offsetDst >= 0 /\ offsetDst + (1073741824 + LineSize) <= Width * Height
  BY <1>2, <1>3, <1>4 DEF LineInBounds
<1>7. QED
  BY <1>1, <1>2, <1>3, <1>5, <1>6

(* The first line that is copied, if it has pixels, is not above the       *)
(* display.                                                                *)
LEMMA CopiedFromSafe ==
  ASSUME ArgumentsOK, Offsets, LineInBounds, LineSize > 0, y = posY
  PROVE  SafePosition
<1>1. /\ Width \in Nat \ {0} /\ Left \in Nat /\ LineSize \in Int /\ posY \in Int
      /\ Left + LineSize <= Width
      /\ LineSize >= 0 => -w <= posX /\ posX <= Width
  BY ClipBounds
<1>2. Wrapped(LineSize) = LineSize
  BY <1>1 DEF Wrapped
<1>3. offsetDst >= 0 /\ offsetDst = posY * Width + Left
  BY <1>1, <1>2 DEF LineInBounds, Offsets
<1>4. posY >= 0
  <2>1. SUFFICES ASSUME posY <= -1 PROVE FALSE
    BY <1>1
  <2>2. posY * Width <= (-1) * Width
    BY <1>1, <2>1
  <2>3. posY * Width \in Int
    BY <1>1
  <2>4. QED
    BY <1>1, <1>3, <2>2, <2>3
<1>5. QED
  BY <1>1, <1>4 DEF SafePosition

(* From a safe position, with rows that do not overlap, every line stays   *)
(* inside both buffers.                                                    *)
LEMMA SafeStaysInside ==
  ASSUME ArgumentsOK, Offsets, y < NrOfLines, SafePosition, stride >= w
  PROVE  LineInBounds
<1>1. /\ Width \in Nat \ {0} /\ Height \in Nat \ {0}
      /\ w \in Nat /\ w > 0 /\ h \in Nat /\ h > 0 /\ posX \in Int /\ posY \in Int
      /\ Left \in Nat /\ Skipped \in Nat /\ LineSize \in Int /\ NrOfLines \in Int
      /\ Left + LineSize <= Width /\ Skipped + LineSize <= w
      /\ NrOfLines <= Height /\ NrOfLines <= posY + h
      /\ -w <= posX /\ posX <= Width => LineSize >= 0
  BY ClipBounds
<1>2. LineSize >= 0 /\ posY >= 0 /\ stride \in Int
  BY <1>1 DEF SafePosition, ArgumentsOK
<1>3. Wrapped(LineSize) = LineSize
  BY <1>1, <1>2 DEF Wrapped
<1>4. y \in Int /\ y >= posY /\ y + 1 <= Height /\ (y - posY) + 1 <= h
      /\ offsetSrc = Skipped + (y - posY) * w /\ offsetDst = y * Width + Left
  BY <1>1 DEF Offsets
<1>5. y * Width >= 0 /\ y * Width + Width <= Width * Height /\ y * Width \in Int
  <2>1. (y + 1) * Width <= Height * Width
    BY <1>1, <1>2, <1>4
  <2>2. QED
    BY <1>1, <1>2, <1>4, <2>1
<1>6. (y - posY) * w >= 0 /\ (y - posY) * w + w <= stride * h
      /\ (y - posY) * w \in Int
  <2> DEFINE k == y - posY
  <2>1. k \in Nat /\ k + 1 <= h
    BY <1>1, <1>4
  <2> HIDE DEF k
  <2>2. (k + 1) * w <= h * w
    BY <1>1, <2>1
  <2>3. h * w <= h * stride
    BY <1>1, <1>2
  <2>4. k * w >= 0 /\ k * w + w <= stride * h /\ k * w \in Int
    BY <1>1, <1>2, <2>1, <2>2, <2>3
  <2>5. QED
    BY <2>4 DEF k
<1>7. QED
  <2> DEFINE a == y * Width
             b == (y - posY) * w
             c == Width * Height
             d == stride * h
  <2>1. /\ a \in Int /\ a >= 0 /\ a + Width <= c /\ offsetDst = a + Left
        /\ b \in Int /\ b >= 0 /\ b + w <= d /\ offsetSrc = Skipped + b
        /\ c \in Int /\ d \in Int
    BY <1>1, <1>2, <1>4, <1>5, <1>6
  <2> HIDE DEF a, b, c, d
  <2>2. /\ offsetDst >= 0 /\ offsetDst + LineSize <= c
        /\ offsetSrc >= 0 /\ offsetSrc + LineSize <= d
    BY <1>1, <1>2, <2>1
  <2>3. QED
    BY <1>3, <2>2 DEF LineInBounds, c, d

(* Copying a line shows one row more of the frame.                         *)
LEMMA CopyShowsRow ==
  ASSUME ArgumentsOK, Offsets, LineSize >= 0, BlitLine,
         NEW i \in Pixels, display[i] = Shown(y, i)
  PROVE  display'[i] = Shown(y + 1, i)
<1>1. /\ Width \in Nat \ {0} /\ w \in Nat /\ posY \in Int
      /\ Left \in Nat /\ Skipped \in Nat /\ LineSize \in Nat
      /\ Left + LineSize <= Width
  BY ClipBounds
<1>2. y \in Int /\ y >= posY
      /\ offsetSrc = Skipped + (y - posY) * w /\ offsetDst = y * Width + Left
  BY DEF Offsets
<1>3. /\ i \in Nat /\ Row(i) \in Nat /\ Col(i) \in Nat
      /\ i = Row(i) * Width + Col(i)
  BY PixelPlace, BlitAssumption
<1>4. offsetDst <= i /\ i < offsetDst + LineSize <=> Row(i) = y /\ InColumns(i)
  BY <1>1, <1>2, RowInterval DEF InColumns
<1>5. display'[i] = IF offsetDst <= i /\ i < offsetDst + LineSize
                    THEN offsetSrc + (i - offsetDst) ELSE display[i]
  BY DEF BlitLine
<1>6. CASE Row(i) = y /\ InColumns(i)
  <2>1. i - offsetDst = Col(i) - Left
    <3> DEFINE a == y * Width
    <3>1. /\ a \in Int /\ i \in Int /\ Col(i) \in Int /\ Left \in Int
          /\ i = a + Col(i) /\ offsetDst = a + Left
      BY <1>1, <1>2, <1>3, <1>6
    <3> HIDE DEF a
    <3>2. QED
      BY <3>1
  <2>2. display'[i] = (Skipped + (Row(i) - posY) * w) + (Col(i) - Left)
    BY <1>2, <1>4, <1>5, <1>6, <2>1
  <2>3. Shown(y + 1, i) = (Skipped + (Row(i) - posY) * w) + (Col(i) - Left)
    BY <1>1, <1>2, <1>6 DEF Shown
  <2>4. QED
    BY <2>2, <2>3
<1>7. CASE ~ (Row(i) = y /\ InColumns(i))
  <2>1. display'[i] = Shown(y, i)
    BY <1>4, <1>5, <1>7
  <2>2. posY <= Row(i) /\ Row(i) < y + 1 /\ InColumns(i)
          <=> posY <= Row(i) /\ Row(i) < y /\ InColumns(i)
    BY <1>1, <1>2, <1>3, <1>7
  <2>3. Shown(y + 1, i) = Shown(y, i)
    BY <2>2 DEF Shown
  <2>4. QED
    BY <2>1, <2>3
<1>8. QED
  BY <1>6, <1>7

(* Every step keeps the invariant.                                         *)
LEMMA NextIInv == IInv /\ [Next]_vars => IInv'
<1> SUFFICES ASSUME IInv, [Next]_vars PROVE IInv'
  OBVIOUS
<1>1. UNCHANGED arguments
  BY DEF vars, Next, Clip, CopyLine, Fault, Return
<1>2. ArgumentsOK
  BY DEF IInv
<1>3. /\ ArgumentsOK'
      /\ Left' = Left /\ Skipped' = Skipped /\ LineSize' = LineSize
      /\ NrOfLines' = NrOfLines /\ (SafePosition' <=> SafePosition)
      /\ w' = w /\ h' = h /\ stride' = stride /\ posX' = posX /\ posY' = posY
  BY <1>1, <1>2, ArgumentsStay
<1>5. /\ Width \in Nat \ {0} /\ w \in Nat /\ posY \in Int /\ posX \in Int
      /\ Left \in Nat /\ Skipped \in Nat /\ LineSize \in Int /\ NrOfLines \in Int
  BY <1>2, ClipBounds
<1>6. ASSUME Clip PROVE IInv'
  <2>1. /\ status = "ready" /\ status' = "copying" /\ display' = display
        /\ y' = posY /\ offsetSrc' = Skipped /\ offsetDst' = posY * Width + Left
    BY <1>6 DEF Clip
  <2>2. Offsets'
    <3>1. Skipped = Skipped + (posY - posY) * w
      BY <1>5
    <3>2. QED
      BY <1>3, <1>5, <2>1, <3>1 DEF Offsets
  <2>3. OnlySafe'
    BY <1>3, <1>5, <2>1 DEF OnlySafe
  <2>4. DOMAIN display' = Pixels
    BY <2>1 DEF IInv
  <2>5. ASSUME NEW i \in Pixels PROVE display'[i] = Shown(y, i)'
    <3>1. display'[i] = Background
      BY <2>1 DEF IInv
    <3>2. Row(i) \in Nat
      BY PixelPlace
    <3>3. ~ (posY <= Row(i) /\ Row(i) < y')
      BY <1>5, <2>1, <3>2
    <3>4. QED
      BY <1>3, <3>1, <3>3 DEF Shown, Row
  <2>6. QED
    BY <1>3, <2>1, <2>2, <2>3, <2>4, <2>5 DEF IInv, Pixels
<1>7. ASSUME CopyLine PROVE IInv'
  <2>1. /\ status = "copying" /\ status' = "copying" /\ y < NrOfLines
        /\ LineInBounds /\ BlitLine /\ y' = y + 1
        /\ offsetDst' = offsetDst + Width /\ offsetSrc' = offsetSrc + w
    BY <1>7 DEF CopyLine
  <2>2. Offsets /\ OnlySafe /\ \A i \in Pixels : display[i] = Shown(y, i)
    BY <2>1 DEF IInv
  <2>3. LineSize >= 0
    BY <1>2, <2>1, <2>2, CopiedSize
  <2>4. Offsets'
    <3>1. /\ y \in Int /\ y >= posY
          /\ offsetSrc = Skipped + (y - posY) * w /\ offsetDst = y * Width + Left
      BY <2>2 DEF Offsets
    <3>2. (y + 1) * Width + Left = (y * Width + Left) + Width
      BY <1>5, <3>1
    <3>3. Skipped + ((y + 1) - posY) * w = (Skipped + (y - posY) * w) + w
      BY <1>5, <3>1
    <3>4. y' \in Int /\ y' >= posY /\ y' <= NrOfLines
      BY <1>5, <2>1, <3>1
    <3>5. offsetSrc' = Skipped + (y' - posY) * w /\ offsetDst' = y' * Width + Left
      BY <2>1, <3>1, <3>2, <3>3
    <3>6. QED
      BY <1>3, <3>4, <3>5 DEF Offsets
  <2>5. OnlySafe'
    <3>1. LineSize = 0 \/ (LineSize > 0 /\ SafePosition)
      <4>1. CASE LineSize = 0
        BY <4>1
      <4>2. CASE LineSize > 0 /\ y = posY
        BY <1>2, <2>1, <2>2, <4>2, CopiedFromSafe
      <4>3. CASE y > posY
        BY <2>2, <4>3 DEF OnlySafe
      <4>4. QED
        BY <1>5, <2>2, <2>3, <4>1, <4>2, <4>3 DEF Offsets
    <3>2. QED
      BY <1>3, <3>1 DEF OnlySafe
  <2>6. DOMAIN display' = Pixels
    BY <2>1 DEF BlitLine
  <2>7. ASSUME NEW i \in Pixels PROVE display'[i] = Shown(y, i)'
    <3>1. display'[i] = Shown(y + 1, i)
      BY <1>2, <2>1, <2>2, <2>3, CopyShowsRow
    <3>2. Shown(y, i)' = Shown(y + 1, i)
      BY <1>3, <2>1 DEF Shown, InColumns, Row, Col
    <3>3. QED
      BY <3>1, <3>2
  <2>8. QED
    BY <1>3, <2>1, <2>4, <2>5, <2>6, <2>7 DEF IInv, Pixels
<1>8. ASSUME status' \in {status, "done", "fault"}, status' = "done" => status \in {"copying", "done"},
             UNCHANGED <<y, offsetSrc, offsetDst, display>>,
             status' = "done" => y >= NrOfLines,
             status' = "fault" => ~ SafePosition \/ stride < w
      PROVE  IInv'
  <2>1. Offsets' <=> Offsets
    BY <1>3, <1>8 DEF Offsets
  <2>2. OnlySafe' <=> OnlySafe
    BY <1>3, <1>8 DEF OnlySafe
  <2>3. ASSUME NEW i \in Pixels PROVE Shown(y, i)' = Shown(y, i)
    BY <1>3, <1>8 DEF Shown, InColumns, Row, Col
  <2>4. QED
    BY <1>3, <1>8, <2>1, <2>2, <2>3 DEF IInv, Pixels
<1>9. ASSUME Fault PROVE IInv'
  <2>1. /\ status = "copying" /\ status' = "fault" /\ y < NrOfLines /\ ~ LineInBounds
        /\ UNCHANGED <<y, offsetSrc, offsetDst, display>>
    BY <1>9 DEF Fault
  <2>2. Offsets
    BY <2>1 DEF IInv
  <2>3. ~ SafePosition \/ stride < w
    BY <1>2, <1>5, <2>1, <2>2, SafeStaysInside DEF ArgumentsOK
  <2>4. QED
    BY <1>8, <2>1, <2>3
<1>10. ASSUME Return PROVE IInv'
  <2>1. /\ status = "copying" /\ status' = "done" /\ y >= NrOfLines
        /\ UNCHANGED <<y, offsetSrc, offsetDst, display>>
    BY <1>10 DEF Return
  <2>2. QED
    BY <1>8, <2>1
<1>11. ASSUME UNCHANGED vars PROVE IInv'
  BY <1>8, <1>11 DEF vars, IInv
<1>12. QED
  BY <1>6, <1>7, <1>9, <1>10, <1>11 DEF Next

(* The two offsets are the products of line and row length, and the        *)
(* display shows the rows copied so far, throughout every copy.            *)
THEOREM BlitInvariant == Spec => []IInv
<1>1. Init => IInv
  BY InitIInv
<1>2. IInv /\ [Next]_vars => IInv'
  BY NextIInv
<1>3. QED
  BY <1>1, <1>2, PTL DEF Spec

(* FaultsWhenUnsafe for every frame, display and position: a copy from a   *)
(* safe position never leaves a buffer, one from elsewhere does unless it  *)
(* has nothing to copy.                                                    *)
THEOREM BlitFaults == Spec => []FaultsWhenUnsafe
<1>1. IInv => FaultsWhenUnsafe
  <2> SUFFICES ASSUME IInv PROVE FaultsWhenUnsafe
    OBVIOUS
  <2>1. status = "fault" => ~ SafePosition \/ stride < w
    BY DEF IInv
  <2>2. ASSUME status = "done" PROVE SafePosition \/ posY >= Height \/ LineSize = 0
    <3>1. ArgumentsOK /\ Offsets /\ OnlySafe /\ y >= NrOfLines
      BY <2>2 DEF IInv
    <3>2. /\ h \in Nat /\ h > 0 /\ posY \in Int /\ NrOfLines \in Int
          /\ NrOfLines = Height \/ NrOfLines = posY + h
      BY <3>1, ClipBounds
    <3>3. CASE y = posY
      BY <3>1, <3>2, <3>3
    <3>4. CASE y > posY
      BY <3>1, <3>4 DEF OnlySafe
    <3>5. QED
      BY <3>1, <3>2, <3>3, <3>4 DEF Offsets
  <2>3. QED
    BY <2>1, <2>2 DEF FaultsWhenUnsafe
<1>2. QED
  BY <1>1, BlitInvariant, PTL

-----------------------------------------------------------------------------
(* The picture *)

\* Does pixel i of the display lie on the frame?
OnFrame(i) ==
  /\ posY <= Row(i) /\ Row(i) < posY + h
  /\ posX <= Col(i) /\ Col(i) < posX + w

\* The pixel of the frame shown there, if its rows are s apart
FromFrame(i, s) == (Row(i) - posY) * s + (Col(i) - posX)

(* What belongs to a pixel of the display, in terms of OnFrame.            *)
LEMMA ExpectedPixel ==
  ASSUME ArgumentsOK, NEW i \in Pixels
  PROVE  Expected(i) = IF OnFrame(i) THEN FromFrame(i, stride) ELSE Background
<1>1. /\ Row(i) \in Nat /\ Col(i) \in Nat
      /\ w \in Nat /\ h \in Nat /\ posX \in Int /\ posY \in Int
  BY PixelPlace, BlitAssumption, ClipBounds
<1>2. OnFrame(i) <=> Row(i) - posY \in 0 .. h - 1 /\ Col(i) - posX \in 0 .. w - 1
  BY <1>1 DEF OnFrame
<1>3. Expected(i) =
        IF Row(i) - posY \in 0 .. h - 1 /\ Col(i) - posX \in 0 .. w - 1
        THEN FromFrame(i, stride) ELSE Background
  BY DEF Expected, FromFrame, Row, Col
<1>4. QED
  BY <1>2, <1>3

(* A copy at its end has shown every pixel of the display on which the     *)
(* frame lies, read as if its rows were its width apart.                   *)
LEMMA ShownPixel ==
  ASSUME ArgumentsOK, Offsets, y >= NrOfLines, NEW i \in Pixels
  PROVE  Shown(y, i) = IF OnFrame(i) THEN FromFrame(i, w) ELSE Background
<1>1. /\ Row(i) \in Nat /\ Row(i) < Height /\ Col(i) \in Nat /\ Col(i) < Width
      /\ Width \in Nat /\ Height \in Nat
  BY PixelPlace, BlitAssumption
<1>2. /\ w \in Nat /\ h \in Nat /\ h > 0 /\ posX \in Int /\ posY \in Int
      /\ Left \in Nat /\ Skipped \in Nat /\ LineSize \in Int /\ NrOfLines \in Int
      /\ Left - Skipped = posX /\ (Left = 0 \/ Skipped = 0)
      /\ Left + LineSize <= Width /\ Skipped + LineSize <= w
      /\ NrOfLines <= Height /\ NrOfLines <= posY + h
      /\ NrOfLines = Height \/ NrOfLines = posY + h
      /\ Left + LineSize = Width \/ Skipped + LineSize = w
  BY ClipBounds
<1>3. y \in Int /\ y >= posY /\ (y = posY \/ y = NrOfLines)
  BY <1>2 DEF Offsets
<1>4. InColumns(i) <=> posX <= Col(i) /\ Col(i) < posX + w
  BY <1>1, <1>2 DEF InColumns
<1>5. posY <= Row(i) /\ Row(i) < y <=> posY <= Row(i) /\ Row(i) < posY + h
  BY <1>1, <1>2, <1>3
<1>6. posY <= Row(i) /\ Row(i) < y /\ InColumns(i) <=> OnFrame(i)
  BY <1>4, <1>5 DEF OnFrame
<1>7. (Skipped + (Row(i) - posY) * w) + (Col(i) - Left) = FromFrame(i, w)
  <2> DEFINE a == (Row(i) - posY) * w
  <2>1. a \in Int
    BY <1>1, <1>2
  <2> HIDE DEF a
  <2>2. (Skipped + a) + (Col(i) - Left) = a + (Col(i) - posX)
    BY <1>1, <1>2, <2>1
  <2>3. QED
    BY <2>2 DEF a, FromFrame
<1>8. QED
  BY <1>6, <1>7 DEF Shown

(* Rows a gap or an overlap apart show: the first pixel of the second row  *)
(* is another one than the one read.                                       *)
LEMMA SecondRowShows ==
  ASSUME ArgumentsOK, SeveralRows, posY >= 0, stride # w
  PROVE  \E i \in Pixels : OnFrame(i) /\ FromFrame(i, w) # FromFrame(i, stride)
<1>1. /\ Width \in Nat \ {0} /\ Height \in Nat \ {0}
      /\ w \in Nat /\ h \in Nat /\ posX \in Int /\ posY \in Int
      /\ Left \in Nat /\ Skipped \in Nat /\ LineSize \in Int /\ NrOfLines \in Int
      /\ Left - Skipped = posX
      /\ Left + LineSize <= Width /\ Skipped + LineSize <= w
      /\ NrOfLines <= Height /\ NrOfLines <= posY + h
  BY ClipBounds
<1>2. LineSize > 0 /\ NrOfLines > posY + 1 /\ stride \in Int
  BY DEF SeveralRows, ArgumentsOK
<1> DEFINE r == posY + 1
           i == r * Width + Left
<1>3. r \in Nat /\ r < Height /\ r < posY + h /\ Left < Width
  BY <1>1, <1>2
<1>4. i \in Pixels
  <2>1. r * Width \in Nat /\ (r + 1) * Width <= Height * Width
    BY <1>1, <1>3
  <2>2. r * Width + Width <= Width * Height
    BY <1>1, <1>3, <2>1
  <2>3. QED
    BY <1>1, <1>3, <2>1, <2>2 DEF Pixels
<1>5. Row(i) = r /\ Col(i) = Left
  <2>1. r * Width + Left <= i /\ i < (r * Width + Left) + 1
    BY <1>1, <1>3
  <2>2. r \in Int /\ Left \in Nat /\ 1 \in Nat /\ Left + 1 <= Width
    BY <1>1, <1>3
  <2> HIDE DEF i, r
  <2>3. Left <= Col(i) /\ Col(i) < Left + 1 /\ Row(i) = r
    BY ONLY <1>4, <2>1, <2>2, RowInterval
  <2>4. Col(i) \in Nat
    BY <1>4, PixelPlace, BlitAssumption
  <2>5. QED
    BY <1>1, <2>3, <2>4
<1> HIDE DEF i
<1>6. OnFrame(i)
  BY <1>1, <1>2, <1>3, <1>5 DEF OnFrame
<1>7. Row(i) - posY = 1 /\ Col(i) - posX = Skipped
  BY <1>1, <1>5
<1>8. FromFrame(i, w) = w + Skipped /\ FromFrame(i, stride) = stride + Skipped
  BY <1>1, <1>2, <1>7 DEF FromFrame
<1>9. QED
  BY <1>1, <1>2, <1>4, <1>6, <1>8

(* If no second row shows, the distance of the rows makes no difference.   *)
LEMMA OneRowShows ==
  ASSUME ArgumentsOK, ~ SeveralRows, NEW i \in Pixels, OnFrame(i)
  PROVE  FromFrame(i, w) = FromFrame(i, stride)
<1>1. /\ Row(i) \in Nat /\ Row(i) < Height /\ Col(i) \in Nat /\ Col(i) < Width
      /\ Width \in Nat /\ Height \in Nat
  BY PixelPlace, BlitAssumption
<1>2. /\ w \in Nat /\ h \in Nat /\ posX \in Int /\ posY \in Int
      /\ Left \in Nat /\ Skipped \in Nat /\ LineSize \in Int /\ NrOfLines \in Int
      /\ Left - Skipped = posX /\ (Left = 0 \/ Skipped = 0)
      /\ NrOfLines = Height \/ NrOfLines = posY + h
      /\ Left + LineSize = Width \/ Skipped + LineSize = w
  BY ClipBounds
<1>3. /\ posY <= Row(i) /\ Row(i) < posY + h
      /\ posX <= Col(i) /\ Col(i) < posX + w
  BY DEF OnFrame
<1>4. LineSize > 0
  BY <1>1, <1>2, <1>3
<1>5. NrOfLines <= posY + 1
  BY <1>2, <1>4 DEF SeveralRows
<1>6. Row(i) - posY = 0
  BY <1>1, <1>2, <1>3, <1>5
<1>7. stride \in Int
  BY DEF ArgumentsOK
<1>8. QED
  BY <1>1, <1>2, <1>6, <1>7 DEF FromFrame

(* CopiesTheClip for every frame, display, position and stride: the copy   *)
(* shows exactly the visible part of the frame unless rows that are not    *)
(* the width apart follow each other on the display.                       *)
THEOREM BlitCopies == Spec => []CopiesTheClip
<1>1. IInv => CopiesTheClip
  <2> SUFFICES ASSUME IInv, status = "done"
               PROVE  (\A i \in Pixels : display[i] = Expected(i))
                        <=> stride = w \/ ~ SeveralRows
    BY DEF CopiesTheClip
  <2>1. ArgumentsOK /\ Offsets /\ OnlySafe /\ y >= NrOfLines
    BY DEF IInv
  <2>2. ASSUME NEW i \in Pixels
        PROVE  /\ display[i] = IF OnFrame(i) THEN FromFrame(i, w) ELSE Background
               /\ Expected(i) = IF OnFrame(i) THEN FromFrame(i, stride) ELSE Background
    <3>1. display[i] = Shown(y, i)
      BY DEF IInv
    <3>2. QED
      BY <2>1, <3>1, ShownPixel, ExpectedPixel
  <2>3. ASSUME stride = w \/ ~ SeveralRows, NEW i \in Pixels
        PROVE  display[i] = Expected(i)
    BY <2>1, <2>2, <2>3, OneRowShows
  <2>4. ASSUME stride # w, SeveralRows
        PROVE  \E i \in Pixels : display[i] # Expected(i)
    <3>1. posY >= 0
      <4>1. NrOfLines \in Int /\ posY \in Int
        BY <2>1, ClipBounds
      <4>2. y > posY /\ LineSize > 0
        BY <2>1, <2>4, <4>1 DEF SeveralRows, Offsets
      <4>3. SafePosition
        BY <2>1, <4>2 DEF OnlySafe
      <4>4. QED
        BY <4>3 DEF SafePosition
    <3>2. PICK i \in Pixels : OnFrame(i) /\ FromFrame(i, w) # FromFrame(i, stride)
      BY <2>1, <2>4, <3>1, SecondRowShows
    <3>3. QED
      BY <2>2, <3>2
  <2>5. QED
    BY <2>3, <2>4
<1>2. QED
  BY <1>1, BlitInvariant, PTL

-----------------------------------------------------------------------------
(* The offsets as int32_t values *)

\* The bytes of n pixels are an int32_t value
IsInt32(n) == -2147483648 <= 4 * n /\ 4 * n <= 2147483647

\* A frame that is placed on the display, rows not overlapping, small enough
\* for one row more of it to be expressed
PlacedFrame ==
  SafePosition /\ posY <= Height /\ stride >= w /\ 4 * (h * w + w) <= 2147483647

(* Both offsets of Compositor::copyShmBufferToDisplay are int32_t: they    *)
(* are computed without overflow for every frame that is placed on the     *)
(* display, if display and frame leave room for the one increment that is  *)
(* made after the last row and never used.                                 *)
THEOREM BlitOffsetsFit ==
  ASSUME 4 * (Width * Height + Width) <= 2147483647
  PROVE  Spec => [](PlacedFrame => IsInt32(offsetDst) /\ IsInt32(offsetSrc))
<1> DEFINE Fresh == status = "ready" => offsetDst = 0 /\ offsetSrc = 0
           Fit == PlacedFrame => IsInt32(offsetDst) /\ IsInt32(offsetSrc)
<1>1. Init => Fresh
  BY DEF Init
<1>2. ASSUME IInv, status \in {"copying", "done"}, PlacedFrame
      PROVE  IsInt32(offsetDst) /\ IsInt32(offsetSrc)
  <2>1. /\ Width \in Nat \ {0} /\ Height \in Nat \ {0}
        /\ w \in Nat /\ w > 0 /\ h \in Nat /\ h > 0 /\ posX \in Int /\ posY \in Int
        /\ Left \in Nat /\ Skipped \in Nat /\ NrOfLines \in Int
        /\ NrOfLines <= Height /\ NrOfLines <= posY + h
        /\ Left - Skipped = posX /\ (Left = 0 \/ Skipped = 0)
    BY <1>2, ClipBounds DEF IInv
  <2>2. /\ y \in Int /\ y >= posY /\ (y <= NrOfLines \/ y = posY)
        /\ offsetSrc = Skipped + (y - posY) * w /\ offsetDst = y * Width + Left
    BY <1>2 DEF IInv, Offsets
  <2>3. /\ posY >= 0 /\ posY <= Height /\ Left <= Width /\ Skipped <= w
        /\ 4 * (h * w + w) <= 2147483647
    BY <1>2, <2>1 DEF PlacedFrame, SafePosition
  <2>4. y * Width \in Int /\ 0 <= y * Width /\ y * Width <= Width * Height
    <3>1. y \in Nat /\ y <= Height
      BY <2>1, <2>2, <2>3
    <3>2. QED
      BY <2>1, <3>1
  <2>5. (y - posY) * w \in Int /\ 0 <= (y - posY) * w /\ (y - posY) * w <= h * w
    <3> DEFINE k == y - posY
    <3>1. k \in Nat /\ k <= h
      BY <2>1, <2>2
    <3> HIDE DEF k
    <3>2. k * w \in Int /\ 0 <= k * w /\ k * w <= h * w
      BY <2>1, <3>1
    <3>3. QED
      BY <3>2 DEF k
  <2>6. QED
    <3> DEFINE a == y * Width
               b == (y - posY) * w
               c == Width * Height
               d == h * w
    <3>1. /\ a \in Int /\ 0 <= a /\ a <= c /\ offsetDst = a + Left
          /\ b \in Int /\ 0 <= b /\ b <= d /\ offsetSrc = Skipped + b
          /\ c \in Int /\ d \in Int
          /\ 4 * (c + Width) <= 2147483647 /\ 4 * (d + w) <= 2147483647
      BY <2>1, <2>2, <2>3, <2>4, <2>5
    <3> HIDE DEF a, b, c, d
    <3>2. QED
      BY <2>1, <2>3, <3>1 DEF IsInt32
<1>3. IInv /\ Fresh => Fit
  <2> SUFFICES ASSUME IInv, Fresh, PlacedFrame
               PROVE  IsInt32(offsetDst) /\ IsInt32(offsetSrc)
    OBVIOUS
  <2>1. status # "fault"
    <3>1. SafePosition /\ ~ stride < w
      BY DEF PlacedFrame, IInv, ArgumentsOK
    <3>2. QED
      BY <3>1 DEF IInv
  <2>2. CASE status = "ready"
    BY <2>2 DEF IsInt32
  <2>3. QED
    BY <1>2, <2>1, <2>2 DEF IInv
<1>4. Fresh /\ [Next]_vars => Fresh'
  BY DEF Next, Clip, CopyLine, Fault, Return, vars
<1>5. Spec => []Fresh
  BY <1>1, <1>4, PTL DEF Spec
<1>6. QED
  BY <1>3, <1>5, BlitInvariant, PTL
=============================================================================

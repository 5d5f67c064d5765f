---------------------------- MODULE LayoutProofs ----------------------------
(***************************************************************************)
(* Proofs about module Layout, for every height of the display, every set  *)
(* of frames and every number of surfaces.                                 *)
(*                                                                         *)
(* The inductive invariant is IInv: when nothing has changed since the     *)
(* last repaint, every shell surface is where relayoutSurfaces puts it and *)
(* the display is what painting the list from its front leaves.  What the  *)
(* runs check follows from it by arithmetic: n strips of H \div n rows fit *)
(* into H rows, and a surface that is painted later starts below the whole *)
(* strip of every earlier one.                                             *)
(***************************************************************************)
EXTENDS Layout, FiniteSetTheorems, SequenceTheorems, TLAPS

-----------------------------------------------------------------------------
(* Numbers *)

(* Every set of natural numbers that is not empty has a least element.     *)
LEMMA LeastElement ==
  ASSUME NEW S \in SUBSET Nat, S # {}
  PROVE  \E m \in S : \A n \in S : m <= n
<1> DEFINE Below == {0 .. n : n \in S}
<1>1. Below \subseteq FiniteSubsetsOf(Nat)
  <2>1. ASSUME NEW n \in S PROVE 0 .. n \in SUBSET Nat /\ IsFiniteSet(0 .. n)
    BY FS_Interval
  <2>2. QED
    BY <2>1 DEF FiniteSubsetsOf
<1>2. Below # {}
  OBVIOUS
<1>3. PICK x \in Below : \A z \in Below : <<z, x>> \notin StrictSubsetOrdering(Nat)
  BY <1>1, <1>2, FS_StrictSubsetOrderingWellFounded, WFMin
<1>4. PICK m \in S : x = 0 .. m
  BY <1>3
<1>5. ASSUME NEW n \in S PROVE m <= n
  <2>1. SUFFICES ASSUME n < m PROVE FALSE
    OBVIOUS
  <2>2. 0 .. n \in Below
    OBVIOUS
  <2>3. /\ 0 .. n \subseteq 0 .. m
        /\ m \in 0 .. m /\ m \notin 0 .. n
    BY <2>1
  <2>4. 0 .. n \in SUBSET Nat /\ 0 .. m \in SUBSET Nat
    OBVIOUS
  <2>5. <<0 .. n, 0 .. m>> \in StrictSubsetOrdering(Nat)
    BY <2>3, <2>4 DEF StrictSubsetOrdering
  <2>6. QED
    BY <1>3, <1>4, <2>2, <2>5
<1>6. QED
  BY <1>5

(* Every bounded set of natural numbers has a greatest element.            *)
LEMMA GreatestElement ==
  ASSUME NEW S \in SUBSET Nat, S # {}, NEW b \in Nat, \A n \in S : n <= b
  PROVE  \E m \in S : \A n \in S : n <= m
<1> DEFINE Gaps == {b - n : n \in S}
<1>1. Gaps \in SUBSET Nat /\ Gaps # {}
  <2>1. \A n \in S : n \in Nat /\ b - n \in Nat
    OBVIOUS
  <2>2. QED
    BY <2>1
<1>2. PICK g \in Gaps : \A d \in Gaps : g <= d
  BY <1>1, LeastElement
<1>3. PICK m \in S : g = b - m
  OBVIOUS
<1>4. ASSUME NEW n \in S PROVE n <= m
  <2>1. b - n \in Gaps
    OBVIOUS
  <2>2. b - m <= b - n
    BY <1>2, <1>3, <2>1
  <2>3. QED
    BY <2>2
<1>5. QED
  BY <1>4

(* n strips of H \div n rows fit into H rows.                              *)
LEMMA StripsFit ==
  ASSUME NEW H \in Nat, NEW n \in Nat \ {0}
  PROVE  H \div n \in Nat /\ n * (H \div n) <= H
OBVIOUS

(* Where the next strip begins, the one before has come to its end.        *)
LEMMA NextStrip ==
  ASSUME NEW k \in Nat, NEW l \in Nat, NEW d \in Nat, k + 1 <= l
  PROVE  k * d \in Nat /\ l * d \in Nat /\ k * d + d <= l * d
OBVIOUS

-----------------------------------------------------------------------------
(* Lists *)

Lists == Seq(SurfaceRecord)

(* The shell surfaces of a list are finitely many, and the number of those *)
(* before a shell surface says which strip is its own.                     *)
LEMMA StripNumbers ==
  ASSUME NEW s \in Lists
  PROVE  /\ Cardinality(Shells(s)) \in Nat
         /\ \A p \in Shells(s) :
              /\ Cardinality(ShellsBefore(s, p)) \in Nat
              /\ Cardinality(ShellsBefore(s, p)) + 1 <= Cardinality(Shells(s))
         /\ \A p, q \in Shells(s) :
              p < q => Cardinality(ShellsBefore(s, p)) + 1
                         <= Cardinality(ShellsBefore(s, q))
<1>1. DOMAIN s = 1 .. Len(s) /\ Len(s) \in Nat
  BY DEF Lists
<1>2. IsFiniteSet(1 .. Len(s))
  BY <1>1, FS_Interval
<1>3. Shells(s) \subseteq 1 .. Len(s)
  BY <1>1 DEF Shells
<1>4. IsFiniteSet(Shells(s)) /\ Cardinality(Shells(s)) \in Nat
  BY <1>2, <1>3, FS_Subset, FS_CardinalityType
<1>5. ASSUME NEW p \in Shells(s), NEW T \in SUBSET Shells(s),
             ShellsBefore(s, p) \subseteq T, p \in T
      PROVE  /\ Cardinality(ShellsBefore(s, p)) \in Nat
             /\ Cardinality(ShellsBefore(s, p)) + 1 <= Cardinality(T)
  <2>1. IsFiniteSet(T)
    BY <1>4, FS_Subset
  <2>2. IsFiniteSet(ShellsBefore(s, p)) /\ Cardinality(ShellsBefore(s, p)) \in Nat
    BY <1>5, <2>1, FS_Subset, FS_CardinalityType
  <2>3. p \notin ShellsBefore(s, p)
    BY <1>1, <1>3 DEF ShellsBefore
  <2>4. Cardinality(ShellsBefore(s, p) \cup {p})
          = Cardinality(ShellsBefore(s, p)) + 1
    BY <2>2, <2>3, FS_AddElement
  <2>5. ShellsBefore(s, p) \cup {p} \in SUBSET T
    BY <1>5
  <2>6. Cardinality(ShellsBefore(s, p) \cup {p}) <= Cardinality(T)
    BY <2>1, <2>5, FS_Subset
  <2>7. QED
    BY <2>2, <2>4, <2>6
<1>6. ASSUME NEW p \in Shells(s)
      PROVE  /\ Cardinality(ShellsBefore(s, p)) \in Nat
             /\ Cardinality(ShellsBefore(s, p)) + 1 <= Cardinality(Shells(s))
  <2>1. ShellsBefore(s, p) \subseteq Shells(s)
    BY DEF ShellsBefore
  <2>2. QED
    BY <1>5, <2>1
<1>7. ASSUME NEW p \in Shells(s), NEW q \in Shells(s), p < q
      PROVE  Cardinality(ShellsBefore(s, p)) + 1 <= Cardinality(ShellsBefore(s, q))
  <2>1. /\ ShellsBefore(s, q) \in SUBSET Shells(s)
        /\ ShellsBefore(s, p) \subseteq ShellsBefore(s, q)
        /\ p \in ShellsBefore(s, q)
    BY <1>1, <1>3, <1>7 DEF ShellsBefore
  <2>2. QED
    BY <1>5, <2>1
<1>8. QED
  BY <1>4, <1>6, <1>7

\* Has relayoutSurfaces put every shell surface into its strip?
LaidOut(s) ==
  \A p \in Shells(s) : s[p].y = Cardinality(ShellsBefore(s, p)) * StripHeight(s)

(* relayoutSurfaces changes the positions of the shell surfaces and        *)
(* nothing else, and leaves every one of them in its strip, whatever the   *)
(* positions were.                                                         *)
LEMMA RelayoutedLaidOut ==
  ASSUME NEW s \in Lists
  PROVE  Relayouted(s) \in Lists /\ LaidOut(Relayouted(s))
<1> DEFINE t == Relayouted(s)
<1>1. DOMAIN s = 1 .. Len(s) /\ Len(s) \in Nat
  BY DEF Lists
<1>2. ASSUME NEW p \in DOMAIN s PROVE s[p] \in SurfaceRecord
  BY <1>1, ElementOfSeq DEF Lists
<1>3. ASSUME NEW p \in Shells(s)
      PROVE  Cardinality(ShellsBefore(s, p)) * StripHeight(s) \in Nat
  <2>1. /\ Cardinality(ShellsBefore(s, p)) \in Nat
        /\ Cardinality(Shells(s)) \in Nat \ {0}
    BY StripNumbers
  <2>2. StripHeight(s) \in Nat
    BY <2>1, StripsFit, LayoutAssumption DEF StripHeight
  <2>3. QED
    BY <2>1, <2>2
<1>4. ASSUME NEW p \in DOMAIN s
      PROVE  /\ t[p] \in SurfaceRecord
             /\ t[p].shell = s[p].shell
             /\ s[p].shell =>
                  t[p].y = Cardinality(ShellsBefore(s, p)) * StripHeight(s)
  BY <1>2, <1>3 DEF Relayouted, SurfaceRecord, Shells
<1>5. DOMAIN t = DOMAIN s
  BY DEF Relayouted
<1>6. t \in Lists
  BY <1>1, <1>4, <1>5 DEF Relayouted, Lists
<1>7. Shells(t) = Shells(s)
  BY <1>4, <1>5 DEF Shells
<1>8. \A p : ShellsBefore(t, p) = ShellsBefore(s, p)
  BY <1>7 DEF ShellsBefore
<1>9. StripHeight(t) = StripHeight(s)
  BY <1>7 DEF StripHeight
<1>10. LaidOut(t)
  BY <1>4, <1>7, <1>8, <1>9 DEF LaidOut, Shells
<1>11. QED
  BY <1>6, <1>10

(* The strips of a list that is laid out lie on the display, one below the *)
(* other.                                                                  *)
LEMMA StripsOfLaidOut ==
  ASSUME NEW s \in Lists, LaidOut(s), NEW p \in Shells(s)
  PROVE  /\ StripHeight(s) \in Nat
         /\ s[p].y \in Nat
         /\ s[p].y + StripHeight(s) <= Height
         /\ \A q \in Shells(s) : p < q => s[p].y + StripHeight(s) <= s[q].y
<1> DEFINE n == Cardinality(Shells(s))
           k(q) == Cardinality(ShellsBefore(s, q))
           d == StripHeight(s)
<1>1. /\ n \in Nat \ {0}
      /\ k(p) \in Nat /\ k(p) + 1 <= n
      /\ \A q \in Shells(s) : k(q) \in Nat /\ (p < q => k(p) + 1 <= k(q))
  BY StripNumbers
<1>2. Height \in Nat
  BY LayoutAssumption
<1>3. d \in Nat /\ n * d <= Height
  BY <1>1, <1>2, StripsFit DEF StripHeight
<1>4. \A q \in Shells(s) : s[q].y = k(q) * d
  BY DEF LaidOut
<1> HIDE DEF n, k, d
<1>5. /\ k(p) * d \in Nat /\ n * d \in Nat
      /\ k(p) * d + d <= n * d
  BY <1>1, <1>3, NextStrip
<1>6. k(p) * d + d <= Height
  BY <1>2, <1>3, <1>5
<1>7. ASSUME NEW q \in Shells(s), p < q
      PROVE  s[p].y + d <= s[q].y
  <2>1. k(p) * d + d <= k(q) * d
    BY <1>1, <1>3, <1>7, NextStrip
  <2>2. QED
    BY <1>4, <2>1
<1>8. d \in Nat /\ s[p].y \in Nat /\ s[p].y + d <= Height
  BY <1>3, <1>4, <1>5, <1>6
<1>9. QED
  BY <1>7, <1>8 DEF d

(* What is seen in a row is the last surface of the list that covers it.   *)
LEMMA LastCoveringIsSeen ==
  ASSUME NEW s \in Lists, NEW r \in Rows,
         NEW p \in DOMAIN s, Covers(s, p, r)
  PROVE  /\ Composed(s)[r] \in DOMAIN s
         /\ Covers(s, Composed(s)[r], r)
         /\ p <= Composed(s)[r]
<1> DEFINE covering == {q \in DOMAIN s : Covers(s, q, r)}
<1>1. DOMAIN s = 1 .. Len(s) /\ Len(s) \in Nat
  BY DEF Lists
<1>2. /\ covering \in SUBSET Nat /\ p \in covering
      /\ \A q \in covering : q <= Len(s)
  BY <1>1
<1>3. \E m \in covering : \A q \in covering : q <= m
  BY <1>1, <1>2, GreatestElement
<1>4. Composed(s)[r] = CHOOSE m \in covering : \A q \in covering : q <= m
  BY <1>2 DEF Composed
<1> HIDE DEF covering
<1>5. Composed(s)[r] \in covering /\ \A q \in covering : q <= Composed(s)[r]
  BY <1>3, <1>4
<1>6. QED
  BY <1>2, <1>5 DEF covering

-----------------------------------------------------------------------------
(* The inductive invariant *)

IInv ==
  /\ list \in Lists
  /\ painted \in BOOLEAN
  /\ painted => LaidOut(list) /\ display = Composed(list)

(* Init establishes the invariant.                                         *)
LEMMA InitIInv == Init => IInv
<1>1. <<>> \in Lists
  BY DEF Lists
<1>2. QED
  BY <1>1 DEF Init, IInv

(* Every request, the end of a surface and a repaint preserve it.          *)
LEMMA NextIInv == IInv /\ [Next]_vars => IInv'
<1> SUFFICES ASSUME IInv, [Next]_vars PROVE IInv'
  OBVIOUS
<1>0. DOMAIN list = 1 .. Len(list) /\ Len(list) \in Nat
  BY DEF IInv, Lists
<1>r. ASSUME NEW p \in DOMAIN list PROVE list[p] \in SurfaceRecord
  BY <1>0, ElementOfSeq DEF IInv, Lists
<1>1. CASE CreateSurface
  <2>1. [shell |-> FALSE, y |-> 0, frame |-> 0] \in SurfaceRecord
    BY DEF SurfaceRecord
  <2>2. list' \in Lists
    BY <1>1, <2>1, AppendProperties DEF IInv, Lists, CreateSurface
  <2>3. QED
    BY <1>1, <2>2 DEF IInv, CreateSurface
<1>2. ASSUME NEW p \in DOMAIN list, GetShellSurface(p) PROVE IInv'
  <2>1. [list[p] EXCEPT !.shell = TRUE] \in SurfaceRecord
    BY <1>r DEF SurfaceRecord
  <2>2. list' \in Lists
    BY <1>0, <1>2, <2>1, ExceptSeq DEF IInv, Lists, GetShellSurface
  <2>3. QED
    BY <1>2, <2>2 DEF IInv, GetShellSurface
<1>3. ASSUME NEW p \in DOMAIN list, NEW h \in FrameHeights, Commit(p, h)
      PROVE  IInv'
  <2>1. [list[p] EXCEPT !.frame = h] \in SurfaceRecord
    BY <1>r DEF SurfaceRecord
  <2>2. list' \in Lists
    BY <1>0, <1>3, <2>1, ExceptSeq DEF IInv, Lists, Commit
  <2>3. QED
    BY <1>3, <2>2 DEF IInv, Commit
<1>4. ASSUME NEW p \in DOMAIN list, Notify(p) PROVE IInv'
  <2>1. \A i \in DOMAIN list : list[i] \in SurfaceRecord
    BY <1>r
  <2>2. SubSeq(list, 1, p - 1) \in Lists
    BY <1>0, <2>1, SubSeqProperties DEF Lists
  <2>3. SubSeq(list, p + 1, Len(list)) \in Lists
    BY <1>0, <2>1, SubSeqProperties DEF Lists
  <2>4. list' \in Lists
    BY <1>4, <2>2, <2>3, ConcatProperties DEF Lists, Notify
  <2>5. QED
    BY <1>4, <2>4 DEF IInv, Notify
<1>5. CASE Repaint
  <2>1. list' \in Lists /\ LaidOut(list')
    BY <1>5, RelayoutedLaidOut DEF IInv, Repaint
  <2>2. QED
    BY <1>5, <2>1 DEF IInv, Repaint, LaidOut, Shells, ShellsBefore, StripHeight,
                      Composed, Covers
<1>6. CASE UNCHANGED vars
  BY <1>6 DEF IInv, vars, LaidOut, Shells, ShellsBefore, StripHeight,
              Composed, Covers
<1>7. QED
  BY <1>1, <1>2, <1>3, <1>4, <1>5, <1>6 DEF Next

(* The invariant implies what the runs check.                              *)
LEMMA IInvStripsAreDisjoint == IInv => StripsAreDisjoint
<1>1. SUFFICES ASSUME IInv, painted,
                      NEW p \in Shells(list), NEW q \in Shells(list)
               PROVE  /\ Strip(p) \subseteq Rows
                      /\ p < q => list[p].y + StripHeight(list) <= list[q].y
  BY DEF StripsAreDisjoint
<1>2. Height \in Nat
  BY LayoutAssumption
<1>3. /\ StripHeight(list) \in Nat /\ list[p].y \in Nat
      /\ list[p].y + StripHeight(list) <= Height
      /\ p < q => list[p].y + StripHeight(list) <= list[q].y
  BY <1>1, StripsOfLaidOut DEF IInv
<1>4. QED
  BY <1>2, <1>3 DEF Strip, Rows

LEMMA IInvStripsAreSeen == IInv => StripsAreSeen
<1>1. SUFFICES ASSUME IInv, painted,
                      NEW p \in Shells(list), NEW r \in Strip(p),
                      Covers(list, p, r)
               PROVE  \/ display[r] = p
                      \/ display[r] > p /\ ~ list[display[r]].shell
  BY DEF StripsAreSeen
<1>2. list \in Lists /\ LaidOut(list) /\ display = Composed(list)
  BY <1>1 DEF IInv
<1>3. /\ StripHeight(list) \in Nat /\ list[p].y \in Nat
      /\ \A q \in Shells(list) : p < q => list[p].y + StripHeight(list) <= list[q].y
  BY <1>2, StripsOfLaidOut
<1>4. r \in Rows
  BY <1>1, IInvStripsAreDisjoint DEF StripsAreDisjoint
<1>5. p \in DOMAIN list
  BY DEF Shells
<1>6. /\ display[r] \in DOMAIN list
      /\ Covers(list, display[r], r)
      /\ p <= display[r]
  BY <1>1, <1>2, <1>4, <1>5, LastCoveringIsSeen
<1>7. DOMAIN list \subseteq Nat
  BY <1>2 DEF Lists
<1>8. ASSUME p < display[r], list[display[r]].shell PROVE FALSE
  <2>1. display[r] \in Shells(list)
    BY <1>6, <1>8 DEF Shells
  <2>2. list[p].y + StripHeight(list) <= list[display[r]].y
    BY <1>3, <1>8, <2>1
  <2>3. list[display[r]].y <= r /\ list[display[r]].y \in Nat
    BY <1>2, <1>6, <2>1, StripsOfLaidOut DEF Covers
  <2>4. r < list[p].y + StripHeight(list)
    BY <1>3 DEF Strip
  <2>5. r \in Int
    BY <1>4, LayoutAssumption DEF Rows
  <2>6. QED
    BY <1>3, <2>2, <2>3, <2>4, <2>5
<1>9. QED
  BY <1>5, <1>6, <1>7, <1>8

-----------------------------------------------------------------------------
(* Theorems *)

(* The list stays a list of surfaces, and what was painted stays what the  *)
(* list says until something changes.                                      *)
THEOREM LayoutInvariant == Spec => []IInv
BY InitIInv, NextIInv, PTL DEF Spec

(* relayoutSurfaces gives every shell surface a strip of its own, for every *)
(* number of surfaces and every order of requests, ends and repaints.      *)
THEOREM LayoutStrips == Spec => []StripsAreDisjoint
BY LayoutInvariant, IInvStripsAreDisjoint, PTL

(* No frame hides the strip of a later shell surface, although none is     *)
(* clipped to its own strip: the order of mSurfacesList is both the order  *)
(* of the strips and the order of painting.                                *)
THEOREM LayoutSeen == Spec => []StripsAreSeen
BY LayoutInvariant, IInvStripsAreSeen, PTL
=============================================================================

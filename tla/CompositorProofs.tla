-------------------------- MODULE CompositorProofs --------------------------
(***************************************************************************)
(* Proofs about module Compositor, for every set of clients and every      *)
(* number of surfaces, bindings and ids.                                   *)
(*                                                                         *)
(* The inductive invariant is IInv.  Beside what the runs check it says    *)
(* what the resources and the objects know of each other: the resource of  *)
(* a Surface that exists is there and hooked, and the resource of its      *)
(* shell surface is there too unless it had the lower id and went first.   *)
(* It says nothing of a process that has crashed, which takes no step.     *)
(*                                                                         *)
(* The last theorem is about DestroyRequest, whose Compositor this is.     *)
(***************************************************************************)
EXTENDS DestroyRequest, FiniteSetTheorems, SequenceTheorems, TLAPS

-----------------------------------------------------------------------------
(* Selections: what is left of a sequence, by the places of what is left    *)

\* How many of the positions in K come up to p
Rank(K, p) == Cardinality({q \in K : q <= p})

(* The rank of a position grows with the position.                         *)
LEMMA RankGrows ==
  ASSUME NEW K \in SUBSET Nat, IsFiniteSet(K)
  PROVE  /\ Cardinality(K) \in Nat
         /\ \A p \in K : Rank(K, p) \in 1 .. Cardinality(K)
         /\ \A p, q \in K : p < q => Rank(K, p) < Rank(K, q)
<1>1. Cardinality(K) \in Nat
  BY FS_CardinalityType
<1>2. ASSUME NEW p \in K
      PROVE  /\ IsFiniteSet({r \in K : r <= p})
             /\ Rank(K, p) \in Nat /\ Rank(K, p) <= Cardinality(K)
  <2>1. {r \in K : r <= p} \in SUBSET K
    OBVIOUS
  <2>2. QED
    BY <2>1, FS_Subset, FS_CardinalityType DEF Rank
<1>3. ASSUME NEW p \in K PROVE Rank(K, p) # 0
  <2>1. p \in {r \in K : r <= p}
    OBVIOUS
  <2>2. QED
    BY <1>2, <2>1, FS_EmptySet DEF Rank
<1>4. ASSUME NEW p \in K, NEW q \in K, p < q
      PROVE  Rank(K, p) < Rank(K, q)
  <2>1. /\ {r \in K : r <= p} \cup {q} \in SUBSET {r \in K : r <= q}
        /\ q \notin {r \in K : r <= p}
    <3>1. p \in Nat /\ q \in Nat
      OBVIOUS
    <3>2. ASSUME NEW r \in K, r <= p PROVE r <= q
      BY <1>4, <3>1, <3>2
    <3>3. q <= q /\ ~ (q <= p)
      BY <1>4, <3>1
    <3>4. QED
      BY <3>2, <3>3
  <2>2. Cardinality({r \in K : r <= p} \cup {q}) = Rank(K, p) + 1
    BY <1>2, <2>1, FS_AddElement DEF Rank
  <2>3. Cardinality({r \in K : r <= p} \cup {q}) <= Rank(K, q)
    BY <1>2, <2>1, FS_Subset DEF Rank
  <2>4. Rank(K, p) \in Nat /\ Rank(K, q) \in Nat
    BY <1>2
  <2>5. QED
    BY <2>2, <2>3, <2>4
<1>5. ASSUME NEW p \in K PROVE Rank(K, p) \in 1 .. Cardinality(K)
  <2>1. Rank(K, p) \in Nat /\ Rank(K, p) # 0 /\ Rank(K, p) <= Cardinality(K)
    BY <1>2, <1>3
  <2>2. QED
    BY <1>1, <2>1
<1>6. QED
  BY <1>1, <1>4, <1>5

(* There is exactly one position of every rank, and Place finds it.        *)
LEMMA PlaceOfRank ==
  ASSUME NEW K \in SUBSET Nat, IsFiniteSet(K)
  PROVE  /\ \A i \in 1 .. Cardinality(K) :
              Place(K, i) \in K /\ Rank(K, Place(K, i)) = i
         /\ \A p \in K : Place(K, Rank(K, p)) = p
<1> DEFINE n == Cardinality(K)
           rank == [p \in K |-> Rank(K, p)]
<1>1. /\ n \in Nat
      /\ \A p \in K : Rank(K, p) \in 1 .. n
      /\ \A p, q \in K : p < q => Rank(K, p) < Rank(K, q)
  BY RankGrows
<1>2. ASSUME NEW p \in K, NEW q \in K, Rank(K, p) = Rank(K, q)
      PROVE  p = q
  <2>1. p \in Nat /\ q \in Nat
    OBVIOUS
  <2>2. ~ (p < q) /\ ~ (q < p)
    BY <1>1, <1>2
  <2>3. QED
    BY <2>1, <2>2
<1>3. rank \in Injection(K, 1 .. n)
  BY <1>1, <1>2 DEF Injection, IsInjective
<1>4. IsFiniteSet(1 .. n) /\ Cardinality(1 .. n) = n
  BY <1>1, FS_Interval
<1>5. rank \in Surjection(K, 1 .. n)
  BY <1>3, <1>4, FS_Injection
<1>6. ASSUME NEW i \in 1 .. n PROVE \E p \in K : Rank(K, p) = i
  BY <1>5 DEF Surjection
<1>7. ASSUME NEW i \in 1 .. n
      PROVE  Place(K, i) \in K /\ Rank(K, Place(K, i)) = i
  <2>1. Place(K, i) = CHOOSE p \in K : Rank(K, p) = i
    BY DEF Place, Rank
  <2>2. QED
    BY <1>6, <2>1
<1>8. ASSUME NEW p \in K PROVE Place(K, Rank(K, p)) = p
  BY <1>1, <1>2, <1>7
<1>9. QED
  BY <1>7, <1>8

(* The places of a selection are in order.                                 *)
LEMMA PlacesInOrder ==
  ASSUME NEW K \in SUBSET Nat, IsFiniteSet(K),
         NEW i \in 1 .. Cardinality(K), NEW j \in 1 .. Cardinality(K), i < j
  PROVE  Place(K, i) < Place(K, j)
<1>1. /\ Place(K, i) \in K /\ Rank(K, Place(K, i)) = i
      /\ Place(K, j) \in K /\ Rank(K, Place(K, j)) = j
  BY PlaceOfRank
<1>2. Cardinality(K) \in Nat
  BY RankGrows
<1>3. \A p, q \in K : p < q => Rank(K, p) < Rank(K, q)
  BY RankGrows
<1>4. i \in Nat /\ j \in Nat
  BY <1>2
<1>5. Place(K, i) # Place(K, j)
  BY <1>1, <1>4
<1>6. ~ (Place(K, j) < Place(K, i))
  <2>1. ~ (j < i)
    BY <1>4
  <2>2. QED
    BY <1>1, <1>3, <2>1
<1>7. Place(K, i) \in Nat /\ Place(K, j) \in Nat
  BY <1>1
<1>8. QED
  BY <1>5, <1>6, <1>7

\* Does f list the positions in K, in order, each of them once?
Enumerates(f, n, K) ==
  /\ f \in [1 .. n -> K]
  /\ \A i, j \in 1 .. n : i < j => f[i] < f[j]
  /\ \A p \in K : \E i \in 1 .. n : f[i] = p

(* A selection is known by any list of its places.                         *)
LEMMA PlacesListed ==
  ASSUME NEW K \in SUBSET Nat, IsFiniteSet(K), NEW n \in Nat,
         NEW f, Enumerates(f, n, K)
  PROVE  /\ Cardinality(K) = n
         /\ \A i \in 1 .. n : Place(K, i) = f[i]
<1>1. /\ f \in [1 .. n -> K]
      /\ \A i, j \in 1 .. n : i < j => f[i] < f[j]
      /\ \A p \in K : \E i \in 1 .. n : f[i] = p
  BY DEF Enumerates
<1>2. ASSUME NEW i \in 1 .. n, NEW j \in 1 .. n
      PROVE  /\ f[i] = f[j] => i = j
             /\ f[j] <= f[i] <=> j <= i
  <2>1. f[i] \in Nat /\ f[j] \in Nat /\ i \in Nat /\ j \in Nat
    <3>1. f[i] \in K /\ f[j] \in K
      BY <1>1
    <3>2. f[i] \in Nat /\ f[j] \in Nat
      BY <3>1
    <3>3. QED
      BY <3>2
  <2>2. (i < j => f[i] < f[j]) /\ (j < i => f[j] < f[i])
    BY <1>1
  <2>3. QED
    BY <2>1, <2>2
<1>3. f \in Bijection(1 .. n, K)
  BY <1>1, <1>2 DEF Bijection, Injection, IsInjective, Surjection
<1>4. Cardinality(K) = n
  BY <1>3, FS_CountingElements DEF ExistsBijection
<1>5. ASSUME NEW i \in 1 .. n PROVE Rank(K, f[i]) = i
  <2> DEFINE T == {q \in K : q <= f[i]}
             g == [j \in 1 .. i |-> f[j]]
  <2>1. \A j \in 1 .. i : j \in 1 .. n /\ f[j] \in T
    BY <1>1, <1>2
  <2>2. g \in [1 .. i -> T]
    BY <2>1
  <2>3. \A j, k \in 1 .. i : g[j] = g[k] => j = k
    BY <1>2, <2>1
  <2>4. ASSUME NEW q \in T PROVE \E j \in 1 .. i : g[j] = q
    <3>1. PICK j \in 1 .. n : f[j] = q
      BY <1>1
    <3>2. j \in 1 .. i
      BY <1>2, <3>1
    <3>3. QED
      BY <3>1, <3>2
  <2>5. g \in Bijection(1 .. i, T)
    BY <2>2, <2>3, <2>4 DEF Bijection, Injection, IsInjective, Surjection
  <2>6. Cardinality(T) = i
    BY <2>5, FS_CountingElements DEF ExistsBijection
  <2>7. QED
    BY <2>6 DEF Rank
<1>6. ASSUME NEW i \in 1 .. n PROVE Place(K, i) = f[i]
  <2>1. f[i] \in K /\ Rank(K, f[i]) = i
    BY <1>1, <1>5
  <2>2. Place(K, Rank(K, f[i])) = f[i]
    BY <2>1, PlaceOfRank
  <2>3. QED
    BY <2>1, <2>2
<1>7. QED
  BY <1>4, <1>6

(* Positions of a sequence.                                                *)
LEMMA PositionsAreFinite ==
  ASSUME NEW S, NEW s \in Seq(S), NEW K \in SUBSET (DOMAIN s)
  PROVE  DOMAIN s = 1 .. Len(s) /\ K \in SUBSET Nat /\ IsFiniteSet(K)
<1>1. DOMAIN s = 1 .. Len(s) /\ Len(s) \in Nat
  OBVIOUS
<1>2. IsFiniteSet(1 .. Len(s))
  BY <1>1, FS_Interval
<1>3. 1 .. Len(s) \subseteq Nat
  BY <1>1
<1>4. QED
  BY <1>1, <1>2, <1>3, FS_Subset

(* A selection is a sequence of entries of the sequence.                   *)
LEMMA SelectedIsSeq ==
  ASSUME NEW S, NEW s \in Seq(S), NEW K \in SUBSET (DOMAIN s)
  PROVE  /\ Cardinality(K) \in Nat
         /\ Selected(s, K) \in Seq(S)
         /\ Len(Selected(s, K)) = Cardinality(K)
         /\ DOMAIN Selected(s, K) = 1 .. Cardinality(K)
         /\ \A i \in 1 .. Cardinality(K) :
              Place(K, i) \in K /\ Selected(s, K)[i] = s[Place(K, i)]
<1>1. DOMAIN s = 1 .. Len(s) /\ K \in SUBSET Nat /\ IsFiniteSet(K)
  BY PositionsAreFinite
<1>2. Cardinality(K) \in Nat
  BY <1>1, RankGrows
<1>3. \A i \in 1 .. Cardinality(K) : Place(K, i) \in K
  BY <1>1, PlaceOfRank
<1>4. \A i \in 1 .. Cardinality(K) : s[Place(K, i)] \in S
  BY <1>1, <1>3, ElementOfSeq
<1>5. QED
  BY <1>2, <1>3, <1>4 DEF Selected

(* The prefix of a selection that is all of it: what stays in place.       *)
LEMMA SelectedFirst ==
  ASSUME NEW S, NEW s \in Seq(S), NEW n \in 0 .. Len(s)
  PROVE  Selected(s, 1 .. n) = [i \in 1 .. n |-> s[i]]
<1> DEFINE f == [i \in 1 .. n |-> i]
<1>1. 1 .. n \in SUBSET (DOMAIN s) /\ n \in Nat
  OBVIOUS
<1>2. 1 .. n \in SUBSET Nat /\ IsFiniteSet(1 .. n)
  BY <1>1, PositionsAreFinite
<1>3. Enumerates(f, n, 1 .. n)
  BY DEF Enumerates
<1>4. Cardinality(1 .. n) = n /\ \A i \in 1 .. n : Place(1 .. n, i) = f[i]
  BY <1>1, <1>2, <1>3, PlacesListed
<1>5. QED
  BY <1>4 DEF Selected

(* Selecting twice is selecting once.                                      *)
LEMMA SelectedTwice ==
  ASSUME NEW S, NEW s \in Seq(S), NEW K \in SUBSET (DOMAIN s),
         NEW L \in SUBSET (1 .. Cardinality(K))
  PROVE  Selected(Selected(s, K), L) = Selected(s, {Place(K, i) : i \in L})
<1> DEFINE t == Selected(s, K)
           M == {Place(K, i) : i \in L}
           n == Cardinality(L)
           f == [j \in 1 .. n |-> Place(K, Place(L, j))]
<1>1. /\ t \in Seq(S) /\ DOMAIN t = 1 .. Cardinality(K)
      /\ \A i \in 1 .. Cardinality(K) : Place(K, i) \in K /\ t[i] = s[Place(K, i)]
  BY SelectedIsSeq
<1>2. /\ n \in Nat
      /\ DOMAIN Selected(t, L) = 1 .. n
      /\ \A j \in 1 .. n : Place(L, j) \in L /\ Selected(t, L)[j] = t[Place(L, j)]
      /\ L \in SUBSET Nat /\ IsFiniteSet(L)
  <2>1. L \in SUBSET (DOMAIN t)
    BY <1>1
  <2> HIDE DEF t
  <2>2. QED
    BY <1>1, <2>1, SelectedIsSeq, PositionsAreFinite
<1>3. K \in SUBSET Nat /\ IsFiniteSet(K)
  BY PositionsAreFinite
<1>4. M \in SUBSET (DOMAIN s)
  BY <1>1
<1>5. M \in SUBSET Nat /\ IsFiniteSet(M)
  BY <1>4, PositionsAreFinite
<1>6. f \in [1 .. n -> M]
  BY <1>2
<1>7. ASSUME NEW i \in 1 .. n, NEW j \in 1 .. n, i < j
      PROVE  f[i] < f[j]
  <2>1. Place(L, i) < Place(L, j)
    BY <1>2, <1>7, PlacesInOrder
  <2>2. Place(L, i) \in 1 .. Cardinality(K) /\ Place(L, j) \in 1 .. Cardinality(K)
    BY <1>2
  <2>3. Place(K, Place(L, i)) < Place(K, Place(L, j))
    BY <1>3, <2>1, <2>2, PlacesInOrder
  <2>4. QED
    BY <2>3
<1>8. ASSUME NEW p \in M PROVE \E j \in 1 .. n : f[j] = p
  <2>1. PICK i \in L : p = Place(K, i)
    OBVIOUS
  <2>2. /\ Rank(L, i) \in 1 .. n
        /\ Place(L, Rank(L, i)) = i
    BY <1>2, RankGrows, PlaceOfRank
  <2>3. QED
    BY <2>1, <2>2
<1>9. Enumerates(f, n, M)
  BY <1>6, <1>7, <1>8 DEF Enumerates
<1>10. Cardinality(M) = n /\ \A j \in 1 .. n : Place(M, j) = f[j]
  <2> HIDE DEF M, f
  <2>1. QED
    BY <1>2, <1>5, <1>9, PlacesListed
<1>11. ASSUME NEW j \in 1 .. n PROVE Selected(t, L)[j] = s[Place(M, j)]
  <2>1. Place(L, j) \in 1 .. Cardinality(K)
    BY <1>2
  <2>2. QED
    BY <1>1, <1>2, <1>10, <2>1
<1>12. QED
  BY <1>2, <1>10, <1>11 DEF Selected

(* An entry that is appended is selected or not, and the others as before. *)
LEMMA SelectedAppend ==
  ASSUME NEW S, NEW s \in Seq(S), NEW e \in S, NEW K \in SUBSET (DOMAIN s)
  PROVE  /\ Selected(Append(s, e), K) = Selected(s, K)
         /\ Selected(Append(s, e), K \cup {Len(s) + 1})
              = Append(Selected(s, K), e)
<1> DEFINE a == Append(s, e)
           l == Len(s) + 1
           n == Cardinality(K)
           M == K \cup {l}
           f == [i \in 1 .. n + 1 |-> IF i = n + 1 THEN l ELSE Place(K, i)]
<1>1. /\ a \in Seq(S) /\ Len(a) = l /\ DOMAIN a = 1 .. l
      /\ a[l] = e
      /\ DOMAIN s = 1 .. Len(s) /\ Len(s) \in Nat
      /\ \A i \in 1 .. Len(s) : a[i] = s[i]
  BY AppendProperties
<1>2. /\ K \in SUBSET Nat /\ IsFiniteSet(K)
      /\ M \in SUBSET (DOMAIN a)
  BY <1>1, PositionsAreFinite
<1>3. M \in SUBSET Nat /\ IsFiniteSet(M)
  <2> HIDE DEF a, M
  <2>1. QED
    BY <1>1, <1>2, PositionsAreFinite
<1>4. /\ n \in Nat
      /\ Selected(s, K) \in Seq(S)
      /\ DOMAIN Selected(s, K) = 1 .. n
      /\ \A i \in 1 .. n : Place(K, i) \in K /\ Selected(s, K)[i] = s[Place(K, i)]
      /\ Len(Selected(s, K)) = n
  BY SelectedIsSeq
<1>5. Selected(a, K) = Selected(s, K)
  BY <1>1, <1>4 DEF Selected
<1>6. f \in [1 .. n + 1 -> M]
  BY <1>4
<1>7. ASSUME NEW i \in 1 .. n + 1, NEW j \in 1 .. n + 1, i < j
      PROVE  f[i] < f[j]
  <2>1. i \in 1 .. n
    BY <1>4, <1>7
  <2>2. CASE j = n + 1
    <3>1. Place(K, i) \in 1 .. Len(s)
      BY <1>1, <1>4, <2>1
    <3>2. Place(K, i) < l
      BY <1>1, <3>1
    <3>3. i # n + 1
      BY <1>4, <2>1
    <3>4. QED
      BY <2>2, <3>2, <3>3
  <2>3. CASE j # n + 1
    <3>1. j \in 1 .. n
      BY <1>4, <2>3
    <3>2. Place(K, i) < Place(K, j)
      BY <1>2, <1>7, <2>1, <3>1, PlacesInOrder
    <3>3. QED
      BY <1>4, <2>1, <2>3, <3>2
  <2>4. QED
    BY <2>2, <2>3
<1>8. ASSUME NEW p \in M PROVE \E i \in 1 .. n + 1 : f[i] = p
  <2>1. CASE p = l
    BY <1>4, <2>1
  <2>2. CASE p \in K
    <3>1. Rank(K, p) \in 1 .. n /\ Place(K, Rank(K, p)) = p
      BY <1>2, <2>2, RankGrows, PlaceOfRank
    <3>2. Rank(K, p) \in 1 .. n + 1 /\ Rank(K, p) # n + 1
      BY <1>4, <3>1
    <3>3. QED
      BY <3>1, <3>2
  <2>3. QED
    BY <2>1, <2>2
<1>9. Enumerates(f, n + 1, M)
  BY <1>6, <1>7, <1>8 DEF Enumerates
<1>10. Cardinality(M) = n + 1 /\ \A i \in 1 .. n + 1 : Place(M, i) = f[i]
  <2> HIDE DEF M, f
  <2>1. n + 1 \in Nat
    BY <1>4
  <2>2. QED
    BY <1>3, <1>9, <2>1, PlacesListed
<1>11. ASSUME NEW i \in 1 .. n + 1
       PROVE  a[Place(M, i)] = IF i = n + 1 THEN e ELSE Selected(s, K)[i]
  <2>1. CASE i = n + 1
    BY <1>1, <1>10, <2>1
  <2>2. CASE i # n + 1
    <3>1. i \in 1 .. n
      BY <1>4, <2>2
    <3>2. Place(M, i) = Place(K, i) /\ Place(K, i) \in 1 .. Len(s)
      BY <1>1, <1>4, <1>10, <2>2, <3>1
    <3>3. QED
      BY <1>1, <1>4, <2>2, <3>1, <3>2
  <2>3. QED
    BY <2>1, <2>2
<1>12. Selected(a, M) = [i \in 1 .. n + 1 |-> IF i = n + 1 THEN e ELSE Selected(s, K)[i]]
  BY <1>10, <1>11 DEF Selected
<1>13. Append(Selected(s, K), e)
         = [i \in 1 .. n + 1 |-> IF i = n + 1 THEN e ELSE Selected(s, K)[i]]
  <2> DEFINE t == Selected(s, K)
  <2>1. t \in Seq(S) /\ Len(t) = n
    BY <1>4
  <2> HIDE DEF t, n
  <2> DEFINE u == [i \in 1 .. n + 1 |-> IF i = n + 1 THEN e ELSE t[i]]
  <2>2. n \in Nat /\ \A i \in 1 .. n : t[i] \in S
    BY <2>1, LenProperties, ElementOfSeq
  <2>3. \A i \in 1 .. n + 1 : u[i] \in S
    BY <2>2
  <2>4. u \in Seq(S) /\ Len(u) = n + 1
    BY <2>2, <2>3
  <2>5. /\ Append(t, e) \in Seq(S) /\ Len(Append(t, e)) = n + 1
        /\ \A i \in 1 .. n : Append(t, e)[i] = t[i]
        /\ Append(t, e)[n + 1] = e
    BY <2>1, AppendProperties
  <2>6. \A i \in 1 .. n + 1 : Append(t, e)[i] = u[i]
    BY <2>2, <2>5
  <2> HIDE DEF u
  <2>7. Append(t, e) = u
    BY <2>4, <2>5, <2>6, SeqEqual
  <2>8. QED
    BY <2>7 DEF t, u
<1>14. QED
  BY <1>5, <1>12, <1>13

-----------------------------------------------------------------------------
(* The inductive invariant *)

Kinds == {"none", "compositor", "surface", "shell"}

TypeOK ==
  /\ resource \in [Clients -> [Ids -> [kind : Kinds, of : Surfaces \cup {Null}]]]
  /\ hooked \in [Clients -> SUBSET Ids]
  /\ created \in 0 .. MaxSurfaces
  /\ alive \subseteq 1 .. created
  /\ owner \in [Surfaces -> Clients \cup {NoClient}]
  /\ surfaceId \in [Surfaces -> Ids \cup {NoId}]
  /\ shellId \in [Surfaces -> Ids \cup {NoId}]
  /\ list \in Seq(Surfaces \cup {Null})
  /\ dying \in Clients \cup {NoClient}
  /\ crashed \in BOOLEAN
  /\ touchedFreed \in BOOLEAN /\ overtaken \in BOOLEAN /\ inverted \in BOOLEAN

\* What a Surface that exists has of its client
Rooted(n) ==
  /\ owner[n] \in Clients
  /\ surfaceId[n] \in hooked[owner[n]]
  /\ resource[owner[n]][surfaceId[n]] = [kind |-> "surface", of |-> n]

\* Its shell surface, if it has one, has its resource, or had the lower id
\* and has lost it in the disconnection of the client
ShellRooted(n) ==
  shellId[n] # NoId =>
    \/ resource[owner[n]][shellId[n]] = [kind |-> "shell", of |-> n]
    \/ /\ owner[n] = dying
       /\ resource[owner[n]][shellId[n]] = NoResource
       /\ shellId[n] < surfaceId[n]

InversionSeen(n) == shellId[n] # NoId /\ shellId[n] < surfaceId[n] => inverted

ObjectsRooted ==
  /\ \A n \in alive : Rooted(n) /\ ShellRooted(n) /\ InversionSeen(n)
  /\ \A n \in Surfaces \ alive : shellId[n] = NoId

\* What a hooked resource leads to
HookLeads(c, i) ==
  LET r == resource[c][i]
  IN  /\ r.kind = "surface" =>
           r.of \in alive /\ owner[r.of] = c /\ surfaceId[r.of] = i
      /\ r.kind = "shell" =>
           r.of \in alive /\ owner[r.of] = c /\ shellId[r.of] = i

HooksLead == \A c \in Clients : \A i \in hooked[c] : HookLeads(c, i)

HasNull(s) == \E p \in DOMAIN s : s[p] = Null

\* No surface is twice in the list
Single(s) == \A p, q \in DOMAIN s : s[p] = s[q] /\ s[p] # Null => p = q

ListSound ==
  /\ Entries(list) = alive
  /\ Single(list)
  /\ overtaken <=> HasNull(list)

Sound == ObjectsRooted /\ HooksLead /\ ListSound

IInv ==
  /\ TypeOK
  /\ ~ crashed => Sound
  /\ BreaksOnlyByNulls

-----------------------------------------------------------------------------
(* std::remove_if *)

Slots == Surfaces \cup {Null}

\* The positions of the entries that are kept
KeptAt(s, Matches) == {p \in DOMAIN s : s[p] \notin Matches}

(* The numbers up to n are n.                                              *)
LEMMA CountUpTo ==
  ASSUME NEW n \in Nat
  PROVE  IsFiniteSet(1 .. n) /\ Cardinality(1 .. n) = n
<1>1. IsFiniteSet(1 .. n) /\ Cardinality(1 .. n) = IF 1 > n THEN 0 ELSE n - 1 + 1
  BY FS_Interval
<1>2. QED
  BY <1>1

(* What remains of a list without the entries that match.                  *)
LEMMA UnmatchedEntries ==
  ASSUME NEW s \in Seq(Slots), NEW Matches
  PROVE  LET u == Unmatched(s, Matches)
         IN  /\ u \in Seq(Slots)
             /\ Len(u) = Cardinality(KeptAt(s, Matches))
             /\ Len(u) <= Len(s)
             /\ DOMAIN u = 1 .. Len(u)
             /\ \A i \in DOMAIN u :
                  /\ Place(KeptAt(s, Matches), i) \in KeptAt(s, Matches)
                  /\ u[i] = s[Place(KeptAt(s, Matches), i)]
             /\ \A p \in KeptAt(s, Matches) : \E i \in DOMAIN u : u[i] = s[p]
             /\ Single(s) => Single(u)
<1> DEFINE K == KeptAt(s, Matches)
           n == Cardinality(K)
           u == Selected(s, K)
<1>1. u = Unmatched(s, Matches)
  BY DEF Unmatched, KeptAt
<1>2. K \in SUBSET (DOMAIN s)
  BY DEF KeptAt
<1> HIDE DEF K
<1>3. /\ n \in Nat /\ u \in Seq(Slots) /\ Len(u) = n /\ DOMAIN u = 1 .. n
      /\ \A i \in 1 .. n : Place(K, i) \in K /\ u[i] = s[Place(K, i)]
  BY <1>2, SelectedIsSeq
<1>4. DOMAIN s = 1 .. Len(s) /\ Len(s) \in Nat /\ K \in SUBSET Nat /\ IsFiniteSet(K)
  BY <1>2, PositionsAreFinite, LenProperties
<1>5. n <= Len(s)
  <2>1. IsFiniteSet(1 .. Len(s)) /\ Cardinality(1 .. Len(s)) = Len(s)
    BY <1>4, CountUpTo
  <2>2. QED
    BY <1>2, <1>4, <2>1, FS_Subset
<1>6. ASSUME NEW p \in K PROVE \E i \in 1 .. n : Place(K, i) = p
  BY <1>4, RankGrows, PlaceOfRank
<1>7. ASSUME NEW i \in 1 .. n, NEW j \in 1 .. n, Place(K, i) = Place(K, j)
      PROVE  i = j
  BY <1>4, <1>7, PlaceOfRank
<1>8. ASSUME Single(s), NEW i \in 1 .. n, NEW j \in 1 .. n,
             u[i] = u[j], u[i] # Null
      PROVE  i = j
  <2>1. Place(K, i) \in DOMAIN s /\ Place(K, j) \in DOMAIN s
    BY <1>2, <1>3
  <2>2. Place(K, i) = Place(K, j)
    BY <1>3, <1>8, <2>1 DEF Single
  <2>3. QED
    BY <1>7, <2>2
<1>9. Single(s) => Single(u)
  BY <1>3, <1>8 DEF Single
<1>10. \A p \in K : \E i \in DOMAIN u : u[i] = s[p]
  BY <1>3, <1>6
<1> HIDE DEF u, n
<1>11. QED
  BY <1>1, <1>3, <1>5, <1>9, <1>10 DEF K, n

(* Compositor::notify: one surface less, the others and the nulls as they  *)
(* were.                                                                   *)
LEMMA ErasedEntries ==
  ASSUME NEW s \in Seq(Slots), NEW n \in Surfaces, Single(s)
  PROVE  /\ Erased(s, n) \in Seq(Slots)
         /\ Entries(Erased(s, n)) = Entries(s) \ {n}
         /\ Single(Erased(s, n))
         /\ HasNull(Erased(s, n)) <=> HasNull(s)
<1> DEFINE K == KeptAt(s, {n})
           u == Erased(s, n)
<1>1. u = Unmatched(s, {n})
  BY DEF Erased
<1>2. /\ u \in Seq(Slots) /\ Single(u)
      /\ \A i \in DOMAIN u : Place(K, i) \in K /\ u[i] = s[Place(K, i)]
      /\ \A p \in K : \E i \in DOMAIN u : u[i] = s[p]
  <2> DEFINE M == {n}
  <2> HIDE DEF M
  <2>1. LET v == Unmatched(s, M)
            J == KeptAt(s, M)
        IN  /\ v \in Seq(Slots) /\ Single(v)
            /\ \A i \in DOMAIN v : Place(J, i) \in J /\ v[i] = s[Place(J, i)]
            /\ \A p \in J : \E i \in DOMAIN v : v[i] = s[p]
    BY UnmatchedEntries
  <2>2. u = Unmatched(s, M) /\ K = KeptAt(s, M)
    BY <1>1 DEF M
  <2> HIDE DEF u, K
  <2>3. QED
    BY <2>1, <2>2
<1>3. \A p : p \in K <=> p \in DOMAIN s /\ s[p] # n
  BY DEF KeptAt
<1>4. n # Null
  BY DEF Surfaces, Null
<1> HIDE DEF K, u
<1>5. Entries(u) \subseteq Entries(s) \ {n}
  BY <1>2, <1>3 DEF Entries
<1>6. Entries(s) \ {n} \subseteq Entries(u)
  BY <1>2, <1>3 DEF Entries
<1>7. HasNull(u) <=> HasNull(s)
  BY <1>2, <1>3, <1>4 DEF HasNull
<1>8. QED
  BY <1>2, <1>5, <1>6, <1>7 DEF u

\* Is a match followed by an entry that is kept?
MatchBefore(s, Matches) ==
  \E p, q \in DOMAIN s : p < q /\ s[p] \in Matches /\ s[q] \notin Matches

(* Compositor::clientDisconnects on a list without nulls: what does not    *)
(* match is kept, at the front and in its order; nothing is there twice;   *)
(* and there is a null afterwards just when an entry had to move.          *)
LEMMA CompactedEntries ==
  ASSUME NEW s \in Seq(Slots), NEW Matches, Null \notin Matches,
         Single(s), ~ HasNull(s)
  PROVE  LET left == Compacted(s, Matches)
             kept == Unmatched(s, Matches)
         IN  /\ left \in Seq(Slots)
             /\ Len(kept) <= Len(left)
             /\ \A p \in 1 .. Len(kept) :
                  left[p] = kept[p] /\ left[p] \notin Matches \cup {Null}
             /\ \A p \in DOMAIN left :
                  p > Len(kept) => left[p] \in Matches \cup {Null}
             /\ Entries(left) \subseteq Entries(s)
             /\ Entries(s) \ Matches \subseteq Entries(left)
             /\ Single(left)
             /\ HasNull(left) <=> MatchBefore(s, Matches)
<1> DEFINE left == Compacted(s, Matches)
           kept == Unmatched(s, Matches)
           K == KeptAt(s, Matches)
           n == Len(kept)
<1>1. /\ kept \in Seq(Slots) /\ n <= Len(s)
      /\ n = Cardinality(K)
      /\ DOMAIN kept = 1 .. n
      /\ \A i \in DOMAIN kept : Place(K, i) \in K /\ kept[i] = s[Place(K, i)]
      /\ \A p \in K : \E i \in DOMAIN kept : kept[i] = s[p]
      /\ Single(kept)
  BY UnmatchedEntries
<1>2. /\ DOMAIN s = 1 .. Len(s) /\ Len(s) \in Nat /\ n \in Nat
      /\ \A p \in DOMAIN s : s[p] \in Slots /\ s[p] # Null
  BY <1>1, LenProperties, ElementOfSeq DEF HasNull
<1>3. \A p : p \in K <=> p \in DOMAIN s /\ s[p] \notin Matches
  BY DEF KeptAt
<1>4. K \in SUBSET Nat /\ IsFiniteSet(K)
  BY <1>3, PositionsAreFinite
<1>5. left = [p \in DOMAIN s |-> IF p <= n THEN kept[p]
                               ELSE IF s[p] \in Matches THEN s[p] ELSE Null]
  BY DEF Compacted
<1> HIDE DEF left, kept, K, n
<1>6. ASSUME NEW p \in 1 .. n
      PROVE  /\ p \in DOMAIN s /\ left[p] = kept[p]
             /\ Place(K, p) \in DOMAIN s /\ left[p] = s[Place(K, p)]
             /\ left[p] \notin Matches /\ left[p] # Null
  <2>1. p \in DOMAIN s /\ p <= n
    BY <1>1, <1>2
  <2>2. left[p] = kept[p]
    BY <1>5, <2>1
  <2>3. Place(K, p) \in K /\ kept[p] = s[Place(K, p)]
    BY <1>1
  <2>4. QED
    BY <1>2, <1>3, <2>1, <2>2, <2>3
<1>7. ASSUME NEW p \in DOMAIN s, p > n
      PROVE  left[p] = IF s[p] \in Matches THEN s[p] ELSE Null
  <2>1. ~ (p <= n)
    BY <1>2, <1>7
  <2>2. QED
    BY <1>5, <2>1
<1>8. \A p \in DOMAIN s : p \in 1 .. n \/ p > n
  BY <1>2
<1>9. left \in Seq(Slots) /\ DOMAIN left = DOMAIN s /\ Len(left) = Len(s)
  <2>1. ASSUME NEW p \in DOMAIN s PROVE left[p] \in Slots
    BY <1>2, <1>6, <1>7, <1>8 DEF Slots
  <2>2. DOMAIN left = 1 .. Len(s)
    BY <1>2, <1>5
  <2>3. left = [p \in 1 .. Len(s) |-> left[p]]
    BY <1>2, <1>5
  <2>4. QED
    BY <1>2, <2>1, <2>2, <2>3
<1>10. ASSUME NEW p \in DOMAIN s, left[p] # Null
       PROVE  \E q \in DOMAIN s : left[p] = s[q]
  BY <1>6, <1>7, <1>8, <1>10
<1>11. Entries(left) \subseteq Entries(s)
  BY <1>9, <1>10 DEF Entries
<1>12. ASSUME NEW q \in DOMAIN s, s[q] \notin Matches
       PROVE  \E p \in DOMAIN s : left[p] = s[q]
  <2>1. PICK i \in 1 .. n : kept[i] = s[q]
    BY <1>1, <1>3, <1>12
  <2>2. QED
    BY <1>6, <2>1
<1>13. Entries(s) \ Matches \subseteq Entries(left)
  BY <1>2, <1>9, <1>12 DEF Entries
<1>14. ASSUME NEW p \in DOMAIN s, NEW q \in DOMAIN s,
              left[p] = left[q], left[p] # Null
       PROVE  p = q
  <2>1. CASE p \in 1 .. n
    <3>1. q \in 1 .. n
      BY <1>6, <1>7, <1>8, <1>14, <2>1
    <3>2. kept[p] = kept[q] /\ kept[p] # Null
      BY <1>6, <1>14, <2>1, <3>1
    <3>3. QED
      BY <1>1, <2>1, <3>1, <3>2 DEF Single
  <2>2. CASE p > n
    <3>1. left[p] = s[p] /\ s[p] \in Matches
      BY <1>7, <1>14, <2>2
    <3>2. q > n
      BY <1>6, <1>8, <1>14, <3>1
    <3>3. left[q] = s[q]
      BY <1>7, <1>14, <3>2
    <3>4. QED
      BY <1>2, <1>14, <3>1, <3>3 DEF Single
  <2>3. QED
    BY <1>8, <2>1, <2>2
<1>15. Single(left)
  BY <1>9, <1>14 DEF Single
<1>16. ASSUME MatchBefore(s, Matches) PROVE HasNull(left)
  <2>1. PICK p \in DOMAIN s, q \in DOMAIN s :
          p < q /\ s[p] \in Matches /\ s[q] \notin Matches
    BY <1>16 DEF MatchBefore
  <2>2. SUFFICES ASSUME ~ HasNull(left) PROVE FALSE
    OBVIOUS
  <2>3. ASSUME NEW r \in K PROVE r \in 1 .. n
    <3>1. r \in DOMAIN s /\ s[r] \notin Matches
      BY <1>3
    <3>2. ~ (r > n)
      BY <1>7, <1>9, <2>2, <3>1 DEF HasNull
    <3>3. QED
      BY <1>8, <3>1, <3>2
  <2>4. IsFiniteSet(1 .. n) /\ Cardinality(1 .. n) = n
    BY <1>2, CountUpTo
  <2>5. K = 1 .. n
    <3>1. K \in SUBSET (1 .. n)
      BY <2>3
    <3>2. QED
      BY <1>1, <2>4, <3>1, FS_Subset
  <2>6. q \in 1 .. n
    BY <1>3, <2>1, <2>5
  <2>7. p \in 1 .. n
    BY <1>2, <2>1, <2>6
  <2>8. QED
    BY <1>3, <2>1, <2>5, <2>7
<1>17. ASSUME HasNull(left) PROVE MatchBefore(s, Matches)
  <2>1. PICK r \in DOMAIN s : left[r] = Null
    BY <1>9, <1>17 DEF HasNull
  <2>2. r > n
    BY <1>6, <1>8, <2>1
  <2>3. s[r] \notin Matches
    BY <1>2, <1>7, <2>1, <2>2
  <2>4. SUFFICES ASSUME ~ MatchBefore(s, Matches) PROVE FALSE
    OBVIOUS
  <2>5. ASSUME NEW p \in 1 .. r PROVE p \in K
    <3>1. p \in DOMAIN s /\ r \in Nat
      BY <1>2
    <3>2. CASE p = r
      BY <1>3, <2>3, <3>1, <3>2
    <3>3. CASE p # r
      <4>1. p < r
        BY <3>1, <3>3
      <4>2. s[p] \notin Matches
        BY <2>3, <2>4, <3>1, <4>1 DEF MatchBefore
      <4>3. QED
        BY <1>3, <3>1, <4>2
    <3>4. QED
      BY <3>2, <3>3
  <2>6. 1 .. r \in SUBSET K /\ r \in Nat /\ r >= 1
    BY <1>2, <2>5
  <2>7. Cardinality(1 .. r) = r
    BY <2>6, FS_Interval
  <2>8. Cardinality(1 .. r) <= n
    BY <1>1, <1>4, <2>6, FS_Subset
  <2>9. QED
    BY <1>2, <2>2, <2>6, <2>7, <2>8
<1>18. ASSUME NEW p \in DOMAIN left, p > n
       PROVE  left[p] \in Matches \cup {Null}
  BY <1>7, <1>9, <1>18
<1>19. n <= Len(left)
  BY <1>1, <1>9
<1>20. \A p \in 1 .. n : left[p] = kept[p] /\ left[p] \notin Matches \cup {Null}
  BY <1>6
<1>21. QED
  BY <1>9, <1>11, <1>13, <1>15, <1>16, <1>17, <1>18, <1>19, <1>20
     DEF left, kept, n

-----------------------------------------------------------------------------
(* Ids and clients *)

(* Every set of natural numbers that is not empty has a least element.     *)
LEMMA LeastElement ==
  ASSUME NEW S \in SUBSET Nat, S # {}
  PROVE  \E m \in S : \A n \in S : m <= n
<1> DEFINE Below == {0 .. n : n \in S}
<1>1. Below \subseteq FiniteSubsetsOf(Nat)
  <2>1. ASSUME NEW n \in S PROVE 0 .. n \in SUBSET Nat /\ IsFiniteSet(0 .. n)
    BY FS_Interval
  <2>2. QED
    BY <2>1 DEF FiniteSubsetsOf
<1>2. Below # {}
  OBVIOUS
<1>3. PICK x \in Below : \A z \in Below : <<z, x>> \notin StrictSubsetOrdering(Nat)
  BY <1>1, <1>2, FS_StrictSubsetOrderingWellFounded, WFMin
<1>4. PICK m \in S : x = 0 .. m
  BY <1>3
<1>5. ASSUME NEW n \in S PROVE m <= n
  <2>1. SUFFICES ASSUME n < m PROVE FALSE
    OBVIOUS
  <2>2. 0 .. n \in Below
    OBVIOUS
  <2>3. /\ 0 .. n \subseteq 0 .. m
        /\ m \in 0 .. m /\ m \notin 0 .. n
    BY <2>1
  <2>4. 0 .. n \in SUBSET Nat /\ 0 .. m \in SUBSET Nat
    OBVIOUS
  <2>5. <<0 .. n, 0 .. m>> \in StrictSubsetOrdering(Nat)
    BY <2>3, <2>4 DEF StrictSubsetOrdering
  <2>6. QED
    BY <1>3, <1>4, <2>2, <2>5
<1>6. QED
  BY <1>5

(* The next resource to go has the lowest id.                              *)
LEMMA DoomedIsLeast ==
  ASSUME TypeOK, dying \in Clients, LiveIds(dying) # {}
  PROVE  /\ Doomed \in LiveIds(dying)
         /\ \A i \in LiveIds(dying) : Doomed <= i
<1>1. LiveIds(dying) \in SUBSET Nat
  BY CompositorAssumption DEF LiveIds, Ids
<1>2. \E m \in LiveIds(dying) : \A i \in LiveIds(dying) : m <= i
  BY <1>1, LeastElement
<1>3. Doomed = CHOOSE m \in LiveIds(dying) : \A i \in LiveIds(dying) : m <= i
  BY DEF Doomed, Min
<1>4. QED
  BY <1>2, <1>3

(* What exists is numbered, and nothing belongs to no client.              *)
LEMMA OwnedIsNumbered ==
  ASSUME TypeOK
  PROVE  /\ alive \subseteq Surfaces
         /\ Null \notin Surfaces /\ Null \notin alive
         /\ ObjectsRooted => OwnedBy(NoClient) = {}
<1>1. alive \subseteq Surfaces /\ Null \notin Surfaces
  BY CompositorAssumption DEF TypeOK, Surfaces, Null
<1>2. ASSUME ObjectsRooted, NEW n \in OwnedBy(NoClient) PROVE FALSE
  <2>1. n \in alive /\ owner[n] = NoClient
    BY DEF OwnedBy
  <2>2. owner[n] \in Clients
    BY <1>2, <2>1 DEF ObjectsRooted, Rooted
  <2>3. QED
    BY <2>1, <2>2, CompositorAssumption
<1>3. QED
  BY <1>1, <1>2

-----------------------------------------------------------------------------
(* Deleting surfaces and freeing resources *)

(* The destructors unhook what they delete, and write to a freed resource  *)
(* only if a shell surface had a lower id than its surface.                *)
LEMMA Deleted ==
  ASSUME TypeOK, ObjectsRooted, dying \in Clients,
         NEW gone \in SUBSET OwnedBy(dying), DeleteSurfaces(gone)
  PROVE  /\ alive' = alive \ gone
         /\ owner' \in [Surfaces -> Clients \cup {NoClient}]
         /\ surfaceId' \in [Surfaces -> Ids \cup {NoId}]
         /\ shellId' \in [Surfaces -> Ids \cup {NoId}]
         /\ \A n \in alive' : /\ owner'[n] = owner[n]
                              /\ surfaceId'[n] = surfaceId[n]
                              /\ shellId'[n] = shellId[n]
         /\ \A n \in Surfaces \ alive' : shellId'[n] = NoId
         /\ hooked' \in [Clients -> SUBSET Ids]
         /\ \A c \in Clients \ {dying} : hooked'[c] = hooked[c]
         /\ \A i : i \in hooked'[dying] <=>
                    /\ i \in hooked[dying]
                    /\ \A n \in gone : i # surfaceId[n] /\ i # shellId[n]
         /\ crashed' \in BOOLEAN /\ touchedFreed' \in BOOLEAN
         /\ touchedFreed' => touchedFreed \/ inverted
         /\ touchedFreed => touchedFreed'
         /\ crashed' => touchedFreed'
<1>1. /\ alive \subseteq Surfaces
      /\ owner \in [Surfaces -> Clients \cup {NoClient}]
      /\ surfaceId \in [Surfaces -> Ids \cup {NoId}]
      /\ shellId \in [Surfaces -> Ids \cup {NoId}]
      /\ hooked \in [Clients -> SUBSET Ids]
      /\ touchedFreed \in BOOLEAN
  BY OwnedIsNumbered DEF TypeOK
<1>2. /\ alive' = alive \ gone
      /\ owner' = [n \in Surfaces |-> IF n \in gone THEN NoClient ELSE owner[n]]
      /\ surfaceId' = [n \in Surfaces |-> IF n \in gone THEN NoId ELSE surfaceId[n]]
      /\ shellId' = [n \in Surfaces |-> IF n \in gone THEN NoId ELSE shellId[n]]
      /\ Unhook(gone)
  BY DEF DeleteSurfaces
<1>3. \A n \in gone : n \in alive /\ owner[n] = dying
  BY DEF OwnedBy
<1>4. /\ owner' \in [Surfaces -> Clients \cup {NoClient}]
      /\ surfaceId' \in [Surfaces -> Ids \cup {NoId}]
      /\ shellId' \in [Surfaces -> Ids \cup {NoId}]
  BY <1>1, <1>2
<1>5. \A n \in alive' : /\ owner'[n] = owner[n]
                        /\ surfaceId'[n] = surfaceId[n]
                        /\ shellId'[n] = shellId[n]
  BY <1>1, <1>2
<1>6. \A n \in Surfaces \ alive' : shellId'[n] = NoId
  BY <1>2 DEF ObjectsRooted
<1> DEFINE ids == UNION {{surfaceId[n], shellId[n]} : n \in gone}
           freed == \E n \in gone :
                      shellId[n] # NoId /\ resource[dying][shellId[n]] = NoResource
<1>7. /\ hooked' = [hooked EXCEPT ![dying] = @ \ ids]
      /\ touchedFreed' = (touchedFreed \/ freed)
      /\ crashed' \in {FALSE, freed}
  BY <1>2 DEF Unhook
<1>8. \A i : i \in ids <=> \E n \in gone : i = surfaceId[n] \/ i = shellId[n]
  OBVIOUS
<1>9. freed => inverted
  <2>1. SUFFICES ASSUME NEW n \in gone, shellId[n] # NoId,
                        resource[dying][shellId[n]] = NoResource
                 PROVE  inverted
    OBVIOUS
  <2>2. ShellRooted(n) /\ InversionSeen(n) /\ owner[n] = dying
    BY <1>3 DEF ObjectsRooted
  <2>3. NoResource # [kind |-> "shell", of |-> n]
    BY DEF NoResource
  <2>4. shellId[n] < surfaceId[n]
    BY <2>1, <2>2, <2>3 DEF ShellRooted
  <2>5. QED
    BY <2>1, <2>2, <2>4 DEF InversionSeen
<1> HIDE DEF ids, freed
<1>10. /\ hooked' \in [Clients -> SUBSET Ids]
       /\ \A c \in Clients \ {dying} : hooked'[c] = hooked[c]
       /\ hooked'[dying] = hooked[dying] \ ids
  BY <1>1, <1>7
<1>11. /\ crashed' \in BOOLEAN /\ touchedFreed' \in BOOLEAN
       /\ touchedFreed' => touchedFreed \/ inverted
       /\ touchedFreed => touchedFreed'
       /\ crashed' => touchedFreed'
  <2>1. freed \in BOOLEAN
    BY DEF freed
  <2>2. crashed' = FALSE \/ crashed' = freed
    BY <1>7
  <2>3. (touchedFreed \/ freed) \in BOOLEAN
    OBVIOUS
  <2>4. crashed' \in BOOLEAN
    BY <2>1, <2>2
  <2>5. touchedFreed' \in BOOLEAN
    BY <1>7, <2>3
  <2>6. crashed' => freed
    BY <2>2
  <2>7. QED
    BY <1>7, <1>9, <2>4, <2>5, <2>6
<1>12. \A i : i \in hooked'[dying] <=>
              /\ i \in hooked[dying]
              /\ \A n \in gone : i # surfaceId[n] /\ i # shellId[n]
  BY <1>8, <1>10
<1>13. QED
  BY <1>2, <1>4, <1>5, <1>6, <1>10, <1>11, <1>12

(* When the next resource is freed, and the surfaces that its hook leads   *)
(* to are deleted and unhooked, the other objects and hooks still know of  *)
(* each other.                                                             *)
LEMMA Freed ==
  ASSUME TypeOK, ObjectsRooted, HooksLead,
         dying \in Clients, LiveIds(dying) # {},
         FreeDoomed, dying' = dying, inverted' = inverted,
         NEW gone \in SUBSET OwnedBy(dying),
         \A n \in OwnedBy(dying) \ gone : surfaceId[n] # Doomed,
         alive' = alive \ gone,
         \A n \in alive' : /\ owner'[n] = owner[n]
                          /\ surfaceId'[n] = surfaceId[n]
                          /\ shellId'[n] = shellId[n],
         \A n \in Surfaces \ alive' : shellId'[n] = NoId,
         \A c \in Clients \ {dying} : hooked'[c] = hooked[c],
         \A i : i \in hooked'[dying] <=>
                /\ i \in hooked[dying]
                /\ \A n \in gone : i # surfaceId[n] /\ i # shellId[n]
  PROVE  /\ resource' \in [Clients -> [Ids -> [kind : Kinds, of : Surfaces \cup {Null}]]]
         /\ ObjectsRooted' /\ HooksLead'
<1>1. /\ Doomed \in LiveIds(dying)
      /\ \A i \in LiveIds(dying) : Doomed <= i
  BY DoomedIsLeast
<1>2. Doomed \in Ids /\ Ids \subseteq Nat /\ LiveIds(dying) \subseteq Ids
  BY <1>1, CompositorAssumption DEF LiveIds, Ids
<1>3. /\ NoResource \in [kind : Kinds, of : Surfaces \cup {Null}]
      /\ NoResource.kind = "none"
  BY DEF NoResource, Kinds
<1>4. resource \in [Clients -> [Ids -> [kind : Kinds, of : Surfaces \cup {Null}]]]
  BY DEF TypeOK
<1>5. resource' = [resource EXCEPT ![dying][Doomed] = NoResource]
  BY DEF FreeDoomed
<1>6. resource' \in [Clients -> [Ids -> [kind : Kinds, of : Surfaces \cup {Null}]]]
  BY <1>2, <1>3, <1>4, <1>5
<1>7. \A c \in Clients : \A i \in Ids :
        resource'[c][i] = IF c = dying /\ i = Doomed THEN NoResource ELSE resource[c][i]
  BY <1>2, <1>4, <1>5
<1>8. hooked \in [Clients -> SUBSET Ids]
  BY DEF TypeOK
<1>9. shellId \in [Surfaces -> Ids \cup {NoId}] /\ alive \subseteq Surfaces
  BY OwnedIsNumbered DEF TypeOK
<1>10. ASSUME NEW n \in alive'
       PROVE  Rooted(n)' /\ ShellRooted(n)' /\ InversionSeen(n)'
  <2>1. /\ n \in alive /\ n \notin gone
        /\ owner'[n] = owner[n] /\ surfaceId'[n] = surfaceId[n] /\ shellId'[n] = shellId[n]
    OBVIOUS
  <2>2. Rooted(n) /\ ShellRooted(n) /\ InversionSeen(n)
    BY <2>1 DEF ObjectsRooted
  <2>3. /\ owner[n] \in Clients /\ surfaceId[n] \in Ids
        /\ surfaceId[n] \in hooked[owner[n]]
        /\ resource[owner[n]][surfaceId[n]] = [kind |-> "surface", of |-> n]
    BY <1>8, <2>2 DEF Rooted
  <2>4. resource'[owner[n]][surfaceId[n]] = [kind |-> "surface", of |-> n]
    <3>1. ~ (owner[n] = dying /\ surfaceId[n] = Doomed)
      BY <2>1 DEF OwnedBy
    <3>2. QED
      BY <1>7, <2>3, <3>1
  <2>5. ASSUME owner[n] = dying, NEW m \in gone
        PROVE  surfaceId[n] # surfaceId[m] /\ surfaceId[n] # shellId[m]
    <3>1. m \in alive /\ owner[m] = dying
      BY DEF OwnedBy
    <3>2. Rooted(m) /\ ShellRooted(m)
      BY <3>1 DEF ObjectsRooted
    <3>3. resource[dying][surfaceId[m]] = [kind |-> "surface", of |-> m]
      BY <3>1, <3>2 DEF Rooted
    <3>4. shellId[m] # NoId =>
            resource[dying][shellId[m]] \in {[kind |-> "shell", of |-> m], NoResource}
      BY <3>1, <3>2 DEF ShellRooted
    <3>5. NoId \notin Ids
      BY CompositorAssumption DEF NoId, Ids
    <3>6. [kind |-> "surface", of |-> n] \notin
            {[kind |-> "surface", of |-> m], [kind |-> "shell", of |-> m], NoResource}
      BY <2>1 DEF NoResource
    <3>7. QED
      BY <2>3, <2>5, <3>3, <3>4, <3>5, <3>6
  <2>6. surfaceId[n] \in hooked'[owner[n]]
    BY <2>3, <2>5
  <2>7. Rooted(n)'
    BY <2>1, <2>3, <2>4, <2>6 DEF Rooted
  <2>8. ShellRooted(n)'
    <3>1. SUFFICES ASSUME shellId[n] # NoId
                   PROVE  \/ resource'[owner[n]][shellId[n]] = [kind |-> "shell", of |-> n]
                          \/ /\ owner[n] = dying
                             /\ resource'[owner[n]][shellId[n]] = NoResource
                             /\ shellId[n] < surfaceId[n]
      BY <2>1 DEF ShellRooted
    <3>2. shellId[n] \in Ids
      BY <1>9, <2>1, <3>1
    <3>3. CASE owner[n] = dying /\ shellId[n] = Doomed
      <4>1. surfaceId[n] \in LiveIds(dying)
        <5>1. [kind |-> "surface", of |-> n] # NoResource
          BY DEF NoResource
        <5>2. QED
          BY <2>3, <3>3, <5>1 DEF LiveIds
      <4>2. surfaceId[n] # Doomed
        BY <2>1, <3>3 DEF OwnedBy
      <4>3. Doomed \in Nat /\ surfaceId[n] \in Nat /\ Doomed <= surfaceId[n]
        BY <1>1, <1>2, <4>1
      <4>4. Doomed < surfaceId[n]
        BY <4>2, <4>3
      <4>5. QED
        BY <1>2, <1>7, <3>3, <4>4
    <3>4. CASE ~ (owner[n] = dying /\ shellId[n] = Doomed)
      <4>1. resource'[owner[n]][shellId[n]] = resource[owner[n]][shellId[n]]
        BY <1>7, <2>3, <3>2, <3>4
      <4>2. QED
        BY <2>2, <3>1, <4>1 DEF ShellRooted
    <3>5. QED
      BY <3>3, <3>4
  <2>9. InversionSeen(n)'
    BY <2>1, <2>2 DEF InversionSeen
  <2>10. QED
    BY <2>7, <2>8, <2>9
<1>11. ASSUME NEW c \in Clients, NEW i \in hooked'[c]
       PROVE  HookLeads(c, i)'
  <2>1. i \in hooked[c] /\ i \in Ids
    BY <1>8
  <2>2. HookLeads(c, i)
    BY <2>1 DEF HooksLead
  <2>3. CASE c = dying /\ i = Doomed
    <3>1. resource'[c][i].kind = "none"
      BY <1>3, <1>7, <2>1, <2>3
    <3>2. QED
      BY <3>1 DEF HookLeads
  <2>4. CASE ~ (c = dying /\ i = Doomed)
    <3>1. resource'[c][i] = resource[c][i]
      BY <1>7, <2>1, <2>4
    <3>2. ASSUME NEW n \in alive, owner[n] = c, surfaceId[n] = i \/ shellId[n] = i
          PROVE  n \in alive'
      BY <3>2 DEF OwnedBy
    <3>3. QED
      BY <2>2, <3>1, <3>2 DEF HookLeads
  <2>5. QED
    BY <2>3, <2>4
<1>12. ObjectsRooted'
  BY <1>10 DEF ObjectsRooted
<1>13. HooksLead'
  BY <1>11 DEF HooksLead
<1>14. QED
  BY <1>6, <1>12, <1>13

(* The same when the hook deletes nothing.                                 *)
LEMMA FreedAlone ==
  ASSUME TypeOK, ObjectsRooted, HooksLead,
         dying \in Clients, LiveIds(dying) # {}, FreeDoomed,
         UNCHANGED <<hooked, objects, dying, inverted>>,
         \A n \in OwnedBy(dying) : surfaceId[n] # Doomed
  PROVE  /\ resource' \in [Clients -> [Ids -> [kind : Kinds, of : Surfaces \cup {Null}]]]
         /\ ObjectsRooted' /\ HooksLead'
<1> DEFINE gone == {}
<1>1. /\ gone \in SUBSET OwnedBy(dying)
      /\ \A n \in OwnedBy(dying) \ gone : surfaceId[n] # Doomed
      /\ alive' = alive \ gone
      /\ \A i : i \in hooked'[dying] <=>
                /\ i \in hooked[dying]
                /\ \A n \in gone : i # surfaceId[n] /\ i # shellId[n]
  BY DEF objects
<1>2. /\ \A n \in alive' : /\ owner'[n] = owner[n]
                           /\ surfaceId'[n] = surfaceId[n]
                           /\ shellId'[n] = shellId[n]
      /\ \A n \in Surfaces \ alive' : shellId'[n] = NoId
      /\ \A c \in Clients \ {dying} : hooked'[c] = hooked[c]
      /\ dying' = dying /\ inverted' = inverted
  BY DEF objects, ObjectsRooted
<1> HIDE DEF gone
<1>3. QED
  BY <1>1, <1>2, Freed

-----------------------------------------------------------------------------
(* The invariant is inductive *)

(* The initial state satisfies the invariant.                              *)
LEMMA InitIInv == Init => IInv
<1> SUFFICES ASSUME Init PROVE IInv
  OBVIOUS
<1>1. \A c \in Clients : \A i \in Ids : resource[c][i] = NoResource
  BY DEF Init
<1>2. NoResource \in [kind : Kinds, of : Surfaces \cup {Null}]
  BY DEF NoResource, Kinds
<1>3. TypeOK
  <2>1. 0 \in 0 .. MaxSurfaces
    BY CompositorAssumption
  <2>2. list = <<>> /\ <<>> \in Seq(Surfaces \cup {Null})
    BY DEF Init
  <2>3. resource \in [Clients -> [Ids -> [kind : Kinds, of : Surfaces \cup {Null}]]]
    BY <1>2 DEF Init
  <2>4. QED
    BY <2>1, <2>2, <2>3 DEF Init, TypeOK
<1>4. ObjectsRooted
  BY DEF Init, ObjectsRooted
<1>5. HooksLead
  BY DEF Init, HooksLead
<1>6. ListSound
  <2>1. list = <<>> /\ alive = {} /\ overtaken = FALSE
    BY DEF Init
  <2>2. DOMAIN list = {}
    BY <2>1
  <2>3. QED
    BY <2>1, <2>2 DEF ListSound, Entries, Single, HasNull
<1>7. QED
  BY <1>3, <1>4, <1>5, <1>6 DEF IInv, Sound, Init, BreaksOnlyByNulls

\* wl_resource_create, whatever it is created for
Creates(c, i, r) == resource' = [resource EXCEPT ![c][i] = r]

(* A resource that is added takes an id that no object knows of.           *)
LEMMA Added ==
  ASSUME TypeOK, ObjectsRooted, Running,
         NEW c \in Clients, NEW i \in NewIds(c),
         NEW r \in [kind : Kinds, of : Surfaces \cup {Null}],
         Creates(c, i, r)
  PROVE  /\ i \in Ids
         /\ resource' \in [Clients -> [Ids -> [kind : Kinds, of : Surfaces \cup {Null}]]]
         /\ resource'[c][i] = r
         /\ \A b \in Clients : \A j \in Ids :
              ~ (b = c /\ j = i) => resource'[b][j] = resource[b][j]
         /\ \A n \in alive :
              /\ resource'[owner[n]][surfaceId[n]] = resource[owner[n]][surfaceId[n]]
              /\ surfaceId[n] \in Ids
              /\ owner[n] = c => surfaceId[n] # i /\ shellId[n] # i
              /\ shellId[n] # NoId =>
                   /\ resource[owner[n]][shellId[n]] = [kind |-> "shell", of |-> n]
                   /\ resource'[owner[n]][shellId[n]] = [kind |-> "shell", of |-> n]
<1>1. i \in Ids /\ resource[c][i] = NoResource
  BY DEF NewIds, LiveIds
<1>2. resource \in [Clients -> [Ids -> [kind : Kinds, of : Surfaces \cup {Null}]]]
  BY DEF TypeOK
<1>3. resource' \in [Clients -> [Ids -> [kind : Kinds, of : Surfaces \cup {Null}]]]
  BY <1>1, <1>2 DEF Creates
<1>4. \A b \in Clients : \A j \in Ids :
        resource'[b][j] = IF b = c /\ j = i THEN r ELSE resource[b][j]
  BY <1>1, <1>2 DEF Creates
<1>5. ASSUME NEW n \in alive
      PROVE  /\ resource'[owner[n]][surfaceId[n]] = resource[owner[n]][surfaceId[n]]
             /\ surfaceId[n] \in Ids
             /\ owner[n] = c => surfaceId[n] # i /\ shellId[n] # i
             /\ shellId[n] # NoId =>
                  /\ resource[owner[n]][shellId[n]] = [kind |-> "shell", of |-> n]
                  /\ resource'[owner[n]][shellId[n]] = [kind |-> "shell", of |-> n]
  <2>1. Rooted(n) /\ ShellRooted(n)
    BY DEF ObjectsRooted
  <2>2. owner[n] \in Clients /\ owner[n] # dying
    BY <2>1, CompositorAssumption DEF Rooted, Running
  <2>3. hooked[owner[n]] \subseteq Ids /\ shellId[n] \in Ids \cup {NoId}
    BY <2>2, OwnedIsNumbered DEF TypeOK
  <2>4. /\ surfaceId[n] \in Ids
        /\ resource[owner[n]][surfaceId[n]] = [kind |-> "surface", of |-> n]
    BY <2>1, <2>3 DEF Rooted
  <2>5. shellId[n] # NoId =>
          resource[owner[n]][shellId[n]] = [kind |-> "shell", of |-> n]
    BY <2>1, <2>2 DEF ShellRooted
  <2>6. /\ [kind |-> "surface", of |-> n] # NoResource
        /\ [kind |-> "shell", of |-> n] # NoResource
    BY DEF NoResource
  <2>7. owner[n] = c => surfaceId[n] # i
    BY <1>1, <2>4, <2>6
  <2>8. owner[n] = c => shellId[n] # i
    <3>1. i # NoId
      BY <1>1, CompositorAssumption DEF Ids, NoId
    <3>2. QED
      BY <1>1, <2>5, <2>6, <3>1
  <2>9. resource'[owner[n]][surfaceId[n]] = resource[owner[n]][surfaceId[n]]
    BY <1>4, <2>2, <2>4, <2>7
  <2>10. ASSUME shellId[n] # NoId
         PROVE  resource'[owner[n]][shellId[n]] = resource[owner[n]][shellId[n]]
    BY <1>4, <2>2, <2>3, <2>8, <2>10
  <2>11. QED
    BY <2>4, <2>5, <2>7, <2>8, <2>9, <2>10
<1>6. resource'[c][i] = r
  BY <1>1, <1>4
<1>7. \A b \in Clients : \A j \in Ids :
        ~ (b = c /\ j = i) => resource'[b][j] = resource[b][j]
  BY <1>4
<1>8. QED
  BY <1>1, <1>3, <1>5, <1>6, <1>7

(* Binding wl_compositor tells no object anything new.                     *)
LEMMA BindKeeps ==
  ASSUME IInv, NEW c \in Clients, NEW i \in Ids, Bind(c, i)
  PROVE  IInv'
<1> DEFINE r == [kind |-> "compositor", of |-> Null]
<1>1. /\ TypeOK /\ ObjectsRooted /\ HooksLead /\ ListSound /\ Running
      /\ i \in NewIds(c)
  BY DEF Bind, Running, IInv, Sound
<1>2. /\ Creates(c, i, r)
      /\ hooked' = [hooked EXCEPT ![c] = @ \cup {i}]
      /\ UNCHANGED <<objects, list, dying, crashed, ghosts>>
  BY DEF Bind, AddResource, Creates
<1>3. r \in [kind : Kinds, of : Surfaces \cup {Null}] /\ r.kind = "compositor"
  BY DEF Kinds
<1> HIDE DEF r
<1>4. /\ resource' \in [Clients -> [Ids -> [kind : Kinds, of : Surfaces \cup {Null}]]]
      /\ resource'[c][i] = r
      /\ \A b \in Clients : \A j \in Ids :
           ~ (b = c /\ j = i) => resource'[b][j] = resource[b][j]
      /\ \A n \in alive :
           /\ resource'[owner[n]][surfaceId[n]] = resource[owner[n]][surfaceId[n]]
           /\ shellId[n] # NoId =>
                resource'[owner[n]][shellId[n]] = [kind |-> "shell", of |-> n]
  BY <1>1, <1>2, <1>3, Added
<1>5. /\ hooked' \in [Clients -> SUBSET Ids]
      /\ \A b \in Clients : hooked[b] \subseteq hooked'[b]
      /\ \A b \in Clients : \A j \in hooked'[b] :
           ~ (b = c /\ j = i) => j \in hooked[b] /\ j \in Ids
  BY <1>1, <1>2 DEF TypeOK
<1>6. TypeOK'
  BY <1>1, <1>2, <1>4, <1>5 DEF TypeOK, objects, ghosts
<1>7. ObjectsRooted'
  <2>1. ASSUME NEW n \in alive
        PROVE  Rooted(n)' /\ ShellRooted(n)' /\ InversionSeen(n)'
    <3>1. Rooted(n) /\ InversionSeen(n)
      BY <1>1 DEF ObjectsRooted
    <3>2. QED
      BY <1>2, <1>4, <1>5, <3>1
         DEF Rooted, ShellRooted, InversionSeen, objects, ghosts
  <2>2. QED
    BY <1>1, <1>2, <2>1 DEF ObjectsRooted, objects
<1>8. HooksLead'
  <2>1. ASSUME NEW b \in Clients, NEW j \in hooked'[b] PROVE HookLeads(b, j)'
    <3>1. CASE b = c /\ j = i
      BY <1>3, <1>4, <3>1 DEF HookLeads
    <3>2. CASE ~ (b = c /\ j = i)
      <4>1. HookLeads(b, j) /\ resource'[b][j] = resource[b][j]
        BY <1>1, <1>4, <1>5, <3>2 DEF HooksLead
      <4>2. QED
        BY <1>2, <4>1 DEF HookLeads, objects
    <3>3. QED
      BY <3>1, <3>2
  <2>2. QED
    BY <2>1 DEF HooksLead
<1>9. ListSound'
  BY <1>1, <1>2 DEF ListSound, HasNull, Single, Entries, objects, ghosts
<1>10. BreaksOnlyByNulls'
  BY <1>2 DEF IInv, BreaksOnlyByNulls, ghosts
<1>11. QED
  BY <1>6, <1>7, <1>8, <1>9, <1>10 DEF IInv, Sound

(* A surface that is created is new, owned by the list and rooted.         *)
LEMMA CreateSurfaceKeeps ==
  ASSUME IInv, NEW c \in Clients, NEW i \in Ids, CreateSurface(c, i)
  PROVE  IInv'
<1>1. /\ TypeOK /\ ObjectsRooted /\ HooksLead /\ ListSound /\ Running
      /\ i \in NewIds(c) /\ created < MaxSurfaces
  BY DEF CreateSurface, Running, IInv, Sound
<1>0. PICK m : m = created + 1
  OBVIOUS
<1> DEFINE r == [kind |-> "surface", of |-> m]
<1>2. /\ Creates(c, i, r)
      /\ hooked' = [hooked EXCEPT ![c] = @ \cup {i}]
      /\ created' = m
      /\ alive' = alive \cup {m}
      /\ owner' = [owner EXCEPT ![m] = c]
      /\ surfaceId' = [surfaceId EXCEPT ![m] = i]
      /\ list' = Append(list, m)
      /\ UNCHANGED <<shellId, dying, crashed, ghosts>>
  BY <1>0 DEF CreateSurface, AddResource, Creates
<1>3. /\ m \in Surfaces /\ m \notin alive /\ m # Null
      /\ m \in 0 .. MaxSurfaces /\ alive \cup {m} \subseteq 1 .. m
  <2>1. created \in Nat /\ MaxSurfaces \in Nat
    BY <1>1, CompositorAssumption DEF TypeOK
  <2>2. \A n \in alive : n \in 1 .. created
    BY <1>1 DEF TypeOK
  <2>3. \A n \in alive : n \in 1 .. m /\ n # m
    BY <1>0, <2>1, <2>2
  <2>4. m \in 1 .. MaxSurfaces /\ m \in 1 .. m /\ m \in 0 .. MaxSurfaces /\ m # 0
    BY <1>0, <1>1, <2>1
  <2>5. QED
    BY <2>3, <2>4 DEF Surfaces, Null
<1>4. r \in [kind : Kinds, of : Surfaces \cup {Null}]
      /\ r.kind = "surface" /\ r.of = m
  BY <1>3 DEF Kinds
<1>5. alive \subseteq Surfaces /\ shellId[m] = NoId
  BY <1>1, <1>3, OwnedIsNumbered DEF ObjectsRooted
<1>6. /\ i \in Ids
      /\ resource' \in [Clients -> [Ids -> [kind : Kinds, of : Surfaces \cup {Null}]]]
      /\ resource'[c][i] = r
      /\ \A b \in Clients : \A j \in Ids :
           ~ (b = c /\ j = i) => resource'[b][j] = resource[b][j]
      /\ \A n \in alive :
           /\ resource'[owner[n]][surfaceId[n]] = resource[owner[n]][surfaceId[n]]
           /\ shellId[n] # NoId =>
                resource'[owner[n]][shellId[n]] = [kind |-> "shell", of |-> n]
  <2> HIDE DEF r
  <2>1. QED
    BY <1>1, <1>2, <1>4, Added
<1>7. /\ hooked' \in [Clients -> SUBSET Ids]
      /\ \A b \in Clients : hooked[b] \subseteq hooked'[b]
      /\ \A b \in Clients : \A j \in hooked'[b] :
           ~ (b = c /\ j = i) => j \in hooked[b] /\ j \in Ids
      /\ i \in hooked'[c]
  BY <1>1, <1>2, <1>6 DEF TypeOK
<1>8. /\ owner' \in [Surfaces -> Clients \cup {NoClient}]
      /\ surfaceId' \in [Surfaces -> Ids \cup {NoId}]
      /\ owner'[m] = c /\ surfaceId'[m] = i
      /\ \A n \in alive : owner'[n] = owner[n] /\ surfaceId'[n] = surfaceId[n]
  BY <1>1, <1>2, <1>3, <1>5, <1>6 DEF TypeOK
<1>9. list \in Seq(Slots) /\ m \in Slots
  BY <1>1, <1>3 DEF TypeOK, Slots
<1>10. TypeOK'
  <2>1. list' \in Seq(Surfaces \cup {Null})
    BY <1>2, <1>9, AppendProperties DEF Slots
  <2>2. QED
    BY <1>1, <1>2, <1>3, <1>6, <1>7, <1>8, <2>1 DEF TypeOK, ghosts
<1>11. ObjectsRooted'
  <2>1. ASSUME NEW n \in alive
        PROVE  Rooted(n)' /\ ShellRooted(n)' /\ InversionSeen(n)'
    <3>1. Rooted(n) /\ InversionSeen(n)
      BY <1>1 DEF ObjectsRooted
    <3>2. QED
      BY <1>2, <1>6, <1>7, <1>8, <3>1
         DEF Rooted, ShellRooted, InversionSeen, ghosts
  <2>2. Rooted(m)'
    BY <1>2, <1>6, <1>7, <1>8 DEF Rooted
  <2>3. shellId'[m] = NoId
    BY <1>2, <1>5
  <2>4. ShellRooted(m)' /\ InversionSeen(m)'
    BY <2>3 DEF ShellRooted, InversionSeen
  <2>5. alive' = alive \cup {m} /\ shellId' = shellId
    BY <1>2
  <2>6. \A n \in Surfaces \ alive' : shellId'[n] = NoId
    BY <1>1, <2>5 DEF ObjectsRooted
  <2> HIDE DEF r
  <2>7. QED
    BY <2>1, <2>2, <2>4, <2>5, <2>6 DEF ObjectsRooted
<1>12. HooksLead'
  <2>1. ASSUME NEW b \in Clients, NEW j \in hooked'[b] PROVE HookLeads(b, j)'
    <3>1. CASE b = c /\ j = i
      BY <1>2, <1>4, <1>6, <1>8, <3>1 DEF HookLeads
    <3>2. CASE ~ (b = c /\ j = i)
      <4>1. HookLeads(b, j) /\ resource'[b][j] = resource[b][j]
        BY <1>1, <1>6, <1>7, <3>2 DEF HooksLead
      <4>2. QED
        BY <1>2, <1>8, <4>1 DEF HookLeads
    <3>3. QED
      BY <3>1, <3>2
  <2>2. QED
    BY <2>1 DEF HooksLead
<1>13. ListSound'
  <2>1. /\ DOMAIN list = 1 .. Len(list) /\ Len(list) \in Nat
        /\ DOMAIN list' = 1 .. Len(list) + 1
        /\ list'[Len(list) + 1] = m
        /\ \A p \in 1 .. Len(list) : list'[p] = list[p]
    BY <1>2, <1>9, AppendProperties
  <2>2. \A p \in DOMAIN list' : p \in DOMAIN list \/ p = Len(list) + 1
    BY <2>1
  <2>3. \A p \in DOMAIN list : p \in DOMAIN list'
    BY <2>1
  <2>4. Len(list) + 1 \in DOMAIN list'
    BY <2>1
  <2>5. \A p \in DOMAIN list : list[p] # m
    BY <1>1, <1>3 DEF ListSound, Entries
  <2>6. Entries(list') = Entries(list) \cup {m}
    <3>1. Entries(list') \subseteq Entries(list) \cup {m}
      BY <2>1, <2>2 DEF Entries
    <3>2. Entries(list) \subseteq Entries(list')
      BY <2>1, <2>3 DEF Entries
    <3>3. m \in Entries(list')
      BY <1>3, <2>1, <2>4 DEF Entries
    <3>4. QED
      BY <3>1, <3>2, <3>3
  <2>7. Single(list')
    BY <1>1, <2>1, <2>2, <2>5 DEF ListSound, Single
  <2>8. HasNull(list') <=> HasNull(list)
    BY <1>3, <2>1, <2>2, <2>3 DEF HasNull
  <2>9. QED
    BY <1>1, <1>2, <2>6, <2>7, <2>8 DEF ListSound, ghosts
<1>14. BreaksOnlyByNulls'
  BY <1>2 DEF IInv, BreaksOnlyByNulls, ghosts
<1>15. QED
  BY <1>10, <1>11, <1>12, <1>13, <1>14 DEF IInv, Sound

(* A shell surface, the first or a later one, is rooted in its surface; of *)
(* an earlier one only a resource without a hook remains.                  *)
LEMMA GetShellSurfaceKeeps ==
  ASSUME IInv, NEW c \in Clients, NEW n \in Surfaces, NEW i \in Ids,
         GetShellSurface(c, n, i)
  PROVE  IInv'
<1> DEFINE r == [kind |-> "shell", of |-> n]
<1>1. /\ TypeOK /\ ObjectsRooted /\ HooksLead /\ ListSound /\ Running
      /\ i \in NewIds(c) /\ n \in alive /\ owner[n] = c
  BY DEF GetShellSurface, OwnedBy, Running, IInv, Sound
<1>2. /\ Creates(c, i, r)
      /\ hooked' = [hooked EXCEPT ![c] = (@ \cup {i}) \ {shellId[n]}]
      /\ shellId' = [shellId EXCEPT ![n] = i]
      /\ inverted' = (inverted \/ i < surfaceId[n])
      /\ UNCHANGED <<created, alive, owner, surfaceId, list, dying, crashed,
                     touchedFreed, overtaken>>
  BY DEF GetShellSurface, Creates
<1>3. r \in [kind : Kinds, of : Surfaces \cup {Null}]
  BY DEF Kinds
<1>4. /\ i \in Ids
      /\ resource' \in [Clients -> [Ids -> [kind : Kinds, of : Surfaces \cup {Null}]]]
      /\ resource'[c][i] = r
      /\ \A b \in Clients : \A j \in Ids :
           ~ (b = c /\ j = i) => resource'[b][j] = resource[b][j]
      /\ \A k \in alive :
           /\ resource'[owner[k]][surfaceId[k]] = resource[owner[k]][surfaceId[k]]
           /\ surfaceId[k] \in Ids
           /\ owner[k] = c => surfaceId[k] # i /\ shellId[k] # i
           /\ shellId[k] # NoId =>
                /\ resource[owner[k]][shellId[k]] = [kind |-> "shell", of |-> k]
                /\ resource'[owner[k]][shellId[k]] = [kind |-> "shell", of |-> k]
  <2> HIDE DEF r
  <2>1. QED
    BY <1>1, <1>2, <1>3, Added
<1>5. NoId \notin Ids
  BY CompositorAssumption DEF Ids, NoId
<1>6. /\ hooked' \in [Clients -> SUBSET Ids]
      /\ \A b \in Clients : \A j \in hooked[b] :
           ~ (b = c /\ j = shellId[n]) => j \in hooked'[b]
      /\ \A b \in Clients : \A j \in hooked'[b] :
           /\ ~ (b = c /\ j = shellId[n])
           /\ ~ (b = c /\ j = i) => j \in hooked[b] /\ j \in Ids
  BY <1>1, <1>2, <1>4 DEF TypeOK
<1>7. /\ shellId' \in [Surfaces -> Ids \cup {NoId}]
      /\ shellId'[n] = i
      /\ \A k \in Surfaces : k # n => shellId'[k] = shellId[k]
  BY <1>1, <1>2, <1>4 DEF TypeOK
<1>8. alive \subseteq Surfaces
  BY <1>1, OwnedIsNumbered
<1>9. TypeOK'
  <2>1. inverted' \in BOOLEAN
    BY <1>2
  <2> HIDE DEF r
  <2>2. QED
    BY <1>1, <1>2, <1>4, <1>6, <1>7, <2>1 DEF TypeOK
<1>10. ObjectsRooted'
  <2>1. ASSUME NEW k \in alive
        PROVE  Rooted(k)' /\ ShellRooted(k)' /\ InversionSeen(k)'
    <3>1. Rooted(k) /\ InversionSeen(k)
      BY <1>1 DEF ObjectsRooted
    <3>2. ~ (owner[k] = c /\ surfaceId[k] = shellId[n])
      <4>1. SUFFICES ASSUME owner[k] = c, surfaceId[k] = shellId[n] PROVE FALSE
        OBVIOUS
      <4>2. shellId[n] # NoId
        <5> HIDE DEF r
        <5>1. surfaceId[k] \in Ids
          BY <1>4
        <5>2. QED
          BY <1>5, <4>1, <5>1
      <4>3. resource[c][shellId[n]] = [kind |-> "shell", of |-> n]
        BY <1>1, <1>4, <4>2
      <4>4. resource[c][surfaceId[k]] = [kind |-> "surface", of |-> k]
        BY <3>1, <4>1 DEF Rooted
      <4>5. QED
        BY <4>1, <4>3, <4>4
    <3>3. Rooted(k)'
      BY <1>2, <1>4, <1>6, <3>1, <3>2 DEF Rooted
    <3>4. CASE k = n
      <4>1. ShellRooted(k)'
        BY <1>1, <1>2, <1>4, <1>7, <3>4 DEF ShellRooted
      <4>2. i < surfaceId[n] => inverted'
        BY <1>2
      <4>3. shellId'[k] = i /\ surfaceId'[k] = surfaceId[n]
        BY <1>2, <1>7, <3>4
      <4>4. InversionSeen(k)'
        BY <4>2, <4>3 DEF InversionSeen
      <4>5. QED
        BY <3>3, <4>1, <4>4
    <3>5. CASE k # n
      <4>1. shellId'[k] = shellId[k]
        BY <1>7, <1>8, <3>5
      <4>2. ShellRooted(k)'
        BY <1>2, <1>4, <4>1 DEF ShellRooted
      <4>3. InversionSeen(k)'
        BY <1>2, <3>1, <4>1 DEF InversionSeen
      <4>4. QED
        BY <3>3, <4>2, <4>3
    <3>6. QED
      BY <3>4, <3>5
  <2>2. \A k \in Surfaces \ alive : shellId'[k] = NoId
    BY <1>1, <1>7 DEF ObjectsRooted
  <2>3. QED
    BY <1>2, <2>1, <2>2 DEF ObjectsRooted
<1>11. HooksLead'
  <2>1. ASSUME NEW b \in Clients, NEW j \in hooked'[b] PROVE HookLeads(b, j)'
    <3>1. CASE b = c /\ j = i
      BY <1>1, <1>2, <1>4, <1>7, <3>1 DEF HookLeads
    <3>2. CASE ~ (b = c /\ j = i)
      <4>1. HookLeads(b, j) /\ resource'[b][j] = resource[b][j]
        BY <1>1, <1>4, <1>6, <3>2 DEF HooksLead
      <4>2. ASSUME resource[b][j].kind = "shell"
            PROVE  shellId'[resource[b][j].of] = j
        <5>1. resource[b][j].of # n
          BY <1>1, <1>6, <4>1, <4>2 DEF HookLeads
        <5>2. QED
          BY <1>7, <1>8, <4>1, <4>2, <5>1 DEF HookLeads
      <4>3. QED
        BY <1>2, <4>1, <4>2 DEF HookLeads
    <3>3. QED
      BY <3>1, <3>2
  <2>2. QED
    BY <2>1 DEF HooksLead
<1>12. ListSound'
  BY <1>1, <1>2 DEF ListSound, HasNull, Single, Entries
<1>13. BreaksOnlyByNulls'
  BY <1>2 DEF IInv, BreaksOnlyByNulls
<1>14. QED
  BY <1>9, <1>10, <1>11, <1>12, <1>13 DEF IInv, Sound

(* Only the client that is being disconnected may miss resources of what   *)
(* it owns: before that, everything is there.                              *)
LEMMA BeginDisconnectKeeps ==
  ASSUME IInv, NEW c \in Clients, BeginDisconnect(c)
  PROVE  IInv'
<1>1. /\ TypeOK /\ ObjectsRooted /\ HooksLead /\ ListSound /\ BreaksOnlyByNulls
      /\ dying = NoClient /\ dying' = c
      /\ UNCHANGED <<resource, hooked, objects, list, crashed, ghosts>>
  BY DEF BeginDisconnect, Running, IInv, Sound
<1>2. TypeOK'
  BY <1>1 DEF TypeOK, objects, ghosts
<1>3. ObjectsRooted'
  <2>1. ASSUME NEW n \in alive
        PROVE  Rooted(n)' /\ ShellRooted(n)' /\ InversionSeen(n)'
    <3>1. Rooted(n) /\ ShellRooted(n) /\ InversionSeen(n)
      BY <1>1 DEF ObjectsRooted
    <3>2. owner[n] # NoClient
      BY <3>1, CompositorAssumption DEF Rooted
    <3>3. QED
      BY <1>1, <3>1, <3>2 DEF Rooted, ShellRooted, InversionSeen, objects, ghosts
  <2>2. QED
    BY <1>1, <2>1 DEF ObjectsRooted, objects
<1>4. HooksLead'
  BY <1>1 DEF HooksLead, HookLeads, objects
<1>5. ListSound'
  BY <1>1 DEF ListSound, HasNull, Single, Entries, objects, ghosts
<1>6. BreaksOnlyByNulls'
  BY <1>1 DEF BreaksOnlyByNulls, ghosts
<1>7. QED
  BY <1>2, <1>3, <1>4, <1>5, <1>6 DEF IInv, Sound

(* A client without resources owns nothing: the next may be disconnected.  *)
LEMMA EndDisconnectKeeps ==
  ASSUME IInv, EndDisconnect
  PROVE  IInv'
<1>1. /\ TypeOK /\ ObjectsRooted /\ HooksLead /\ ListSound /\ BreaksOnlyByNulls
      /\ dying \in Clients /\ dying' = NoClient /\ LiveIds(dying) = {}
      /\ hooked' = [hooked EXCEPT ![dying] = {}]
      /\ UNCHANGED <<resource, objects, list, crashed, ghosts>>
  BY DEF EndDisconnect, IInv, Sound, TypeOK
<1>2. /\ hooked' \in [Clients -> SUBSET Ids]
      /\ \A b \in Clients : b # dying => hooked'[b] = hooked[b]
      /\ hooked'[dying] = {}
  BY <1>1 DEF TypeOK
<1>3. TypeOK'
  BY <1>1, <1>2 DEF TypeOK, objects, ghosts
<1>4. ASSUME NEW n \in alive PROVE owner[n] # dying
  <2>1. SUFFICES ASSUME owner[n] = dying PROVE FALSE
    OBVIOUS
  <2>2. /\ surfaceId[n] \in hooked[dying]
        /\ resource[dying][surfaceId[n]] = [kind |-> "surface", of |-> n]
    BY <1>1, <2>1 DEF ObjectsRooted, Rooted
  <2>3. surfaceId[n] \in Ids
    BY <1>1, <2>2 DEF TypeOK
  <2>4. surfaceId[n] \in LiveIds(dying)
    BY <2>2, <2>3 DEF LiveIds, NoResource
  <2>5. QED
    BY <1>1, <2>4
<1>5. ObjectsRooted'
  <2>1. ASSUME NEW n \in alive
        PROVE  Rooted(n)' /\ ShellRooted(n)' /\ InversionSeen(n)'
    <3>1. Rooted(n) /\ ShellRooted(n) /\ InversionSeen(n) /\ owner[n] # dying
      BY <1>1, <1>4 DEF ObjectsRooted
    <3>2. QED
      BY <1>1, <1>2, <3>1 DEF Rooted, ShellRooted, InversionSeen, objects, ghosts
  <2>2. QED
    BY <1>1, <2>1 DEF ObjectsRooted, objects
<1>6. HooksLead'
  <2>1. ASSUME NEW b \in Clients, NEW j \in hooked'[b] PROVE HookLeads(b, j)'
    <3>1. j \in hooked[b]
      BY <1>2
    <3>2. HookLeads(b, j)
      BY <1>1, <3>1 DEF HooksLead
    <3>3. QED
      BY <1>1, <3>2 DEF HookLeads, objects
  <2>2. QED
    BY <2>1 DEF HooksLead
<1>7. ListSound'
  BY <1>1 DEF ListSound, HasNull, Single, Entries, objects, ghosts
<1>8. BreaksOnlyByNulls'
  BY <1>1 DEF BreaksOnlyByNulls, ghosts
<1>9. QED
  BY <1>3, <1>5, <1>6, <1>7, <1>8 DEF IInv, Sound

(* A repaint meets a null entry only where somebody was overtaken.         *)
LEMMA RepaintKeeps ==
  ASSUME IInv, Repaint
  PROVE  IInv'
<1>1. /\ TypeOK /\ Sound /\ BreaksOnlyByNulls
      /\ crashed' = HasNull(list)
      /\ UNCHANGED <<resource, hooked, objects, list, dying, ghosts>>
  BY DEF Repaint, Running, IInv, HasNull
<1>2. HasNull(list) \in BOOLEAN
  BY DEF HasNull
<1>3. TypeOK'
  BY <1>1, <1>2 DEF TypeOK, objects, ghosts
<1>4. ObjectsRooted'
  BY <1>1 DEF Sound, ObjectsRooted, Rooted, ShellRooted, InversionSeen, objects, ghosts
<1>5. HooksLead'
  BY <1>1 DEF Sound, HooksLead, HookLeads, objects
<1>6. ListSound'
  BY <1>1 DEF Sound, ListSound, HasNull, Single, Entries, objects, ghosts
<1>7. overtaken <=> HasNull(list)
  BY <1>1 DEF Sound, ListSound
<1>8. BreaksOnlyByNulls'
  BY <1>1, <1>7 DEF BreaksOnlyByNulls, ghosts
<1>9. QED
  BY <1>3, <1>4, <1>5, <1>6, <1>8 DEF IInv, Sound

(* A disconnection in which a list without nulls is compacted: what goes   *)
(* is the leaving client's, and a null stays behind where it overtook.     *)
LEMMA ClientDisconnectsKeeps ==
  ASSUME IInv, ClientDisconnects
  PROVE  IInv'
<1>1. /\ TypeOK /\ ObjectsRooted /\ HooksLead /\ ListSound /\ BreaksOnlyByNulls
      /\ ~ crashed
      /\ dying \in Clients /\ dying # NoClient /\ LiveIds(dying) # {}
      /\ resource[dying][Doomed].kind = "compositor"
      /\ FreeDoomed /\ UNCHANGED <<created, dying, inverted>>
  BY DEF ClientDisconnects, DoomedIs, IInv, Sound, TypeOK
<1>2. CASE HasNull(list)
  <2>1. /\ crashed' = TRUE
        /\ UNCHANGED <<hooked, objects, list, touchedFreed, overtaken>>
    BY <1>2 DEF ClientDisconnects, HasNull
  <2>2. overtaken
    BY <1>1, <1>2 DEF ListSound
  <2>3. BreaksOnlyByNulls'
    BY <2>1, <2>2 DEF BreaksOnlyByNulls
  <2>4. Doomed \in Ids
    BY <1>1, DoomedIsLeast DEF LiveIds
  <2>5. NoResource \in [kind : Kinds, of : Surfaces \cup {Null}]
    BY DEF NoResource, Kinds
  <2>6. resource' \in [Clients -> [Ids -> [kind : Kinds, of : Surfaces \cup {Null}]]]
    BY <1>1, <2>4, <2>5 DEF FreeDoomed, TypeOK
  <2>7. TypeOK'
    BY <1>1, <2>1, <2>6 DEF TypeOK, objects
  <2>8. QED
    BY <2>1, <2>3, <2>7 DEF IInv
<1>3. CASE ~ HasNull(list)
  <2> DEFINE M == OwnedBy(dying)
             left == Compacted(list, M)
             gone == Entries(list) \ Entries(left)
  <2>1. /\ list' = left
        /\ DeleteSurfaces(gone)
        /\ overtaken' = (overtaken \/ Overtakes(dying))
    BY <1>3 DEF ClientDisconnects, HasNull
  <2>2. list \in Seq(Slots) /\ Single(list) /\ Entries(list) = alive
    BY <1>1 DEF TypeOK, Slots, ListSound
  <2>3. Null \notin M /\ M \subseteq alive
    BY <1>1, OwnedIsNumbered DEF OwnedBy
  <2>4. /\ left \in Seq(Slots)
        /\ Entries(left) \subseteq Entries(list)
        /\ Entries(list) \ M \subseteq Entries(left)
        /\ Single(left)
        /\ HasNull(left) <=> MatchBefore(list, M)
    <3> HIDE DEF M
    <3>1. QED
      BY <1>3, <2>2, <2>3, CompactedEntries
  <2>5. gone \in SUBSET M
    BY <2>2, <2>4
  <2> HIDE DEF left
  <2>6. /\ alive' = alive \ gone
        /\ owner' \in [Surfaces -> Clients \cup {NoClient}]
        /\ surfaceId' \in [Surfaces -> Ids \cup {NoId}]
        /\ shellId' \in [Surfaces -> Ids \cup {NoId}]
        /\ \A n \in alive' : /\ owner'[n] = owner[n]
                             /\ surfaceId'[n] = surfaceId[n]
                             /\ shellId'[n] = shellId[n]
        /\ \A n \in Surfaces \ alive' : shellId'[n] = NoId
        /\ hooked' \in [Clients -> SUBSET Ids]
        /\ \A c \in Clients \ {dying} : hooked'[c] = hooked[c]
        /\ \A i : i \in hooked'[dying] <=>
                    /\ i \in hooked[dying]
                    /\ \A n \in gone : i # surfaceId[n] /\ i # shellId[n]
        /\ crashed' \in BOOLEAN /\ touchedFreed' \in BOOLEAN
        /\ touchedFreed' => touchedFreed \/ inverted
        /\ touchedFreed => touchedFreed'
        /\ crashed' => touchedFreed'
    <3> HIDE DEF gone
    <3>1. QED
      BY <1>1, <2>1, <2>5, Deleted
  <2>7. ASSUME NEW n \in M \ gone PROVE surfaceId[n] # Doomed
    <3>1. n \in alive /\ owner[n] = dying
      BY DEF OwnedBy
    <3>2. resource[dying][surfaceId[n]] = [kind |-> "surface", of |-> n]
      BY <1>1, <3>1 DEF ObjectsRooted, Rooted
    <3>3. QED
      BY <1>1, <3>2
  <2>8. /\ resource' \in [Clients -> [Ids -> [kind : Kinds, of : Surfaces \cup {Null}]]]
        /\ ObjectsRooted' /\ HooksLead'
    <3> HIDE DEF gone
    <3>1. QED
      BY <1>1, <2>5, <2>6, <2>7, Freed
  <2>9. Entries(list') = alive'
    BY <2>1, <2>2, <2>4, <2>6
  <2>10. Overtakes(dying) <=> MatchBefore(list, M)
    BY DEF Overtakes, MatchBefore
  <2>11. ~ overtaken
    BY <1>1, <1>3 DEF ListSound
  <2>12. overtaken' <=> HasNull(list')
    BY <2>1, <2>4, <2>10, <2>11
  <2>13. overtaken' \in BOOLEAN
    BY <2>1
  <2>14. ListSound'
    <3>1. Single(list')
      BY <2>1, <2>4
    <3>2. QED
      BY <2>9, <2>12, <3>1 DEF ListSound
  <2>15. TypeOK'
    <3>1. list' \in Seq(Surfaces \cup {Null})
      BY <2>1, <2>4 DEF Slots
    <3>2. alive' \subseteq 1 .. created'
      BY <1>1, <2>6 DEF TypeOK
    <3> HIDE DEF gone
    <3>3. QED
      BY <1>1, <2>6, <2>8, <2>13, <3>1, <3>2 DEF TypeOK
  <2>16. BreaksOnlyByNulls'
    <3>1. crashed' \/ touchedFreed' => overtaken' \/ inverted'
      BY <1>1, <2>6, <2>11 DEF BreaksOnlyByNulls
    <3>2. QED
      BY <2>6, <3>1 DEF BreaksOnlyByNulls
  <2>17. QED
    BY <2>8, <2>14, <2>15, <2>16 DEF IInv, Sound
<1>4. QED
  BY <1>2, <1>3

(* A surface whose hook runs is the one whose resource goes, and the list  *)
(* loses that one; a surface whose hook was taken off is gone already.     *)
LEMMA SurfaceDestroyedKeeps ==
  ASSUME IInv, SurfaceDestroyed
  PROVE  IInv'
<1>1. /\ TypeOK /\ ObjectsRooted /\ HooksLead /\ ListSound /\ BreaksOnlyByNulls
      /\ ~ crashed
      /\ dying \in Clients /\ LiveIds(dying) # {}
      /\ resource[dying][Doomed].kind = "surface"
      /\ FreeDoomed /\ UNCHANGED <<created, dying, overtaken, inverted>>
  BY DEF SurfaceDestroyed, DoomedIs, IInv, Sound, TypeOK
<1>2. CASE Doomed \in hooked[dying]
  <2>1. PICK m : m = resource[dying][Doomed].of
    OBVIOUS
  <2> DEFINE left == Erased(list, m)
             gone == Entries(list) \ Entries(left)
  <2>2. /\ list' = left
        /\ DeleteSurfaces(gone)
    BY <1>2, <2>1 DEF SurfaceDestroyed
  <2>3. m \in alive /\ owner[m] = dying /\ surfaceId[m] = Doomed
    BY <1>1, <1>2, <2>1 DEF HooksLead, HookLeads
  <2>4. list \in Seq(Slots) /\ Single(list) /\ Entries(list) = alive
    BY <1>1 DEF TypeOK, Slots, ListSound
  <2>5. m \in Surfaces
    BY <1>1, <2>3, OwnedIsNumbered
  <2>6. /\ left \in Seq(Slots)
        /\ Entries(left) = Entries(list) \ {m}
        /\ Single(left)
        /\ HasNull(left) <=> HasNull(list)
    BY <2>4, <2>5, ErasedEntries
  <2>7. gone = {m} /\ gone \in SUBSET OwnedBy(dying)
    BY <2>3, <2>4, <2>6 DEF OwnedBy
  <2> HIDE DEF left
  <2>8. /\ alive' = alive \ gone
        /\ owner' \in [Surfaces -> Clients \cup {NoClient}]
        /\ surfaceId' \in [Surfaces -> Ids \cup {NoId}]
        /\ shellId' \in [Surfaces -> Ids \cup {NoId}]
        /\ \A n \in alive' : /\ owner'[n] = owner[n]
                             /\ surfaceId'[n] = surfaceId[n]
                             /\ shellId'[n] = shellId[n]
        /\ \A n \in Surfaces \ alive' : shellId'[n] = NoId
        /\ hooked' \in [Clients -> SUBSET Ids]
        /\ \A c \in Clients \ {dying} : hooked'[c] = hooked[c]
        /\ \A i : i \in hooked'[dying] <=>
                    /\ i \in hooked[dying]
                    /\ \A n \in gone : i # surfaceId[n] /\ i # shellId[n]
        /\ crashed' \in BOOLEAN /\ touchedFreed' \in BOOLEAN
        /\ touchedFreed' => touchedFreed \/ inverted
        /\ touchedFreed => touchedFreed'
        /\ crashed' => touchedFreed'
    <3> HIDE DEF gone
    <3>1. QED
      BY <1>1, <2>2, <2>7, Deleted
  <2>9. ASSUME NEW n \in OwnedBy(dying) \ gone PROVE surfaceId[n] # Doomed
    <3>1. n \in alive /\ owner[n] = dying /\ n # m
      BY <2>7 DEF OwnedBy
    <3>2. resource[dying][surfaceId[n]] = [kind |-> "surface", of |-> n]
      BY <1>1, <3>1 DEF ObjectsRooted, Rooted
    <3>3. QED
      BY <2>1, <3>1, <3>2
  <2>10. /\ resource' \in [Clients -> [Ids -> [kind : Kinds, of : Surfaces \cup {Null}]]]
         /\ ObjectsRooted' /\ HooksLead'
    <3> HIDE DEF gone
    <3>1. QED
      BY <1>1, <2>7, <2>8, <2>9, Freed
  <2>11. ListSound'
    <3>1. Entries(list') = alive' /\ Single(list')
      BY <2>2, <2>4, <2>6, <2>7, <2>8
    <3>2. overtaken' <=> HasNull(list')
      BY <1>1, <2>2, <2>6 DEF ListSound
    <3>3. QED
      BY <3>1, <3>2 DEF ListSound
  <2>12. TypeOK'
    <3>1. list' \in Seq(Surfaces \cup {Null})
      BY <2>2, <2>6 DEF Slots
    <3>2. alive' \subseteq 1 .. created'
      BY <1>1, <2>8 DEF TypeOK
    <3> HIDE DEF gone
    <3>3. QED
      BY <1>1, <2>8, <2>10, <3>1, <3>2 DEF TypeOK
  <2>13. BreaksOnlyByNulls'
    <3>1. crashed' \/ touchedFreed' => overtaken' \/ inverted'
      BY <1>1, <2>8 DEF BreaksOnlyByNulls
    <3>2. QED
      BY <2>8, <3>1 DEF BreaksOnlyByNulls
  <2>14. QED
    BY <2>10, <2>11, <2>12, <2>13 DEF IInv, Sound
<1>3. CASE Doomed \notin hooked[dying]
  <2>1. UNCHANGED <<hooked, objects, list, touchedFreed, crashed>>
    BY <1>3 DEF SurfaceDestroyed
  <2>2. ASSUME NEW n \in OwnedBy(dying) PROVE surfaceId[n] # Doomed
    BY <1>1, <1>3 DEF ObjectsRooted, Rooted, OwnedBy
  <2>3. /\ resource' \in [Clients -> [Ids -> [kind : Kinds, of : Surfaces \cup {Null}]]]
        /\ ObjectsRooted' /\ HooksLead'
    BY <1>1, <2>1, <2>2, FreedAlone
  <2>4. ListSound'
    BY <1>1, <2>1 DEF ListSound, HasNull, Single, Entries, objects
  <2>5. TypeOK'
    BY <1>1, <2>1, <2>3 DEF TypeOK, objects
  <2>6. BreaksOnlyByNulls'
    BY <1>1, <2>1 DEF BreaksOnlyByNulls
  <2>7. QED
    BY <2>3, <2>4, <2>5, <2>6 DEF IInv, Sound
<1>4. QED
  BY <1>2, <1>3

(* The resource of a shell surface goes alone.                             *)
LEMMA ShellDestroyedKeeps ==
  ASSUME IInv, ShellDestroyed
  PROVE  IInv'
<1>1. /\ TypeOK /\ ObjectsRooted /\ HooksLead /\ ListSound /\ BreaksOnlyByNulls
      /\ ~ crashed
      /\ dying \in Clients /\ LiveIds(dying) # {}
      /\ resource[dying][Doomed].kind = "shell"
      /\ FreeDoomed
      /\ UNCHANGED <<hooked, objects, list, dying, crashed, ghosts>>
  BY DEF ShellDestroyed, DoomedIs, IInv, Sound, TypeOK
<1>2. ASSUME NEW n \in OwnedBy(dying) PROVE surfaceId[n] # Doomed
  <2>1. n \in alive /\ owner[n] = dying
    BY DEF OwnedBy
  <2>2. resource[dying][surfaceId[n]] = [kind |-> "surface", of |-> n]
    BY <1>1, <2>1 DEF ObjectsRooted, Rooted
  <2>3. QED
    BY <1>1, <2>2
<1>3. /\ resource' \in [Clients -> [Ids -> [kind : Kinds, of : Surfaces \cup {Null}]]]
      /\ ObjectsRooted' /\ HooksLead'
  BY <1>1, <1>2, FreedAlone DEF ghosts
<1>4. ListSound'
  BY <1>1 DEF ListSound, HasNull, Single, Entries, objects, ghosts
<1>5. TypeOK'
  BY <1>1, <1>3 DEF TypeOK, objects, ghosts
<1>6. BreaksOnlyByNulls'
  BY <1>1 DEF BreaksOnlyByNulls, ghosts
<1>7. QED
  BY <1>3, <1>4, <1>5, <1>6 DEF IInv, Sound

(* Every step keeps the invariant.                                         *)
LEMMA NextIInv == IInv /\ [Next]_vars => IInv'
<1> SUFFICES ASSUME IInv, [Next]_vars PROVE IInv'
  OBVIOUS
<1>1. CASE \E c \in Clients, i \in Ids : Bind(c, i)
  BY <1>1, BindKeeps
<1>2. CASE \E c \in Clients, i \in Ids : CreateSurface(c, i)
  BY <1>2, CreateSurfaceKeeps
<1>3. CASE \E c \in Clients, n \in Surfaces, i \in Ids : GetShellSurface(c, n, i)
  BY <1>3, GetShellSurfaceKeeps
<1>4. CASE \E c \in Clients : BeginDisconnect(c)
  BY <1>4, BeginDisconnectKeeps
<1>5. CASE ClientDisconnects
  BY <1>5, ClientDisconnectsKeeps
<1>6. CASE SurfaceDestroyed
  BY <1>6, SurfaceDestroyedKeeps
<1>7. CASE ShellDestroyed
  BY <1>7, ShellDestroyedKeeps
<1>8. CASE EndDisconnect
  BY <1>8, EndDisconnectKeeps
<1>9. CASE Repaint
  BY <1>9, RepaintKeeps
<1>10. CASE UNCHANGED vars
  <2>1. TypeOK' /\ BreaksOnlyByNulls'
    BY <1>10 DEF IInv, vars, objects, ghosts, TypeOK, BreaksOnlyByNulls
  <2>2. ObjectsRooted => ObjectsRooted'
    BY <1>10 DEF vars, objects, ghosts, ObjectsRooted, Rooted, ShellRooted, InversionSeen
  <2>3. HooksLead => HooksLead'
    BY <1>10 DEF vars, objects, ghosts, HooksLead, HookLeads
  <2>4. ListSound => ListSound'
    BY <1>10 DEF vars, objects, ghosts, ListSound, HasNull, Single, Entries
  <2>5. crashed' = crashed
    BY <1>10 DEF vars
  <2>6. QED
    BY <2>1, <2>2, <2>3, <2>4, <2>5 DEF IInv, Sound
<1>11. CASE \E c \in Clients, i \in Ids : ShellSurfaceRequest(c, i)
  <2>1. UNCHANGED vars
    BY <1>11 DEF ShellSurfaceRequest
  <2>2. QED
    BY <1>10, <2>1
<1>12. QED
  BY <1>1, <1>2, <1>3, <1>4, <1>5, <1>6, <1>7, <1>8, <1>9, <1>10, <1>11
     DEF Next, Disconnecting

-----------------------------------------------------------------------------
(* What follows for every behaviour *)

(* In every state of every behaviour the invariant holds: resources,       *)
(* objects, hooks and the list agree, in the middle of a disconnection     *)
(* too, until the process ends.                                            *)
THEOREM CompositorInvariant == Spec => []IInv
<1>1. Init => IInv
  BY InitIInv
<1>2. IInv /\ [Next]_vars => IInv'
  BY NextIInv
<1>3. QED
  BY <1>1, <1>2, PTL DEF Spec

(* hookDestroy never runs on a deleted Surface or ShellSurface, in         *)
(* whatever order the resources of a client go.                            *)
THEOREM CompositorHooks == Spec => []HookedObjectsExist
<1>1. IInv => HookedObjectsExist
  BY DEF IInv, Sound, HooksLead, HookLeads, HookedObjectsExist
<1>2. QED
  BY <1>1, CompositorInvariant, PTL

(* mSurfacesList owns every surface that exists exactly once.              *)
THEOREM CompositorOwnership == Spec => []ListOwnsSurfaces
<1>1. IInv => ListOwnsSurfaces
  BY DEF IInv, Sound, ListSound, Single, ListOwnsSurfaces
<1>2. QED
  BY <1>1, CompositorInvariant, PTL

(* The list has a null entry exactly when a leaving client was stacked     *)
(* below a surface of another.                                             *)
THEOREM CompositorNulls == Spec => []NullsByOvertaking
<1>1. IInv => NullsByOvertaking
  BY DEF IInv, Sound, ListSound, HasNull, Running, NullsByOvertaking
<1>2. QED
  BY <1>1, CompositorInvariant, PTL

(* Without a null entry, and without a shell surface whose id is below its *)
(* surface's, the process neither crashes nor writes to a freed resource.  *)
THEOREM CompositorBreakdowns == Spec => []BreaksOnlyByNulls
<1>1. IInv => BreaksOnlyByNulls
  BY DEF IInv
<1>2. QED
  BY <1>1, CompositorInvariant, PTL

-----------------------------------------------------------------------------
(* The list implements the stack of module SurfaceStack *)

\* Entries with their clients
Tagged(present, of) ==
  [p \in DOMAIN present |-> [surface |-> present[p], client |-> of[present[p]]]]

(* What is kept twice is kept of both.                                     *)
LEMMA UnmatchedTwice ==
  ASSUME NEW s \in Seq(Slots), NEW A, NEW B
  PROVE  Unmatched(Unmatched(s, A), B) = Unmatched(s, A \cup B)
<1> DEFINE K == KeptAt(s, A)
           u == Unmatched(s, A)
           L == KeptAt(u, B)
           M == {Place(K, i) : i \in L}
<1>1. /\ u \in Seq(Slots) /\ DOMAIN u = 1 .. Len(u)
      /\ Len(u) = Cardinality(K)
      /\ \A i \in DOMAIN u : Place(K, i) \in K /\ u[i] = s[Place(K, i)]
  BY UnmatchedEntries
<1>2. u = Selected(s, K) /\ Unmatched(u, B) = Selected(u, L)
  BY DEF Unmatched, KeptAt
<1>3. K \in SUBSET (DOMAIN s) /\ L \in SUBSET (1 .. Cardinality(K))
  BY <1>1 DEF KeptAt
<1>4. K \in SUBSET Nat /\ IsFiniteSet(K)
  BY <1>3, PositionsAreFinite
<1>5. \A p \in K : \E i \in 1 .. Cardinality(K) : Place(K, i) = p
  BY <1>4, RankGrows, PlaceOfRank
<1>6. \A p : p \in K <=> p \in DOMAIN s /\ s[p] \notin A
  BY DEF KeptAt
<1>7. \A i : i \in L <=> i \in DOMAIN u /\ u[i] \notin B
  BY DEF KeptAt
<1> HIDE DEF K, u, L
<1>8. M = KeptAt(s, A \cup B)
  <2>1. ASSUME NEW p \in M PROVE p \in KeptAt(s, A \cup B)
    <3>1. PICK i \in L : p = Place(K, i)
      OBVIOUS
    <3>2. i \in DOMAIN u /\ u[i] \notin B /\ p \in K /\ u[i] = s[p]
      BY <1>1, <1>7, <3>1
    <3>3. QED
      BY <1>6, <3>2 DEF KeptAt
  <2>2. ASSUME NEW p \in KeptAt(s, A \cup B) PROVE p \in M
    <3>1. p \in K /\ s[p] \notin B
      BY <1>6 DEF KeptAt
    <3>2. PICK i \in 1 .. Cardinality(K) : Place(K, i) = p
      BY <1>5, <3>1
    <3>3. i \in L
      BY <1>1, <1>7, <3>1, <3>2
    <3>4. QED
      BY <3>2, <3>3
  <2>3. QED
    BY <2>1, <2>2
<1>9. Selected(Selected(s, K), L) = Selected(s, M)
  BY <1>3, SelectedTwice
<1>10. Unmatched(s, A \cup B) = Selected(s, KeptAt(s, A \cup B))
  BY DEF Unmatched, KeptAt
<1>11. QED
  BY <1>2, <1>8, <1>9, <1>10 DEF u

(* What the list shows of whom: surfaces that exist.                       *)
LEMMA PresentExist ==
  ASSUME TypeOK, ListSound, NEW X, Null \in X
  PROVE  LET u == Unmatched(list, X)
         IN  /\ u \in Seq(Slots)
             /\ DOMAIN u = 1 .. Len(u) /\ Len(u) \in Nat
             /\ \A p \in DOMAIN u : u[p] \in alive /\ u[p] \notin X
<1> DEFINE u == Unmatched(list, X)
           K == KeptAt(list, X)
<1>1. list \in Seq(Slots)
  BY DEF TypeOK, Slots
<1>2. /\ u \in Seq(Slots) /\ DOMAIN u = 1 .. Len(u)
      /\ \A p \in DOMAIN u : Place(K, p) \in K /\ u[p] = list[Place(K, p)]
  BY <1>1, UnmatchedEntries
<1>3. \A p \in K : p \in DOMAIN list /\ list[p] \notin X
  BY DEF KeptAt
<1>4. \A p \in DOMAIN list : list[p] # Null => list[p] \in alive
  BY DEF ListSound, Entries
<1>5. Len(u) \in Nat
  BY <1>2, LenProperties
<1>6. QED
  BY <1>2, <1>3, <1>4, <1>5

(* A selection of entries with their clients is a selection with theirs.   *)
LEMMA TaggedSelected ==
  ASSUME NEW u \in Seq(Slots), NEW K \in SUBSET (DOMAIN u), NEW of
  PROVE  Selected(Tagged(u, of), K) = Tagged(Selected(u, K), of)
<1> DEFINE v == Selected(u, K)
<1>1. /\ DOMAIN v = 1 .. Cardinality(K)
      /\ \A i \in 1 .. Cardinality(K) : Place(K, i) \in K /\ v[i] = u[Place(K, i)]
  BY SelectedIsSeq
<1>2. \A i \in 1 .. Cardinality(K) :
        Tagged(u, of)[Place(K, i)] = [surface |-> v[i], client |-> of[v[i]]]
  BY <1>1 DEF Tagged
<1>3. Selected(Tagged(u, of), K)
        = [i \in 1 .. Cardinality(K) |-> [surface |-> v[i], client |-> of[v[i]]]]
  BY <1>2 DEF Selected
<1>4. QED
  BY <1>1, <1>3 DEF Tagged

(* Both modules select alike.                                              *)
LEMMA StackSelects ==
  ASSUME NEW t, NEW K
  PROVE  Stack!Selected(t, K) = Selected(t, K)
<1>1. ASSUME NEW S PROVE Stack!Cardinality(S) = Cardinality(S)
  BY DEF Stack!Cardinality, Cardinality
<1>2. \A i : Stack!Place(K, i) = Place(K, i)
  BY <1>1 DEF Stack!Place, Place
<1>3. QED
  BY <1>1, <1>2 DEF Stack!Selected, Selected

(* Nothing mends what is broken.                                           *)
LEMMA StaysBroken ==
  ASSUME [Next]_vars, Broken
  PROVE  Broken'
<1>1. CASE UNCHANGED vars
  BY <1>1 DEF vars, ghosts, Broken
<1>2. CASE Next
  <2>1. ASSUME NEW c \in Clients, NEW i \in Ids,
               Bind(c, i) \/ CreateSurface(c, i) \/ ShellSurfaceRequest(c, i)
        PROVE  Broken'
    BY <2>1 DEF Bind, CreateSurface, ShellSurfaceRequest, Running, vars, ghosts, Broken
  <2>2. ASSUME NEW c \in Clients, NEW n \in Surfaces, NEW i \in Ids,
               GetShellSurface(c, n, i)
        PROVE  Broken'
    BY <2>2 DEF GetShellSurface, Running, Broken
  <2>3. ASSUME NEW c \in Clients, BeginDisconnect(c) PROVE Broken'
    BY <2>3 DEF BeginDisconnect, Running, ghosts, Broken
  <2>4. ASSUME NEW gone, DeleteSurfaces(gone), ~ crashed PROVE Broken'
    <3>1. touchedFreed
      BY <2>4 DEF Broken
    <3>2. touchedFreed'
      BY <2>4, <3>1 DEF DeleteSurfaces, Unhook
    <3>3. QED
      BY <3>2 DEF Broken
  <2>5. CASE ClientDisconnects
    BY <2>4, <2>5 DEF ClientDisconnects, DoomedIs, Broken
  <2>6. CASE SurfaceDestroyed
    BY <2>4, <2>6 DEF SurfaceDestroyed, DoomedIs, Broken
  <2>7. CASE ShellDestroyed \/ EndDisconnect \/ Repaint
    BY <2>7 DEF ShellDestroyed, DoomedIs, EndDisconnect, Repaint, Running, ghosts, Broken
  <2>8. QED
    BY <1>2, <2>1, <2>2, <2>3, <2>5, <2>6, <2>7 DEF Next, Disconnecting
<1>3. QED
  BY <1>1, <1>2

\* The variables of SurfaceStack
StackNow == IF Broken THEN <<>> ELSE Stacked

(* What the list shows.                                                    *)
LEMMA StackedIs ==
  Stacked = Tagged(Unmatched(list, {Null} \cup OwnedBy(dying)), owner)
BY DEF Stacked, Tagged

(* Entries whose clients are the same show the same.                       *)
LEMMA TaggedAlike ==
  ASSUME NEW u, NEW of, NEW ofNext, \A p \in DOMAIN u : of[u[p]] = ofNext[u[p]]
  PROVE  Tagged(u, of) = Tagged(u, ofNext)
BY DEF Tagged

(* Creating a surface puts it on the stack.                                *)
LEMMA CreateStacks ==
  ASSUME IInv, IInv', ~ Broken, ~ Broken',
         NEW c \in Clients, NEW i \in Ids, CreateSurface(c, i)
  PROVE  \E n \in Surfaces : Stack!Create(c, n)
<1>1. /\ TypeOK /\ ObjectsRooted /\ ListSound /\ Running
      /\ created < MaxSurfaces
  BY DEF CreateSurface, Running, IInv, Sound
<1>2. PICK m : m = created + 1
  OBVIOUS
<1>3. /\ alive' = alive \cup {m} /\ owner' = [owner EXCEPT ![m] = c]
      /\ list' = Append(list, m) /\ dying' = NoClient /\ dying = NoClient
      /\ ~ crashed /\ ~ crashed'
  BY <1>2 DEF CreateSurface, Running
<1>4. /\ created \in Nat /\ MaxSurfaces \in Nat
      /\ alive \subseteq 1 .. created /\ alive \subseteq Surfaces
      /\ list \in Seq(Slots) /\ owner \in [Surfaces -> Clients \cup {NoClient}]
  BY <1>1, CompositorAssumption, OwnedIsNumbered DEF TypeOK, Slots
<1>5. m \in Surfaces /\ m # Null /\ m \in Slots /\ \A n \in alive : n < m
  BY <1>1, <1>2, <1>4 DEF Surfaces, Null, Slots
<1>6. OwnedBy(dying) = {} /\ OwnedBy(dying)' = {}
  <2>1. TypeOK' /\ ObjectsRooted'
    BY <1>3 DEF IInv, Sound
  <2>2. ASSUME NEW n \in OwnedBy(NoClient)' PROVE FALSE
    <3>1. n \in alive' /\ owner'[n] = NoClient
      BY DEF OwnedBy
    <3>2. owner'[n] \in Clients
      BY <2>1, <3>1 DEF ObjectsRooted, Rooted
    <3>3. QED
      BY <3>1, <3>2, CompositorAssumption
  <2>3. OwnedBy(dying)' = OwnedBy(NoClient)'
    BY <1>3 DEF OwnedBy
  <2>4. QED
    BY <1>1, <1>3, <2>2, <2>3, OwnedIsNumbered
<1> DEFINE X == {Null}
           u == Unmatched(list, X)
           K == KeptAt(list, X)
           l == Len(list) + 1
<1>7. Stacked = Tagged(u, owner) /\ Stacked' = Tagged(Unmatched(list', X), owner')
  <2>1. {Null} \cup OwnedBy(dying) = X /\ ({Null} \cup OwnedBy(dying))' = X
    BY <1>6
  <2>2. QED
    BY <2>1 DEF Stacked, Tagged
<1>8. /\ u \in Seq(Slots) /\ DOMAIN u = 1 .. Len(u) /\ Len(u) \in Nat
      /\ \A p \in DOMAIN u : u[p] \in alive
  <2> HIDE DEF u
  <2>1. Null \in X
    OBVIOUS
  <2> HIDE DEF X
  <2>2. QED
    BY <1>1, <2>1, PresentExist DEF u
<1>9. Unmatched(list', X) = Append(u, m)
  <2>1. /\ DOMAIN list = 1 .. Len(list) /\ Len(list) \in Nat
        /\ DOMAIN list' = 1 .. l /\ list'[l] = m
        /\ \A p \in 1 .. Len(list) : list'[p] = list[p]
    BY <1>3, <1>4, <1>5, AppendProperties
  <2>2. \A p : p \in DOMAIN list' <=> p \in DOMAIN list \/ p = l
    BY <2>1
  <2>3. {p \in DOMAIN list' : list'[p] \notin X} = K \cup {l}
    BY <1>5, <2>1, <2>2 DEF KeptAt
  <2>4. K \in SUBSET (DOMAIN list)
    BY DEF KeptAt
  <2>5. Unmatched(list', X) = Selected(Append(list, m), K \cup {l})
    BY <1>3, <2>3 DEF Unmatched
  <2>6. u = Selected(list, K)
    BY DEF Unmatched, KeptAt
  <2> HIDE DEF K, u, X
  <2>7. QED
    BY <1>4, <1>5, <2>4, <2>5, <2>6, SelectedAppend
<1>10. /\ owner'[m] = c
       /\ \A p \in DOMAIN u : owner'[u[p]] = owner[u[p]] /\ u[p] < m
  <2>1. owner'[m] = c
    BY <1>3, <1>4, <1>5
  <2>2. ASSUME NEW n \in alive PROVE owner'[n] = owner[n] /\ n < m
    <3>1. n < m /\ n \in Nat /\ m \in Nat /\ n \in Surfaces
      BY <1>2, <1>4, <1>5
    <3>2. n # m
      BY <3>1
    <3>3. QED
      BY <1>3, <1>4, <3>1, <3>2
  <2> HIDE DEF u
  <2>3. QED
    BY <1>8, <2>1, <2>2
<1>11. Tagged(Append(u, m), owner')
         = Append(Tagged(u, owner), [surface |-> m, client |-> c])
  <2> HIDE DEF u
  <2> DEFINE R == [surface : Slots, client : {owner'[x] : x \in Slots}]
             t == Tagged(u, owner)
             e == [surface |-> m, client |-> c]
             w == Tagged(Append(u, m), owner')
             k == Len(u)
  <2>1. /\ Append(u, m) \in Seq(Slots) /\ Len(Append(u, m)) = k + 1
        /\ DOMAIN Append(u, m) = 1 .. k + 1
        /\ Append(u, m)[k + 1] = m
        /\ \A p \in 1 .. k : Append(u, m)[p] = u[p]
    BY <1>5, <1>8, AppendProperties
  <2>2. \A p \in 1 .. k : u[p] \in Slots
    BY <1>8, ElementOfSeq
  <2>3. /\ t = [p \in 1 .. k |-> [surface |-> u[p], client |-> owner'[u[p]]]]
    BY <1>8, <1>10 DEF Tagged
  <2>4. t \in Seq(R) /\ Len(t) = k
    <3>1. \A p \in 1 .. k : [surface |-> u[p], client |-> owner'[u[p]]] \in R
      BY <2>2
    <3> HIDE DEF R, t
    <3>2. QED
      BY <1>8, <2>3, <3>1
  <2>5. e \in R
    BY <1>5, <1>10
  <2>6. /\ w = [p \in 1 .. k + 1 |->
                  [surface |-> Append(u, m)[p], client |-> owner'[Append(u, m)[p]]]]
    BY <2>1 DEF Tagged
  <2>7. /\ w[k + 1] = e
        /\ \A p \in 1 .. k : w[p] = t[p]
    <3>1. k + 1 \in 1 .. k + 1 /\ \A p \in 1 .. k : p \in 1 .. k + 1
      BY <1>8
    <3> HIDE DEF w, t, k
    <3>2. QED
      BY <1>10, <2>1, <2>3, <2>6, <3>1
  <2>8. w \in Seq(R) /\ Len(w) = k + 1
    <3>1. \A p \in 1 .. k + 1 : Append(u, m)[p] \in Slots
      BY <2>1, ElementOfSeq
    <3>2. \A p \in 1 .. k + 1 :
            [surface |-> Append(u, m)[p], client |-> owner'[Append(u, m)[p]]] \in R
      BY <3>1
    <3>3. k + 1 \in Nat
      BY <1>8
    <3> HIDE DEF R, w
    <3>4. QED
      BY <2>6, <3>2, <3>3
  <2> HIDE DEF R, t, e, w, k
  <2>9. /\ Append(t, e) \in Seq(R) /\ Len(Append(t, e)) = k + 1
        /\ \A p \in 1 .. k : Append(t, e)[p] = t[p]
        /\ Append(t, e)[k + 1] = e
    BY <2>4, <2>5, AppendProperties
  <2>10. \A p \in 1 .. k + 1 : w[p] = Append(t, e)[p]
    <3>1. \A p \in 1 .. k + 1 : p = k + 1 \/ p \in 1 .. k
      BY <1>8 DEF k
    <3>2. QED
      BY <2>7, <2>9, <3>1
  <2>11. w = Append(t, e)
    BY <2>8, <2>9, <2>10, SeqEqual
  <2>12. QED
    BY <2>11 DEF t, e, w
<1> HIDE DEF u, X
<1>12. Stacked' = Append(Stacked, [surface |-> m, client |-> c])
  BY <1>7, <1>9, <1>11
<1>13. \A p \in DOMAIN Stacked : Stacked[p].surface < m
  BY <1>7, <1>10 DEF Tagged
<1>14. Broken = FALSE /\ Broken' = FALSE
  BY DEF Broken
<1>15. Stack!Create(c, m)
  BY <1>12, <1>13, <1>14 DEF Stack!Create
<1>16. QED
  BY <1>5, <1>15

(* A disconnection begins: the client's surfaces leave the stack at once.  *)
LEMMA LeaveStacks ==
  ASSUME IInv, ~ Broken, ~ Broken', NEW c \in Clients, BeginDisconnect(c)
  PROVE  Stack!Leave(c)
<1>1. /\ TypeOK /\ ObjectsRooted /\ ListSound
      /\ dying = NoClient /\ dying' = c
      /\ UNCHANGED <<alive, owner, list>>
  BY DEF BeginDisconnect, Running, IInv, Sound, objects
<1> DEFINE X == {Null}
           M == OwnedBy(c)
           u == Unmatched(list, X)
           K == KeptAt(u, M)
<1>2. {Null} \cup OwnedBy(dying) = X /\ ({Null} \cup OwnedBy(dying))' = X \cup M
  BY <1>1, OwnedIsNumbered DEF OwnedBy
<1>3. Stacked = Tagged(u, owner)
  BY <1>2 DEF Stacked, Tagged
<1>4. Stacked' = Tagged(Unmatched(list, X \cup M), owner)
  BY <1>1, <1>2 DEF Stacked, Tagged
<1>5. list \in Seq(Slots)
  BY <1>1 DEF TypeOK, Slots
<1>6. Unmatched(list, X \cup M) = Unmatched(u, M)
  <2> HIDE DEF X, M
  <2>1. QED
    BY <1>5, UnmatchedTwice
<1>7. u \in Seq(Slots) /\ \A p \in DOMAIN u : u[p] \in alive
  <2>1. Null \in X
    OBVIOUS
  <2> HIDE DEF X, u
  <2>2. QED
    BY <1>1, <2>1, PresentExist DEF u
<1>8. Unmatched(u, M) = Selected(u, K) /\ K \in SUBSET (DOMAIN u)
  BY DEF Unmatched, KeptAt
<1> HIDE DEF u
<1>9. K = {p \in DOMAIN Stacked : Stacked[p].client # c}
  <2>1. DOMAIN Stacked = DOMAIN u /\ \A p \in DOMAIN u : Stacked[p].client = owner[u[p]]
    BY <1>3 DEF Tagged
  <2>2. \A p \in DOMAIN u : u[p] \notin M <=> owner[u[p]] # c
    BY <1>7 DEF OwnedBy
  <2> HIDE DEF M
  <2>3. QED
    BY <2>1, <2>2 DEF KeptAt
<1>10. Selected(Stacked, K) = Tagged(Selected(u, K), owner)
  <2> HIDE DEF K
  <2>1. QED
    BY <1>3, <1>7, <1>8, TaggedSelected
<1>11. Stacked' = Stack!Selected(Stacked, {p \in DOMAIN Stacked : Stacked[p].client # c})
  <2> HIDE DEF K
  <2>1. Stacked' = Selected(Stacked, K)
    BY <1>4, <1>6, <1>8, <1>10
  <2>2. Stack!Selected(Stacked, K) = Selected(Stacked, K)
    BY StackSelects
  <2>3. QED
    BY <1>9, <2>1, <2>2
<1>12. Broken = FALSE /\ Broken' = FALSE
  BY DEF Broken
<1>13. QED
  BY <1>11, <1>12 DEF Stack!Leave

(* What remove_if does to the list does not show: only entries of the      *)
(* client that has left are overwritten, moved over or deleted.            *)
LEMMA CompactionHidden ==
  ASSUME IInv, ~ Broken, ~ Broken', ClientDisconnects
  PROVE  Stacked' = Stacked
<1> DEFINE M == OwnedBy(dying)
           left == Compacted(list, M)
           kept == Unmatched(list, M)
           gone == Entries(list) \ Entries(left)
           X == {Null} \cup M
           Y == {Null} \cup (M \ gone)
<1>1. /\ TypeOK /\ ListSound /\ dying' = dying /\ ~ HasNull(list)
      /\ list' = left
      /\ alive' = alive \ gone
      /\ owner' = [n \in Surfaces |-> IF n \in gone THEN NoClient ELSE owner[n]]
  BY DEF ClientDisconnects, DoomedIs, DeleteSurfaces, HasNull, IInv, Sound, Broken
<1>2. list \in Seq(Slots) /\ Single(list) /\ Entries(list) = alive
  BY <1>1 DEF TypeOK, Slots, ListSound
<1>3. Null \notin M /\ M \subseteq alive /\ alive \subseteq Surfaces
  BY <1>1, OwnedIsNumbered DEF OwnedBy
<1>4. /\ left \in Seq(Slots)
      /\ Len(kept) <= Len(left)
      /\ \A p \in 1 .. Len(kept) : left[p] = kept[p] /\ left[p] \notin M \cup {Null}
      /\ \A p \in DOMAIN left : p > Len(kept) => left[p] \in M \cup {Null}
      /\ Entries(list) \ M \subseteq Entries(left)
  <2> HIDE DEF M
  <2>1. QED
    BY <1>1, <1>2, <1>3, CompactedEntries
<1>5. kept \in Seq(Slots) /\ DOMAIN kept = 1 .. Len(kept) /\ Len(kept) \in Nat
  BY <1>2, UnmatchedEntries, LenProperties
<1>6. gone \subseteq M
  BY <1>2, <1>4
<1>7. OwnedBy(dying)' = M \ gone
  <2>1. \A n \in alive \ gone : owner'[n] = owner[n]
    BY <1>1, <1>3
  <2> HIDE DEF gone
  <2>2. QED
    BY <1>1, <2>1 DEF OwnedBy
<1>8. Unmatched(list, X) = kept
  <2>1. {p \in DOMAIN list : list[p] \notin X} = {p \in DOMAIN list : list[p] \notin M}
    BY <1>1 DEF HasNull
  <2>2. QED
    BY <2>1 DEF Unmatched
<1>9. {p \in DOMAIN left : left[p] \notin Y} = 1 .. Len(kept)
  <2> HIDE DEF left, kept
  <2>1. ASSUME NEW p \in 1 .. Len(kept) PROVE p \in DOMAIN left /\ left[p] \notin Y
    <3>1. p \in DOMAIN left
      BY <1>4, <1>5, LenProperties
    <3>2. QED
      BY <1>4, <3>1
  <2>2. ASSUME NEW p \in DOMAIN left, p \notin 1 .. Len(kept) PROVE left[p] \in Y
    <3>1. p > Len(kept)
      BY <1>4, <1>5, <2>2, LenProperties
    <3>2. left[p] \in M \cup {Null}
      BY <1>4, <3>1
    <3>3. left[p] # Null => left[p] \in Entries(left)
      BY DEF Entries
    <3>4. QED
      BY <3>2, <3>3
  <2> HIDE DEF Y
  <2>3. QED
    BY <2>1, <2>2
<1>10. Unmatched(left, Y) = kept
  <2> HIDE DEF left, kept
  <2>1. Len(kept) \in 0 .. Len(left)
    BY <1>4, <1>5, LenProperties
  <2>2. Selected(left, 1 .. Len(kept)) = [i \in 1 .. Len(kept) |-> left[i]]
    BY <1>4, <2>1, SelectedFirst
  <2>3. [i \in 1 .. Len(kept) |-> left[i]] = kept
    BY <1>4, <1>5
  <2>4. QED
    BY <1>9, <2>2, <2>3 DEF Unmatched
<1>11. \A p \in DOMAIN kept : kept[p] \in alive /\ kept[p] \notin M
  <2>1. \A p \in 1 .. Len(kept) : left[p] \notin X
    BY <1>4
  <2>2. Null \in X
    OBVIOUS
  <2> HIDE DEF X, left, kept
  <2>3. \A p \in DOMAIN Unmatched(list, X) : Unmatched(list, X)[p] \in alive
    BY <1>1, <2>2, PresentExist
  <2>4. QED
    BY <1>4, <1>5, <1>8, <2>1, <2>3
<1> HIDE DEF left, kept, gone
<1>12. \A p \in DOMAIN kept : owner[kept[p]] = owner'[kept[p]]
  <2>1. \A n \in alive \ M : owner'[n] = owner[n]
    BY <1>1, <1>3, <1>6
  <2>2. QED
    BY <1>11, <2>1
<1>13. Tagged(kept, owner) = Tagged(kept, owner')
  BY <1>12, TaggedAlike
<1>14. Stacked = Tagged(kept, owner)
  BY <1>8 DEF Stacked, Tagged
<1>15. Stacked' = Tagged(kept, owner')
  BY <1>1, <1>7, <1>10 DEF Stacked, Tagged
<1>16. QED
  BY <1>13, <1>14, <1>15

(* Nor does the loss of a surface of the client that has left.             *)
LEMMA ErasureHidden ==
  ASSUME IInv, ~ Broken, ~ Broken', SurfaceDestroyed
  PROVE  Stacked' = Stacked
<1>1. /\ TypeOK /\ ObjectsRooted /\ HooksLead /\ ListSound /\ dying' = dying
      /\ dying \in Clients
      /\ resource[dying][Doomed].kind = "surface"
  BY DEF SurfaceDestroyed, DoomedIs, IInv, Sound, Broken, TypeOK
<1>2. CASE Doomed \in hooked[dying]
  <2>1. PICK m : m = resource[dying][Doomed].of
    OBVIOUS
  <2> DEFINE M == OwnedBy(dying)
             left == Erased(list, m)
             gone == Entries(list) \ Entries(left)
             X == {Null} \cup M
             Y == {Null} \cup (M \ {m})
             E == {m}
             u == Unmatched(list, X)
  <2>2. m \in alive /\ owner[m] = dying
    BY <1>1, <1>2, <2>1 DEF HooksLead, HookLeads
  <2>3. list \in Seq(Slots) /\ Single(list) /\ Entries(list) = alive
    BY <1>1 DEF TypeOK, Slots, ListSound
  <2>4. m \in Surfaces /\ alive \subseteq Surfaces
    BY <1>1, <2>2, OwnedIsNumbered
  <2>5. gone = {m}
    BY <2>2, <2>3, <2>4, ErasedEntries
  <2>6. /\ list' = left
        /\ alive' = alive \ {m}
        /\ owner' = [n \in Surfaces |-> IF n \in {m} THEN NoClient ELSE owner[n]]
    BY <1>2, <2>1, <2>5 DEF SurfaceDestroyed, DeleteSurfaces
  <2>7. OwnedBy(dying)' = M \ {m}
    <3>1. \A n \in alive \ {m} : owner'[n] = owner[n]
      BY <2>4, <2>6
    <3>2. QED
      BY <1>1, <2>6, <3>1 DEF OwnedBy
  <2>8. E \cup Y = X
    BY <2>2 DEF OwnedBy
  <2>9. Unmatched(left, Y) = u
    <3>1. left = Unmatched(list, E)
      BY DEF Erased
    <3> HIDE DEF E, Y, X, left, u
    <3>2. Unmatched(Unmatched(list, E), Y) = Unmatched(list, E \cup Y)
      BY <2>3, UnmatchedTwice
    <3>3. QED
      BY <2>8, <3>1, <3>2 DEF u
  <2>10. \A p \in DOMAIN u : u[p] \in alive /\ u[p] # m
    <3>1. Null \in X /\ m \in X
      BY <2>2 DEF OwnedBy
    <3> HIDE DEF X, u
    <3>2. QED
      BY <1>1, <3>1, PresentExist DEF u
  <2>11. \A p \in DOMAIN u : owner[u[p]] = owner'[u[p]]
    <3>1. \A n \in alive : n # m => owner'[n] = owner[n]
      BY <2>4, <2>6
    <3> HIDE DEF u
    <3>2. QED
      BY <2>10, <3>1
  <2> HIDE DEF u
  <2>12. Tagged(u, owner) = Tagged(u, owner')
    BY <2>11, TaggedAlike
  <2>13. Stacked = Tagged(u, owner)
    BY DEF u, Stacked, Tagged
  <2>14. Stacked' = Tagged(u, owner')
    <3> HIDE DEF left
    <3>1. QED
      BY <2>6, <2>7, <2>9 DEF Stacked, Tagged
  <2>15. QED
    BY <2>12, <2>13, <2>14
<1>3. CASE Doomed \notin hooked[dying]
  BY <1>1, <1>3 DEF SurfaceDestroyed, objects, Stacked, OwnedBy
<1>4. QED
  BY <1>2, <1>3

(* Nor does a step that leaves the list and the surfaces as they are.      *)
LEMMA OthersHidden ==
  ASSUME UNCHANGED <<list, alive, owner, dying>>
  PROVE  Stacked' = Stacked
BY DEF Stacked, OwnedBy

(* The end of a disconnection does not show.                               *)
LEMMA EndHidden ==
  ASSUME IInv, IInv', EndDisconnect
  PROVE  Stacked' = Stacked
<1>1. /\ TypeOK /\ ObjectsRooted /\ dying \in Clients /\ LiveIds(dying) = {}
      /\ UNCHANGED <<list, alive, owner>> /\ dying' = NoClient
  BY DEF EndDisconnect, IInv, Sound, TypeOK, objects
<1>2. OwnedBy(dying) = {}
  <2>1. SUFFICES ASSUME NEW n \in alive, owner[n] = dying PROVE FALSE
    BY DEF OwnedBy
  <2>2. /\ surfaceId[n] \in hooked[dying]
        /\ resource[dying][surfaceId[n]] = [kind |-> "surface", of |-> n]
    BY <1>1, <2>1 DEF ObjectsRooted, Rooted
  <2>3. surfaceId[n] \in Ids
    BY <1>1, <2>2 DEF TypeOK
  <2>4. surfaceId[n] \in LiveIds(dying)
    BY <2>2, <2>3 DEF LiveIds, NoResource
  <2>5. QED
    BY <1>1, <2>4
<1>3. OwnedBy(dying)' = OwnedBy(NoClient)
  BY <1>1 DEF OwnedBy
<1>4. OwnedBy(NoClient) = {}
  BY <1>1, OwnedIsNumbered
<1>5. QED
  BY <1>1, <1>2, <1>3, <1>4 DEF Stacked

(* Every step of the compositor is a step of the stack, or does not show.  *)
LEMMA StepStacks ==
  ASSUME IInv, IInv', [Next]_vars
  PROVE  [Stack!Next]_<<StackNow, Broken>>
<1>1. Broken \in BOOLEAN /\ Broken' \in BOOLEAN
  BY DEF Broken
<1>2. CASE Broken'
  <2>1. Stack!Break
    BY <1>1, <1>2 DEF Stack!Break
  <2>2. QED
    BY <2>1 DEF Stack!Next
<1>3. CASE ~ Broken'
  <2>1. ~ Broken
    BY <1>3, StaysBroken
  <2>2. ASSUME Stacked' = Stacked PROVE UNCHANGED <<StackNow, Broken>>
    BY <1>1, <1>3, <2>1, <2>2 DEF StackNow
  <2>3. CASE \E c \in Clients, i \in Ids : CreateSurface(c, i)
    BY <1>3, <2>1, <2>3, CreateStacks DEF Stack!Next
  <2>4. CASE \E c \in Clients : BeginDisconnect(c)
    BY <1>3, <2>1, <2>4, LeaveStacks DEF Stack!Next
  <2>5. CASE \/ \E c \in Clients, i \in Ids : Bind(c, i) \/ ShellSurfaceRequest(c, i)
             \/ \E c \in Clients, n \in Surfaces, i \in Ids : GetShellSurface(c, n, i)
             \/ ShellDestroyed \/ Repaint \/ UNCHANGED vars
    <3>1. UNCHANGED <<list, alive, owner, dying>>
      BY <2>5 DEF Bind, ShellSurfaceRequest, GetShellSurface, ShellDestroyed, Repaint,
                  vars, objects
    <3>2. QED
      BY <2>2, <3>1, OthersHidden
  <2>6. CASE ClientDisconnects
    BY <1>3, <2>1, <2>2, <2>6, CompactionHidden
  <2>7. CASE SurfaceDestroyed
    BY <1>3, <2>1, <2>2, <2>7, ErasureHidden
  <2>8. CASE EndDisconnect
    BY <2>2, <2>8, EndHidden
  <2>9. QED
    BY <2>3, <2>4, <2>5, <2>6, <2>7, <2>8 DEF Next, Disconnecting
<1>4. QED
  BY <1>2, <1>3

(* The initial list is an empty stack.                                     *)
LEMMA InitStacks == Init => Stack!Init
<1> SUFFICES ASSUME Init PROVE Stack!Init
  OBVIOUS
<1>1. list = <<>> /\ crashed = FALSE /\ touchedFreed = FALSE
  BY DEF Init
<1>2. Broken = FALSE
  BY <1>1 DEF Broken
<1>3. list \in Seq(Slots) /\ Len(list) = 0
  BY <1>1
<1>4. Stacked = <<>>
  <2> DEFINE u == Unmatched(list, {Null} \cup OwnedBy(dying))
  <2>1. u \in Seq(Slots) /\ Len(u) <= 0 /\ DOMAIN u = 1 .. Len(u)
    <3> DEFINE X == {Null} \cup OwnedBy(dying)
    <3> HIDE DEF X
    <3>1. Unmatched(list, X) \in Seq(Slots) /\ Len(Unmatched(list, X)) <= Len(list)
          /\ DOMAIN Unmatched(list, X) = 1 .. Len(Unmatched(list, X))
      BY <1>3, UnmatchedEntries
    <3>2. QED
      BY <1>3, <3>1 DEF X
  <2> HIDE DEF u
  <2>2. DOMAIN u = {}
    <3>1. Len(u) \in Nat
      BY <2>1, LenProperties
    <3>2. Len(u) = 0
      BY <2>1, <3>1
    <3>3. QED
      BY <2>1, <3>2
  <2>3. Stacked = [p \in DOMAIN u |-> [surface |-> u[p], client |-> owner[u[p]]]]
    BY DEF Stacked, u
  <2>4. QED
    BY <2>2, <2>3
<1>5. QED
  BY <1>2, <1>4 DEF Stack!Init

(* Class Compositor implements the stack of module SurfaceStack as long as *)
(* the process has not broken down: a client leaves with all its surfaces  *)
(* in one step, and neither the entries and nulls of the missing erase nor *)
(* the order of the resources move or remove a surface of another client.  *)
THEOREM CompositorImplementsStack == Spec => ImplementsStack
<1>1. Init => Stack!Init
  BY InitStacks
<1>2. IInv /\ IInv' /\ [Next]_vars => [Stack!Next]_<<StackNow, Broken>>
  BY StepStacks
<1>3. QED
  BY <1>1, <1>2, CompositorInvariant, PTL
     DEF Spec, ImplementsStack, Stack!Spec, StackNow

-----------------------------------------------------------------------------
(* The safety half of NullEntryKills                                       *)

\* While the process lives
NullsRemain == [][HasNull(list) /\ ~ crashed => HasNull(list') \/ crashed']_vars

(* Nothing takes a null entry out of the list again: neither Compositor::  *)
(* notify, which erases, nor the disconnection of a client, whose erase is *)
(* missing.  So the repaint that ends the process cannot be avoided.       *)
THEOREM CompositorNullsRemain == Spec => NullsRemain
<1>1. IInv /\ IInv' /\ [Next]_vars
        => [HasNull(list) /\ ~ crashed => HasNull(list') \/ crashed']_vars
  <2> SUFFICES ASSUME IInv, IInv', [Next]_vars, HasNull(list), ~ crashed, ~ crashed'
               PROVE  HasNull(list')
    OBVIOUS
  <2>1. overtaken
    BY DEF IInv, Sound, ListSound
  <2>2. overtaken'
    <3>1. CASE UNCHANGED vars
      BY <2>1, <3>1 DEF vars, ghosts
    <3>2. CASE Next
      <4>1. ASSUME NEW c \in Clients, NEW i \in Ids,
                   Bind(c, i) \/ CreateSurface(c, i) \/ ShellSurfaceRequest(c, i)
            PROVE  overtaken'
        BY <2>1, <4>1 DEF Bind, CreateSurface, ShellSurfaceRequest, vars, ghosts
      <4>2. ASSUME NEW c \in Clients, NEW n \in Surfaces, NEW i \in Ids,
                   GetShellSurface(c, n, i)
            PROVE  overtaken'
        BY <2>1, <4>2 DEF GetShellSurface
      <4>3. ASSUME NEW c \in Clients, BeginDisconnect(c) PROVE overtaken'
        BY <2>1, <4>3 DEF BeginDisconnect, ghosts
      <4>4. CASE ClientDisconnects
        BY <2>1, <4>4 DEF ClientDisconnects
      <4>5. CASE SurfaceDestroyed
        BY <2>1, <4>5 DEF SurfaceDestroyed
      <4>6. CASE ShellDestroyed \/ EndDisconnect \/ Repaint
        BY <2>1, <4>6 DEF ShellDestroyed, EndDisconnect, Repaint, ghosts
      <4>7. QED
        BY <3>2, <4>1, <4>2, <4>3, <4>4, <4>5, <4>6 DEF Next, Disconnecting
    <3>3. QED
      BY <3>1, <3>2
  <2>3. QED
    BY <2>2 DEF IInv, Sound, ListSound, HasNull
<1>2. QED
  BY <1>1, CompositorInvariant, PTL DEF Spec, NullsRemain

-----------------------------------------------------------------------------
(* What the stack promises, carried over to the list                       *)

Entry == [surface : Surfaces, client : Clients]

\* A newer surface lies above all older ones
InOrder(s) ==
  /\ s \in Seq(Entry)
  /\ \A p, q \in DOMAIN s : p < q => s[p].surface < s[q].surface

(* A newer surface on top keeps the order.                                 *)
LEMMA OrderOnTop ==
  ASSUME NEW s, InOrder(s), NEW c \in Clients, NEW n \in Surfaces,
         \A p \in DOMAIN s : s[p].surface < n
  PROVE  InOrder(Append(s, [surface |-> n, client |-> c]))
<1> DEFINE e == [surface |-> n, client |-> c]
           t == Append(s, e)
<1>1. s \in Seq(Entry) /\ e \in Entry /\ e.surface = n
  BY DEF InOrder, Entry
<1> HIDE DEF e
<1>2. /\ t \in Seq(Entry) /\ Len(s) \in Nat
      /\ DOMAIN s = 1 .. Len(s) /\ DOMAIN t = 1 .. Len(s) + 1
      /\ \A p \in 1 .. Len(s) : t[p] = s[p]
      /\ t[Len(s) + 1] = e
  BY <1>1, AppendProperties
<1> HIDE DEF t
<1>3. ASSUME NEW p \in DOMAIN t, NEW q \in DOMAIN t, p < q
      PROVE  t[p].surface < t[q].surface
  <2>1. p \in 1 .. Len(s) /\ (q \in 1 .. Len(s) \/ q = Len(s) + 1)
    BY <1>2, <1>3
  <2>2. CASE q \in 1 .. Len(s)
    BY <1>2, <1>3, <2>1, <2>2 DEF InOrder
  <2>3. CASE q = Len(s) + 1
    BY <1>1, <1>2, <2>1, <2>3
  <2>4. QED
    BY <2>1, <2>2, <2>3
<1>4. QED
  BY <1>2, <1>3 DEF InOrder, t, e

(* What is left of an ordered stack is ordered.                            *)
LEMMA OrderOfRest ==
  ASSUME NEW s, InOrder(s), NEW K \in SUBSET (DOMAIN s)
  PROVE  InOrder(Selected(s, K))
<1> DEFINE t == Selected(s, K)
<1>1. s \in Seq(Entry)
  BY DEF InOrder
<1>2. /\ t \in Seq(Entry) /\ DOMAIN t = 1 .. Cardinality(K)
      /\ \A i \in 1 .. Cardinality(K) : Place(K, i) \in K /\ t[i] = s[Place(K, i)]
  BY <1>1, SelectedIsSeq
<1>3. K \in SUBSET Nat /\ IsFiniteSet(K)
  BY <1>1, PositionsAreFinite
<1> HIDE DEF t
<1>4. ASSUME NEW p \in DOMAIN t, NEW q \in DOMAIN t, p < q
      PROVE  t[p].surface < t[q].surface
  <2>1. Place(K, p) < Place(K, q)
    BY <1>2, <1>3, <1>4, PlacesInOrder
  <2>2. Place(K, p) \in DOMAIN s /\ Place(K, q) \in DOMAIN s
    BY <1>2
  <2>3. QED
    BY <1>2, <2>1, <2>2 DEF InOrder
<1>5. QED
  BY <1>2, <1>4 DEF InOrder, t

(* Every step of the stack keeps the order.                                *)
LEMMA StackStaysInOrder ==
  ASSUME [Stack!Next]_<<StackNow, Broken>>, InOrder(StackNow)
  PROVE  InOrder(StackNow')
<1>1. CASE UNCHANGED <<StackNow, Broken>>
  BY <1>1
<1>2. ASSUME NEW c \in Clients, NEW n \in Surfaces, Stack!Create(c, n)
      PROVE  InOrder(StackNow')
  <2>1. /\ \A p \in DOMAIN StackNow : StackNow[p].surface < n
        /\ StackNow' = Append(StackNow, [surface |-> n, client |-> c])
    BY <1>2 DEF Stack!Create, StackNow
  <2>2. QED
    BY <2>1, OrderOnTop
<1>3. ASSUME NEW c \in Clients, Stack!Leave(c) PROVE InOrder(StackNow')
  <2> DEFINE K == {p \in DOMAIN StackNow : StackNow[p].client # c}
  <2>1. StackNow' = Stack!Selected(StackNow, K)
    BY <1>3 DEF Stack!Leave, StackNow
  <2>2. K \in SUBSET (DOMAIN StackNow)
    OBVIOUS
  <2> HIDE DEF K
  <2>3. StackNow' = Selected(StackNow, K)
    BY <2>1, StackSelects
  <2>4. QED
    BY <2>2, <2>3, OrderOfRest
<1>4. CASE Stack!Break
  <2>1. StackNow' = <<>>
    BY <1>4 DEF Stack!Break, StackNow
  <2>2. InOrder(<<>>)
    <3>1. <<>> \in Seq(Entry) /\ DOMAIN <<>> = {}
      OBVIOUS
    <3>2. QED
      BY <3>1 DEF InOrder
  <2>3. QED
    BY <2>1, <2>2
<1>5. QED
  BY <1>1, <1>2, <1>3, <1>4 DEF Stack!Next

(* Of any two surfaces the newer one lies above, as long as the process    *)
(* has not broken down: who comes or goes never changes their order.  It   *)
(* is proved of the stack and holds of the list that implements it.        *)
THEOREM CompositorStacksInOrder ==
  Spec => [](~ Broken => \A p, q \in DOMAIN Stacked :
               p < q => Stacked[p].surface < Stacked[q].surface)
<1>1. Init => InOrder(StackNow)
  <2> SUFFICES ASSUME Init PROVE InOrder(StackNow)
    OBVIOUS
  <2>1. StackNow = <<>>
    BY InitStacks DEF Stack!Init, StackNow
  <2>2. <<>> \in Seq(Entry) /\ DOMAIN <<>> = {}
    OBVIOUS
  <2>3. InOrder(<<>>)
    BY <2>2 DEF InOrder
  <2>4. QED
    BY <2>1, <2>3
<1>2. IInv /\ IInv' /\ [Next]_vars /\ InOrder(StackNow) => InOrder(StackNow)'
  BY StepStacks, StackStaysInOrder
<1>3. InOrder(StackNow) => (~ Broken => \A p, q \in DOMAIN Stacked :
                              p < q => Stacked[p].surface < Stacked[q].surface)
  BY DEF InOrder, StackNow
<1>4. QED
  BY <1>1, <1>2, <1>3, CompositorInvariant, PTL DEF Spec

-----------------------------------------------------------------------------
(* Who deletes whose surfaces *)

(* What a step takes out of mSurfacesList belongs to the client that is    *)
(* being disconnected.                                                     *)
LEMMA DeletedAreOwn ==
  ASSUME IInv, [Next]_vars
  PROVE  \A n \in alive \ alive' : owner[n] = dying
<1>1. CASE ClientDisconnects
  <2>1. /\ TypeOK /\ ListSound /\ DoomedIs("compositor")
        /\ dying \in Clients
    BY <1>1 DEF ClientDisconnects, DoomedIs, IInv, Sound, TypeOK
  <2>2. CASE HasNull(list)
    BY <1>1, <2>2 DEF ClientDisconnects, HasNull, objects
  <2>3. CASE ~ HasNull(list)
    <3> DEFINE M == OwnedBy(dying)
               left == Compacted(list, M)
               gone == Entries(list) \ Entries(left)
    <3>1. alive' = alive \ gone
      BY <1>1, <2>3 DEF ClientDisconnects, HasNull, DeleteSurfaces
    <3>2. list \in Seq(Slots) /\ Single(list) /\ Entries(list) = alive
      BY <2>1 DEF TypeOK, Slots, ListSound
    <3>3. Null \notin M
      BY <2>1, OwnedIsNumbered DEF OwnedBy
    <3>4. Entries(list) \ M \subseteq Entries(left)
      <4> HIDE DEF M
      <4>1. QED
        BY <2>3, <3>2, <3>3, CompactedEntries
    <3>5. gone \in SUBSET M
      BY <3>4
    <3> HIDE DEF gone
    <3>6. QED
      BY <3>1, <3>5 DEF OwnedBy
  <2>4. QED
    BY <2>2, <2>3
<1>2. CASE SurfaceDestroyed
  <2>1. TypeOK /\ HooksLead /\ ListSound /\ dying \in Clients
        /\ resource[dying][Doomed].kind = "surface"
    BY <1>2 DEF SurfaceDestroyed, DoomedIs, IInv, Sound, TypeOK
  <2>2. CASE Doomed \notin hooked[dying]
    BY <1>2, <2>2 DEF SurfaceDestroyed, objects
  <2>3. CASE Doomed \in hooked[dying]
    <3> DEFINE m == resource[dying][Doomed].of
               left == Erased(list, m)
               gone == Entries(list) \ Entries(left)
    <3>1. alive' = alive \ gone
      BY <1>2, <2>3 DEF SurfaceDestroyed, DeleteSurfaces
    <3>2. m \in alive /\ owner[m] = dying
      BY <2>1, <2>3 DEF HooksLead, HookLeads
    <3>3. m \in Surfaces
      BY <2>1, <3>2, OwnedIsNumbered
    <3>4. list \in Seq(Slots) /\ Single(list)
      BY <2>1 DEF TypeOK, Slots, ListSound
    <3>5. Entries(left) = Entries(list) \ {m}
      <4> HIDE DEF m
      <4>1. QED
        BY <3>3, <3>4, ErasedEntries
    <3>6. gone \in SUBSET {m}
      BY <3>5
    <3> HIDE DEF gone
    <3>7. QED
      BY <3>1, <3>2, <3>6
  <2>4. QED
    BY <2>2, <2>3
<1>3. ASSUME ~ ClientDisconnects, ~ SurfaceDestroyed PROVE alive \subseteq alive'
  BY <1>3 DEF Next, Disconnecting, Bind, CreateSurface, GetShellSurface,
              ShellSurfaceRequest, BeginDisconnect, ShellDestroyed, EndDisconnect,
              Repaint, objects, vars
<1>4. QED
  BY <1>1, <1>2, <1>3

(* A Surface is deleted only by the disconnection of the client that has   *)
(* created it, whatever remove_if leaves where in the list, and when the   *)
(* disconnection ends none of the client's surfaces is left.               *)
THEOREM CompositorDeletesOwn ==
  Spec => [][/\ \A n \in alive \ alive' : owner[n] = dying
             /\ EndDisconnect => OwnedBy(dying) = {}]_vars
<1>1. ASSUME IInv, EndDisconnect PROVE OwnedBy(dying) = {}
  <2>1. SUFFICES ASSUME NEW n \in alive, owner[n] = dying PROVE FALSE
    BY DEF OwnedBy
  <2>2. ~ crashed /\ LiveIds(dying) = {} /\ TypeOK /\ ObjectsRooted
    BY <1>1 DEF EndDisconnect, IInv, Sound
  <2>3. /\ owner[n] \in Clients /\ surfaceId[n] \in hooked[owner[n]]
        /\ resource[dying][surfaceId[n]] = [kind |-> "surface", of |-> n]
    BY <2>1, <2>2 DEF ObjectsRooted, Rooted
  <2>4. surfaceId[n] \in Ids
    BY <2>2, <2>3 DEF TypeOK
  <2>5. [kind |-> "surface", of |-> n] # NoResource
    BY DEF NoResource
  <2>6. QED
    BY <2>2, <2>3, <2>4, <2>5 DEF LiveIds
<1>2. IInv /\ [Next]_vars => [/\ \A n \in alive \ alive' : owner[n] = dying
                              /\ EndDisconnect => OwnedBy(dying) = {}]_vars
  BY <1>1, DeletedAreOwn
<1>3. QED
  BY <1>2, CompositorInvariant, PTL DEF Spec

(* Why DestroyedSurfaceGoes fails, in every instance: wl_surface.destroy   *)
(* is one more request that changes nothing, so a surface whose client has *)
(* asked for its destruction stays, and stays in mSurfacesList to be laid  *)
(* out and painted, until that client is disconnected.                     *)
THEOREM CompositorIgnoresDestroy ==
  DestroySpec =>
    [][\A n \in askedToGo \cap alive :
         owner[n] # dying => n \in alive' /\ (crashed' \/ n \in Entries(list'))]_destroyVars
<1>1. DestroyInit => Init
  BY DEF DestroyInit
<1>2. [DestroyNext]_destroyVars => [Next]_vars
  BY DEF DestroyNext, destroyVars, SurfaceDestroy
<1>3. DestroySpec => []IInv /\ [][Next]_vars
  BY <1>1, <1>2, CompositorInvariant, PTL DEF DestroySpec, Spec
<1>4. IInv /\ IInv' /\ [Next]_vars =>
        [\A n \in askedToGo \cap alive :
           owner[n] # dying => n \in alive' /\ (crashed' \/ n \in Entries(list'))]_destroyVars
  <2> SUFFICES ASSUME IInv, IInv', [Next]_vars, NEW n \in askedToGo \cap alive,
                      owner[n] # dying
               PROVE  n \in alive' /\ (crashed' \/ n \in Entries(list'))
    OBVIOUS
  <2>1. n \in alive'
    BY DeletedAreOwn
  <2>2. ~ crashed' => Entries(list)' = alive'
    BY DEF IInv, Sound, ListSound
  <2>3. Entries(list)' = Entries(list')
    BY DEF Entries
  <2>4. QED
    BY <2>1, <2>2, <2>3
<1>5. QED
  BY <1>3, <1>4, PTL
=============================================================================

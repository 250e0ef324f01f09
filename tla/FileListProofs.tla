---------------------------- MODULE FileListProofs ----------------------------
(***************************************************************************)
(* What a reader sees who pages through a list that changes under it.      *)
(*                                                                         *)
(* A row's place is the number of listed rows at least as new.  A page     *)
(* holds the rows whose places are its own (PageOfPlaces), and a change of *)
(* the list leaves the place of a row alone unless a row at least as new   *)
(* comes or goes (PlaceStays).  The invariant says where every row stands  *)
(* that has no other row in its second and that no such change has moved:  *)
(* in the answers that wait to be shown and in what the reader has seen.   *)
(***************************************************************************)
EXTENDS FileList, FiniteSetTheorems, SequenceTheorems, TLAPS

-----------------------------------------------------------------------------
(* Sequences. *)

LEMMA RemoveAtStays ==
  ASSUME NEW S, NEW s \in Seq(S), NEW i \in 1 .. Len(s)
  PROVE  /\ RemoveAt(s, i) \in Seq(S)
         /\ Len(RemoveAt(s, i)) = Len(s) - 1
         /\ \A j \in DOMAIN RemoveAt(s, i) : \E q \in DOMAIN s : RemoveAt(s, i)[j] = s[q]
<1> DEFINE a == SubSeq(s, 1, i - 1)
           b == SubSeq(s, i + 1, Len(s))
<1>1. Len(s) \in Nat /\ DOMAIN s = 1 .. Len(s) /\ \A j \in 1 .. Len(s) : s[j] \in S
  BY LenProperties, ElementOfSeq
<1>2. /\ a \in Seq(S) /\ Len(a) = i - 1
      /\ \A j \in 1 .. i - 1 : a[j] = s[j]
  <2>1. \A j \in 1 .. i - 1 : s[j] \in S
    BY <1>1
  <2>2. /\ a \in Seq(S)
        /\ Len(a) = IF 1 <= i - 1 THEN (i - 1) - 1 + 1 ELSE 0
        /\ \A j \in 1 .. (i - 1) - 1 + 1 : a[j] = s[1 + j - 1]
    BY <1>1, <2>1, SubSeqProperties
  <2> QED
    BY <1>1, <2>2
<1>3. /\ b \in Seq(S) /\ Len(b) = Len(s) - i
      /\ \A j \in 1 .. Len(s) - i : b[j] = s[i + j]
  <2>1. \A j \in i + 1 .. Len(s) : s[j] \in S
    BY <1>1
  <2>2. /\ b \in Seq(S)
        /\ Len(b) = IF i + 1 <= Len(s) THEN Len(s) - (i + 1) + 1 ELSE 0
        /\ \A j \in 1 .. Len(s) - (i + 1) + 1 : b[j] = s[(i + 1) + j - 1]
    BY <1>1, <2>1, SubSeqProperties
  <2> HIDE DEF b
  <2>3. Len(s) - (i + 1) + 1 = Len(s) - i /\ Len(b) = Len(s) - i
    <3>1. Len(s) \in Nat /\ i \in 1 .. Len(s)
      BY <1>1
    <3>2. Len(b) = IF i + 1 <= Len(s) THEN Len(s) - (i + 1) + 1 ELSE 0
      BY <2>2
    <3> QED
      BY <3>1, <3>2
  <2>4. ASSUME NEW j \in 1 .. Len(s) - i
        PROVE  b[j] = s[i + j]
    <3>1. b[j] = s[(i + 1) + j - 1]
      BY <2>2, <2>3
    <3>2. (i + 1) + j - 1 = i + j
      BY <1>1
    <3> QED
      BY <3>1, <3>2
  <2> QED
    BY <2>2, <2>3, <2>4
<1> HIDE DEF a, b
<1>4. /\ a \o b \in Seq(S) /\ Len(a \o b) = Len(a) + Len(b)
      /\ \A j \in 1 .. Len(a) + Len(b) :
           (a \o b)[j] = IF j <= Len(a) THEN a[j] ELSE b[j - Len(a)]
  BY <1>2, <1>3, ConcatProperties
<1>5. ASSUME NEW j \in DOMAIN (a \o b)
      PROVE  \E q \in DOMAIN s : (a \o b)[j] = s[q]
  <2>1. DOMAIN (a \o b) = 1 .. Len(a \o b)
    BY <1>4, LenProperties
  <2>2. j \in 1 .. Len(s) - 1
    BY <1>1, <1>2, <1>3, <1>4, <2>1
  <2>3. CASE j <= i - 1
    BY <1>1, <1>2, <1>3, <1>4, <2>2, <2>3
  <2>4. CASE j > i - 1
    <3>1. (a \o b)[j] = b[j - (i - 1)]
      BY <1>1, <1>2, <1>3, <1>4, <2>2, <2>4
    <3>2. j - (i - 1) \in 1 .. Len(s) - i /\ i + (j - (i - 1)) = j + 1
      BY <1>1, <2>2, <2>4
    <3>3. (a \o b)[j] = s[j + 1]
      BY <1>3, <3>1, <3>2
    <3> QED
      BY <1>1, <2>2, <3>3
  <2> QED
    BY <1>1, <2>2, <2>3, <2>4
<1>6. RemoveAt(s, i) = a \o b
  BY DEF RemoveAt, a, b
<1>7. Len(a \o b) = Len(s) - 1
  BY <1>1, <1>2, <1>3, <1>4
<1> QED
  BY <1>4, <1>5, <1>6, <1>7

LEMMA ToSetOfSeq ==
  ASSUME NEW S, NEW s \in Seq(S)
  PROVE  /\ ToSet(s) \subseteq S
         /\ \A x : x \in ToSet(s) <=> \E i \in 1 .. Len(s) : s[i] = x
BY LenProperties, ElementOfSeq DEF ToSet

-----------------------------------------------------------------------------
(* The place of a row, and the page it is on. *)

\* The listed rows at least as new as row i.
AboveIn(rs, k, i) == {j \in ListedIn(rs, k) : rs[j].at >= rs[i].at}

PlaceIn(rs, k, i) == Cardinality(AboveIn(rs, k, i))

\* No other row has the second of row i.
Alone(rs, i) == \A j \in DOMAIN rs \ {i} : rs[j].at # rs[i].at

LEMMA RowsListed ==
  ASSUME NEW rs \in Seq(Row), NEW k
  PROVE  /\ Len(rs) \in Nat /\ DOMAIN rs = 1 .. Len(rs)
         /\ \A i \in DOMAIN rs : rs[i] \in Row /\ rs[i].at \in Nat
         /\ ListedIn(rs, k) \subseteq 1 .. Len(rs)
         /\ IsFiniteSet(ListedIn(rs, k))
<1>1. Len(rs) \in Nat /\ DOMAIN rs = 1 .. Len(rs)
  BY LenProperties
<1>2. \A i \in DOMAIN rs : rs[i] \in Row /\ rs[i].at \in Nat
  <2> TAKE i \in DOMAIN rs
  <2>1. rs[i] \in Row
    BY <1>1, ElementOfSeq
  <2> QED
    BY <2>1, BoundsAssumption DEF Row
<1>3. ListedIn(rs, k) \subseteq 1 .. Len(rs)
  BY <1>1 DEF ListedIn
<1>4. IsFiniteSet(1 .. Len(rs))
  BY <1>1, FS_Interval
<1> QED
  BY <1>1, <1>2, <1>3, <1>4, FS_Subset

\* In an ordered list without repetitions, a row that is alone in its second stands
\* where the number of rows at least as new says.
LEMMA OrderIsPlace ==
  ASSUME NEW rs \in Seq(Row), NEW k, NEW s \in SetToSeqs(ListedIn(rs, k)),
         \A i, j \in DOMAIN s : i < j => rs[s[i]].at >= rs[s[j]].at,
         NEW q \in DOMAIN s, Alone(rs, s[q])
  PROVE  PlaceIn(rs, k, s[q]) = q
<1> DEFINE L == ListedIn(rs, k)
           n == Cardinality(L)
           A == AboveIn(rs, k, s[q])
           f == [i \in 1 .. q |-> s[i]]
<1>1. /\ IsFiniteSet(L) /\ n \in Nat
      /\ L \subseteq DOMAIN rs /\ \A i \in DOMAIN rs : rs[i].at \in Nat
  BY RowsListed, FS_CardinalityType
<1>2. /\ s \in [1 .. n -> L]
      /\ \A i, j \in 1 .. n : i # j => s[i] # s[j]
  BY DEF SetToSeqs
<1>3. q \in 1 .. n
  BY <1>2
<1>4. s \in Surjection(1 .. n, L)
  <2>1. s \in Injection(1 .. n, L)
    BY <1>2 DEF Injection, IsInjective
  <2>2. Cardinality(1 .. n) = n
    BY <1>1, FS_Interval
  <2> QED
    BY <1>1, <2>1, <2>2, FS_Injection
<1>5. ASSUME NEW i \in 1 .. n
      PROVE  i <= q <=> s[i] \in A
  <2>1. s[i] \in L /\ s[q] \in L /\ rs[s[i]].at \in Nat /\ rs[s[q]].at \in Nat
    BY <1>1, <1>2, <1>3
  <2>2. i <= q => rs[s[i]].at >= rs[s[q]].at
    BY <1>2, <1>3, <2>1
  <2>3. i > q => rs[s[i]].at < rs[s[q]].at
    <3> SUFFICES ASSUME i > q
                 PROVE  rs[s[i]].at < rs[s[q]].at
      OBVIOUS
    <3>1. rs[s[q]].at >= rs[s[i]].at /\ s[i] # s[q]
      BY <1>2, <1>3
    <3>2. rs[s[i]].at # rs[s[q]].at
      BY <1>1, <2>1, <3>1 DEF Alone
    <3> QED
      BY <2>1, <3>1, <3>2
  <2> QED
    BY <1>3, <2>1, <2>2, <2>3 DEF AboveIn
<1>6. f \in Bijection(1 .. q, A)
  <2>1. f \in [1 .. q -> A]
    BY <1>1, <1>3, <1>5
  <2>2. f \in Injection(1 .. q, A)
    BY <1>1, <1>2, <1>3, <2>1 DEF Injection, IsInjective
  <2>3. \A x \in A : \E i \in 1 .. q : f[i] = x
    <3> TAKE x \in A
    <3>1. x \in L
      BY DEF AboveIn
    <3>2. PICK i \in 1 .. n : s[i] = x
      BY <1>4, <3>1 DEF Surjection
    <3> QED
      BY <1>1, <1>3, <1>5, <3>2
  <2> QED
    BY <2>1, <2>2, <2>3 DEF Bijection, Surjection
<1>7. q \in Nat /\ ExistsBijection(1 .. q, A)
  BY <1>1, <1>3, <1>6 DEF ExistsBijection
<1> QED
  BY <1>7, FS_CountingElements DEF PlaceIn

\* A page is cut out of the ordered list: its rows, and the list's end if it is short.
LEMMA CutOut ==
  ASSUME NEW S, NEW s \in Seq(S), NEW p \in Nat \ {0}
  PROVE  LET from == (p - 1) * PageSize
             to == p * PageSize
         IN  /\ Cut(s, p) \in Seq(S)
             /\ \A x : x \in ToSet(Cut(s, p)) <=>
                         \E q \in 1 .. Len(s) : s[q] = x /\ from < q /\ q <= to
             /\ Len(Cut(s, p)) < PageSize => Len(s) < to
<1> DEFINE from == (p - 1) * PageSize
           to == p * PageSize
           end == IF Len(s) < to THEN Len(s) ELSE to
           c == SubSeq(s, from + 1, end)
<1>1. Len(s) \in Nat /\ \A q \in 1 .. Len(s) : s[q] \in S
  BY LenProperties, ElementOfSeq
<1>2. from \in Nat /\ to \in Nat /\ to = from + PageSize
  BY PageAssumption
<1>3. Cut(s, p) = c
  BY DEF Cut
<1> HIDE DEF from, to
<1>4. /\ c \in Seq(S)
      /\ Len(c) = IF from + 1 <= end THEN end - (from + 1) + 1 ELSE 0
      /\ \A i \in 1 .. end - (from + 1) + 1 : c[i] = s[from + 1 + i - 1]
  <2>1. \A q \in from + 1 .. end : s[q] \in S
    BY <1>1, <1>2
  <2> HIDE DEF end
  <2>2. end \in Int /\ from + 1 \in Int
    BY <1>1, <1>2 DEF end
  <2> QED
    BY <2>1, <2>2, SubSeqProperties
<1>5. end \in Nat /\ end <= Len(s) /\ end <= to /\ (end = Len(s) \/ end = to)
  BY <1>1, <1>2
<1> HIDE DEF end, c
<1>6. Len(c) = IF from < end THEN end - from ELSE 0
  BY <1>2, <1>4, <1>5
<1>7. ASSUME NEW i \in 1 .. Len(c)
      PROVE  from + i \in from + 1 .. end /\ c[i] = s[from + i]
  <2>1. from < end /\ i \in 1 .. end - from
    BY <1>2, <1>5, <1>6
  <2>2. i \in 1 .. end - (from + 1) + 1 /\ from + 1 + i - 1 = from + i
    BY <1>2, <1>5, <2>1
  <2>3. c[i] = s[from + 1 + i - 1]
    BY <1>4, <2>2
  <2> QED
    BY <1>2, <1>5, <2>1, <2>2, <2>3
<1>8. ASSUME NEW x
      PROVE  x \in ToSet(c) <=> \E q \in 1 .. Len(s) : s[q] = x /\ from < q /\ q <= to
  <2>1. ASSUME x \in ToSet(c)
        PROVE  \E q \in 1 .. Len(s) : s[q] = x /\ from < q /\ q <= to
    <3>1. PICK i \in 1 .. Len(c) : c[i] = x
      BY <1>4, <2>1, ToSetOfSeq
    <3>2. from + i \in from + 1 .. end /\ s[from + i] = x
      BY <1>7, <3>1
    <3> QED
      BY <1>1, <1>2, <1>5, <3>2
  <2>2. ASSUME NEW q \in 1 .. Len(s), s[q] = x, from < q, q <= to
        PROVE  x \in ToSet(c)
    <3>1. q <= end /\ q - from \in 1 .. Len(c) /\ from + (q - from) = q
      BY <1>1, <1>2, <1>5, <1>6, <2>2
    <3>2. c[q - from] = x
      BY <1>7, <2>2, <3>1
    <3> QED
      BY <1>4, <3>1, <3>2, ToSetOfSeq
  <2> QED
    BY <2>1, <2>2
<1>9. Len(c) < PageSize => Len(s) < to
  BY <1>1, <1>2, <1>5, <1>6, PageAssumption
<1> QED
  BY <1>3, <1>4, <1>8, <1>9 DEF from, to

\* Row i is in a set of rows exactly if its place is one of the pages after "from".
Within(rs, seen, k, from, to, i) ==
  i \in seen <=> /\ i \in ListedIn(rs, k)
                 /\ from * PageSize < PlaceIn(rs, k, i)
                 /\ PlaceIn(rs, k, i) <= to * PageSize

\* Row i is not on a page after "to".
NotBeyond(rs, k, to, i) ==
  i \in ListedIn(rs, k) => PlaceIn(rs, k, i) <= to * PageSize

\* The query's page holds the rows whose places are its own, and a short one is the last.
LEMMA PageOfPlaces ==
  ASSUME NEW rs \in Seq(Row), NEW k, NEW p \in Nat \ {0},
         NEW s \in SetToSeqs(ListedIn(rs, k)),
         \A i, j \in DOMAIN s : i < j => rs[s[i]].at >= rs[s[j]].at
  PROVE  /\ Cut(s, p) \in Seq(ListedIn(rs, k))
         /\ \A i \in DOMAIN rs : Alone(rs, i) =>
              /\ Within(rs, ToSet(Cut(s, p)), k, p - 1, p, i)
              /\ Len(Cut(s, p)) < PageSize => NotBeyond(rs, k, p, i)
<1> DEFINE L == ListedIn(rs, k)
           n == Cardinality(L)
           from == (p - 1) * PageSize
           to == p * PageSize
<1>1. IsFiniteSet(L) /\ n \in Nat
  BY RowsListed, FS_CardinalityType
<1>2. /\ s \in [1 .. n -> L]
      /\ \A i, j \in 1 .. n : i # j => s[i] # s[j]
  BY DEF SetToSeqs
<1>3. s \in Seq(L) /\ Len(s) = n
  BY <1>1, <1>2
<1>4. \A x \in L : \E q \in 1 .. n : s[q] = x
  <2>1. s \in Injection(1 .. n, L)
    BY <1>2 DEF Injection, IsInjective
  <2>2. Cardinality(1 .. n) = n
    BY <1>1, FS_Interval
  <2>3. s \in Surjection(1 .. n, L)
    BY <1>1, <2>1, <2>2, FS_Injection
  <2> QED
    BY <2>3 DEF Surjection
<1>5. /\ Cut(s, p) \in Seq(L)
      /\ \A x : x \in ToSet(Cut(s, p)) <=>
                  \E q \in 1 .. Len(s) : s[q] = x /\ from < q /\ q <= to
      /\ Len(Cut(s, p)) < PageSize => Len(s) < to
  BY <1>3, CutOut
<1>6. from \in Nat /\ to \in Nat
  BY PageAssumption
<1> HIDE DEF from, to, L, n
<1>7. ASSUME NEW i \in DOMAIN rs, Alone(rs, i)
      PROVE  \A q \in 1 .. n : s[q] = i => PlaceIn(rs, k, i) = q
  <2> SUFFICES ASSUME NEW q \in 1 .. n, s[q] = i
               PROVE  PlaceIn(rs, k, s[q]) = q
    OBVIOUS
  <2>1. q \in DOMAIN s /\ Alone(rs, s[q])
    BY <1>2, <1>7
  <2> QED
    BY <2>1, OrderIsPlace
<1>8. ASSUME NEW i \in DOMAIN rs, Alone(rs, i)
      PROVE  i \in ToSet(Cut(s, p)) <=>
               i \in L /\ from < PlaceIn(rs, k, i) /\ PlaceIn(rs, k, i) <= to
  <2>1. CASE i \in L
    <3>1. PICK q \in 1 .. n : s[q] = i
      BY <1>4, <2>1
    <3>2. PlaceIn(rs, k, i) = q
      BY <1>7, <1>8, <3>1
    <3>3. \A r \in 1 .. n : s[r] = i => r = q
      BY <1>2, <3>1
    <3> QED
      BY <1>3, <1>5, <2>1, <3>1, <3>2, <3>3
  <2>2. CASE i \notin L
    BY <1>2, <1>3, <1>5, <2>2
  <2> QED
    BY <2>1, <2>2
<1>9. ASSUME NEW i \in DOMAIN rs, Alone(rs, i), Len(Cut(s, p)) < PageSize, i \in L
      PROVE  PlaceIn(rs, k, i) <= to
  <2>1. PICK q \in 1 .. n : s[q] = i
    BY <1>4, <1>9
  <2>2. PlaceIn(rs, k, i) = q
    BY <1>7, <1>9, <2>1
  <2> QED
    BY <1>1, <1>3, <1>5, <1>6, <1>9, <2>1, <2>2
<1> QED
  BY <1>5, <1>8, <1>9 DEF Within, NotBeyond, from, to, L

-----------------------------------------------------------------------------
(* A change of the list. *)

\* The rows alone in their second, of which none at least as new has moved.
SteadyIn(rs, moved) ==
  {i \in DOMAIN rs : Alone(rs, i) /\ \A j \in moved : rs[j].at < rs[i].at}

\* Rows are never taken away and keep their second.
Grows(rs, rt) ==
  /\ DOMAIN rs \subseteq DOMAIN rt
  /\ \A i \in DOMAIN rs : rt[i].at = rs[i].at

MovedIn(rs, rt, k) == SymDiff(ListedIn(rs, k), ListedIn(rt, k))

\* The rows known to have moved, when rs has become rt.
Noted(moved, rs, rt, k) == moved \cup MovedIn(rs, rt, k)

\* Whoever stays steady was steady before, listed or not, at the same place.
LEMMA PlaceStays ==
  ASSUME NEW rs \in Seq(Row), NEW rt \in Seq(Row), Grows(rs, rt),
         NEW k, NEW moved \in SUBSET DOMAIN rs,
         NEW i \in SteadyIn(rt, Noted(moved, rs, rt, k))
  PROVE  /\ i \in ListedIn(rs, k) <=> i \in ListedIn(rt, k)
         /\ i \in DOMAIN rs =>
              i \in SteadyIn(rs, moved) /\ PlaceIn(rt, k, i) = PlaceIn(rs, k, i)
<1> DEFINE after == Noted(moved, rs, rt, k)
<1>1. /\ ListedIn(rs, k) \subseteq DOMAIN rs /\ ListedIn(rt, k) \subseteq DOMAIN rt
      /\ DOMAIN rs \subseteq DOMAIN rt
      /\ \A j \in DOMAIN rt : rt[j].at \in Nat
      /\ \A j \in DOMAIN rs : rt[j].at = rs[j].at
  BY RowsListed DEF ListedIn, Grows
<1>2. /\ i \in DOMAIN rt /\ Alone(rt, i)
      /\ \A j \in after : rt[j].at < rt[i].at
  BY DEF SteadyIn
<1>3. ASSUME NEW j \in DOMAIN rt, rt[j].at >= rt[i].at
      PROVE  j \in ListedIn(rs, k) <=> j \in ListedIn(rt, k)
  <2>1. rt[j].at \in Nat /\ rt[i].at \in Nat
    BY <1>1, <1>2
  <2>2. j \notin after
    BY <1>2, <1>3, <2>1
  <2> QED
    BY <2>2 DEF Noted, MovedIn, SymDiff
<1>4. i \in ListedIn(rs, k) <=> i \in ListedIn(rt, k)
  BY <1>1, <1>2, <1>3
<1>5. ASSUME i \in DOMAIN rs
      PROVE  i \in SteadyIn(rs, moved)
  <2>1. Alone(rs, i)
    BY <1>1, <1>2, <1>5 DEF Alone
  <2>2. \A j \in moved : rs[j].at < rs[i].at
    BY <1>1, <1>2, <1>5 DEF Noted
  <2> QED
    BY <1>5, <2>1, <2>2 DEF SteadyIn
<1>6. ASSUME i \in DOMAIN rs
      PROVE  AboveIn(rt, k, i) = AboveIn(rs, k, i)
  <2>1. ASSUME NEW j \in AboveIn(rt, k, i)
        PROVE  j \in AboveIn(rs, k, i)
    <3>1. j \in ListedIn(rt, k) /\ rt[j].at >= rt[i].at /\ j \in DOMAIN rt
      BY <1>1 DEF AboveIn
    <3>2. j \in ListedIn(rs, k)
      BY <1>3, <3>1
    <3> QED
      BY <1>1, <1>6, <3>1, <3>2 DEF AboveIn
  <2>2. ASSUME NEW j \in AboveIn(rs, k, i)
        PROVE  j \in AboveIn(rt, k, i)
    <3>1. j \in ListedIn(rs, k) /\ rs[j].at >= rs[i].at /\ j \in DOMAIN rs
      BY <1>1 DEF AboveIn
    <3>2. j \in ListedIn(rt, k)
      BY <1>1, <1>3, <1>6, <3>1
    <3> QED
      BY <1>1, <1>6, <3>1, <3>2 DEF AboveIn
  <2> QED
    BY <2>1, <2>2
<1> QED
  BY <1>4, <1>5, <1>6 DEF PlaceIn

\* Where a steady row was known to stand, it still stands; a new row that is steady is
\* not listed, so nobody misses it.
LEMMA WithinStays ==
  ASSUME NEW rs \in Seq(Row), NEW rt \in Seq(Row), Grows(rs, rt),
         NEW k, NEW moved \in SUBSET DOMAIN rs, NEW seen \in SUBSET DOMAIN rs,
         NEW from, NEW to,
         NEW i \in SteadyIn(rt, Noted(moved, rs, rt, k))
  PROVE  /\ (i \in SteadyIn(rs, moved) => Within(rs, seen, k, from, to, i))
              => Within(rt, seen, k, from, to, i)
         /\ (i \in SteadyIn(rs, moved) => NotBeyond(rs, k, to, i))
              => NotBeyond(rt, k, to, i)
<1>1. /\ i \in ListedIn(rs, k) <=> i \in ListedIn(rt, k)
      /\ i \in DOMAIN rs =>
           i \in SteadyIn(rs, moved) /\ PlaceIn(rt, k, i) = PlaceIn(rs, k, i)
  BY PlaceStays
<1>2. ListedIn(rs, k) \subseteq DOMAIN rs
  BY DEF ListedIn
<1>3. CASE i \in DOMAIN rs
  BY <1>1, <1>3 DEF Within, NotBeyond
<1>4. CASE i \notin DOMAIN rs
  <2>1. i \notin ListedIn(rt, k) /\ i \notin seen
    BY <1>1, <1>2, <1>4
  <2> QED
    BY <2>1 DEF Within, NotBeyond
<1> QED
  BY <1>3, <1>4

\* An answer that waits to be shown.
AnswerFits(rs, load) ==
  /\ ToSet(load.ids) \subseteq DOMAIN rs /\ load.moved \subseteq DOMAIN rs
  /\ \A i \in SteadyIn(rs, load.moved) :
       /\ Within(rs, ToSet(load.ids), load.keyword, load.page - 1, load.page, i)
       /\ Len(load.ids) < PageSize => NotBeyond(rs, load.keyword, load.page, i)

\* What a reader has seen who reads on.
WalkFits(rs, w) ==
  /\ w.seen \subseteq DOMAIN rs /\ w.again \subseteq DOMAIN rs /\ w.moved \subseteq DOMAIN rs
  /\ \A i \in SteadyIn(rs, w.moved) :
       /\ Within(rs, w.seen, w.keyword, 0, w.page, i)
       /\ i \notin w.again
       /\ w.ended => NotBeyond(rs, w.keyword, w.page, i)

\* r with what has moved noted.
After(r, rs, rt) == [r EXCEPT !.moved = Noted(@, rs, rt, r.keyword)]

LEMMA AnswerStaysFit ==
  ASSUME NEW rs \in Seq(Row), NEW rt \in Seq(Row), Grows(rs, rt),
         NEW load \in Load, AnswerFits(rs, load)
  PROVE  AnswerFits(rt, After(load, rs, rt))
<1> DEFINE k == load.keyword
           ids == ToSet(load.ids)
           after == Noted(load.moved, rs, rt, k)
<1>1. /\ After(load, rs, rt).ids = load.ids /\ After(load, rs, rt).keyword = k
      /\ After(load, rs, rt).page = load.page /\ After(load, rs, rt).moved = after
  BY DEF After, Load
<1>2. /\ ids \subseteq DOMAIN rs /\ load.moved \subseteq DOMAIN rs
      /\ \A i \in SteadyIn(rs, load.moved) :
           /\ Within(rs, ids, k, load.page - 1, load.page, i)
           /\ Len(load.ids) < PageSize => NotBeyond(rs, k, load.page, i)
  BY DEF AnswerFits
<1>3. ids \subseteq DOMAIN rt /\ after \subseteq DOMAIN rt
  <2>1. ids \subseteq DOMAIN rt
    BY <1>2 DEF Grows
  <2>2. after \subseteq DOMAIN rt
    BY <1>2 DEF Grows, Noted, MovedIn, SymDiff, ListedIn
  <2> QED
    BY <2>1, <2>2
<1>4. ASSUME NEW i \in SteadyIn(rt, after)
      PROVE  /\ Within(rt, ids, k, load.page - 1, load.page, i)
             /\ Len(load.ids) < PageSize => NotBeyond(rt, k, load.page, i)
  <2>1. /\ (i \in SteadyIn(rs, load.moved) => Within(rs, ids, k, load.page - 1, load.page, i))
             => Within(rt, ids, k, load.page - 1, load.page, i)
        /\ (i \in SteadyIn(rs, load.moved) => NotBeyond(rs, k, load.page, i))
             => NotBeyond(rt, k, load.page, i)
    <3>1. load.moved \in SUBSET DOMAIN rs /\ ids \in SUBSET DOMAIN rs
      BY <1>2
    <3> HIDE DEF ids
    <3> QED
      BY <1>4, <3>1, WithinStays
  <2> QED
    BY <1>2, <2>1
<1> QED
  BY <1>1, <1>3, <1>4 DEF AnswerFits

LEMMA WalkStaysFit ==
  ASSUME NEW rs \in Seq(Row), NEW rt \in Seq(Row), Grows(rs, rt),
         NEW w \in Walk, WalkFits(rs, w)
  PROVE  WalkFits(rt, After(w, rs, rt))
<1> DEFINE k == w.keyword
           after == Noted(w.moved, rs, rt, k)
<1>1. /\ After(w, rs, rt).seen = w.seen /\ After(w, rs, rt).keyword = k
      /\ After(w, rs, rt).page = w.page /\ After(w, rs, rt).moved = after
      /\ After(w, rs, rt).again = w.again /\ After(w, rs, rt).ended = w.ended
  BY DEF After, Walk
<1>2. /\ w.seen \subseteq DOMAIN rs /\ w.again \subseteq DOMAIN rs /\ w.moved \subseteq DOMAIN rs
      /\ \A i \in SteadyIn(rs, w.moved) :
           /\ Within(rs, w.seen, k, 0, w.page, i)
           /\ i \notin w.again
           /\ w.ended => NotBeyond(rs, k, w.page, i)
  BY DEF WalkFits
<1>3. w.seen \subseteq DOMAIN rt /\ w.again \subseteq DOMAIN rt /\ after \subseteq DOMAIN rt
  <2>1. w.seen \subseteq DOMAIN rt /\ w.again \subseteq DOMAIN rt
    BY <1>2 DEF Grows
  <2>2. after \subseteq DOMAIN rt
    BY <1>2 DEF Grows, Noted, MovedIn, SymDiff, ListedIn
  <2> QED
    BY <2>1, <2>2
<1>4. ASSUME NEW i \in SteadyIn(rt, after)
      PROVE  /\ Within(rt, w.seen, k, 0, w.page, i)
             /\ i \notin w.again
             /\ w.ended => NotBeyond(rt, k, w.page, i)
  <2>1. /\ (i \in SteadyIn(rs, w.moved) => Within(rs, w.seen, k, 0, w.page, i))
             => Within(rt, w.seen, k, 0, w.page, i)
        /\ (i \in SteadyIn(rs, w.moved) => NotBeyond(rs, k, w.page, i))
             => NotBeyond(rt, k, w.page, i)
    <3>1. w.moved \in SUBSET DOMAIN rs /\ w.seen \in SUBSET DOMAIN rs
      BY <1>2
    <3> QED
      BY <1>4, <3>1, WithinStays
  <2>2. i \in DOMAIN rs => i \in SteadyIn(rs, w.moved)
    BY <1>2, <1>4, PlaceStays
  <2> QED
    BY <1>2, <2>1, <2>2
<1> QED
  BY <1>1, <1>3, <1>4 DEF WalkFits

-----------------------------------------------------------------------------
(* A page is shown: the reader reads on. *)

LEMMA PlacePositive ==
  ASSUME NEW rs \in Seq(Row), NEW k, NEW i \in ListedIn(rs, k)
  PROVE  /\ PlaceIn(rs, k, i) \in Nat
         /\ 0 * PageSize < PlaceIn(rs, k, i)
<1>1. AboveIn(rs, k, i) \subseteq ListedIn(rs, k)
  BY DEF AboveIn
<1>2. IsFiniteSet(AboveIn(rs, k, i)) /\ PlaceIn(rs, k, i) \in Nat
  BY <1>1, RowsListed, FS_Subset, FS_CardinalityType DEF PlaceIn
<1>3. i \in AboveIn(rs, k, i)
  <2>1. rs[i].at \in Nat
    BY RowsListed DEF ListedIn
  <2> QED
    BY <2>1 DEF AboveIn
<1>4. PlaceIn(rs, k, i) # 0
  BY <1>2, <1>3, FS_EmptySet DEF PlaceIn
<1>5. 0 * PageSize = 0
  BY PageAssumption
<1> QED
  BY <1>2, <1>4, <1>5

LEMMA WithinJoins ==
  ASSUME NEW rs \in Seq(Row), NEW k, NEW p \in Nat, NEW i, NEW a, NEW b,
         Within(rs, a, k, 0, p, i), Within(rs, b, k, p, p + 1, i)
  PROVE  Within(rs, a \cup b, k, 0, p + 1, i) /\ i \notin a \cap b
<1> DEFINE place == PlaceIn(rs, k, i)
           here == p * PageSize
           next == (p + 1) * PageSize
<1>1. place \in Nat
  <2>1. AboveIn(rs, k, i) \subseteq ListedIn(rs, k)
    BY DEF AboveIn
  <2> QED
    BY <2>1, RowsListed, FS_Subset, FS_CardinalityType DEF PlaceIn
<1>2. here \in Nat /\ next = here + PageSize /\ 0 * PageSize = 0 /\ PageSize \in Nat
  BY PageAssumption
<1>3. /\ i \in a <=> i \in ListedIn(rs, k) /\ 0 * PageSize < place /\ place <= here
      /\ i \in b <=> i \in ListedIn(rs, k) /\ here < place /\ place <= next
  BY DEF Within
<1> HIDE DEF place, here, next
<1>4. /\ i \in a \cup b <=> i \in ListedIn(rs, k) /\ 0 * PageSize < place /\ place <= next
      /\ i \notin a \cap b
  BY <1>1, <1>2, <1>3
<1> QED
  BY <1>4 DEF Within, place, next

\* Nobody reads on, or what has been seen fits.
WalkInv == IF walk.page = 0 THEN walk = NoWalk ELSE WalkFits(rows, walk)

LEMMA ReadingFits ==
  ASSUME TypeOK, WalkInv, NEW load \in Load, AnswerFits(rows, load)
  PROVE  /\ Reading(load) \in Walk
         /\ IF Reading(load).page = 0 THEN Reading(load) = NoWalk
            ELSE WalkFits(rows, Reading(load))
<1> DEFINE k == load.keyword
           ids == ToSet(load.ids)
           short == Len(load.ids) < PageSize
           first == load.page = 1
           on == load.page = walk.page + 1 /\ k = walk.keyword /\ ~walk.ended
           w == IF first THEN [NoWalk EXCEPT !.keyword = k] ELSE walk
           r == [w EXCEPT !.page = load.page,
                          !.seen = @ \cup ids,
                          !.again = @ \cup (w.seen \cap ids),
                          !.ended = short,
                          !.moved = @ \cup load.moved]
<1>1. /\ rows \in Seq(Row) /\ Len(rows) \in Nat /\ Len(rows) <= MaxRows /\ DOMAIN rows = 1 .. Len(rows)
      /\ walk \in Walk
  BY RowsListed DEF TypeOK
<1>2. /\ k \in Keywords /\ load.page \in 1 .. MaxPage /\ load.ids \in Seq(Ids)
      /\ load.moved \in SUBSET Ids
  BY DEF Load, Answers
<1>3. ids \in SUBSET Ids
  BY <1>2, ToSetOfSeq
<1>4. NoWalk \in Walk /\ NoWalk.page = 0
  BY KeywordAssumption, PageAssumption DEF NoWalk, Walk
<1>5. /\ ids \subseteq DOMAIN rows /\ load.moved \subseteq DOMAIN rows
      /\ \A i \in SteadyIn(rows, load.moved) :
           /\ Within(rows, ids, k, load.page - 1, load.page, i)
           /\ short => NotBeyond(rows, k, load.page, i)
  BY DEF AnswerFits
<1>9. short \in BOOLEAN
  OBVIOUS
<1>6. CASE ~(first \/ on)
  BY <1>4, <1>6 DEF Reading
<1>7. ASSUME first \/ on
      PROVE  /\ w \in Walk /\ Reading(load) = r /\ r \in Walk
             /\ r.page = load.page /\ r.keyword = w.keyword /\ r.seen = w.seen \cup ids
             /\ r.again = w.again \cup (w.seen \cap ids) /\ r.ended = short
             /\ r.moved = w.moved \cup load.moved
             /\ r.page # 0
  <2>1. w \in Walk
    BY <1>1, <1>2, <1>4 DEF Walk
  <2>2. Reading(load) = r
    BY <1>7 DEF Reading
  <2>3. load.page \in 0 .. MaxPage /\ load.page # 0
    BY <1>2, PageAssumption
  <2> HIDE DEF w, ids, short
  <2>4. load.moved \in SUBSET Ids /\ ids \in SUBSET Ids /\ short \in BOOLEAN
    BY <1>2, <1>3, <1>9
  <2> HIDE DEF first, on
  <2>5. /\ r \in Walk
        /\ r.page = load.page /\ r.keyword = w.keyword /\ r.seen = w.seen \cup ids
        /\ r.again = w.again \cup (w.seen \cap ids) /\ r.ended = short
        /\ r.moved = w.moved \cup load.moved
    BY <2>1, <2>3, <2>4 DEF Walk
  <2> HIDE DEF r
  <2> QED
    BY <2>1, <2>2, <2>3, <2>5
<1>8. ASSUME first \/ on
      PROVE  WalkFits(rows, r)
  <2>1. w.keyword = k /\ w.seen \subseteq DOMAIN rows /\ w.again \subseteq DOMAIN rows
        /\ w.moved \subseteq DOMAIN rows
    <3>1. CASE first
      BY <3>1 DEF NoWalk
    <3>2. CASE ~first
      BY <1>8, <3>2, <1>1, <1>2, PageAssumption DEF WalkInv, WalkFits, Walk
    <3> QED
      BY <3>1, <3>2
  <2>2. ASSUME NEW i \in SteadyIn(rows, w.moved \cup load.moved)
        PROVE  /\ Within(rows, w.seen \cup ids, k, 0, load.page, i)
               /\ i \notin w.again /\ i \notin w.seen \cap ids
               /\ short => NotBeyond(rows, k, load.page, i)
    <3>1. i \in SteadyIn(rows, w.moved) /\ i \in SteadyIn(rows, load.moved)
      BY <2>2 DEF SteadyIn
    <3>2. /\ Within(rows, ids, k, load.page - 1, load.page, i)
          /\ short => NotBeyond(rows, k, load.page, i)
      BY <1>5, <3>1
    <3>3. CASE first
      <4>1. w.seen = {} /\ w.again = {}
        BY <3>3 DEF NoWalk
      <4>2. {} \cup ids = ids
        OBVIOUS
      <4>3. load.page - 1 = 0
        BY <3>3
      <4> HIDE DEF w, k, ids, short
      <4> QED
        BY <3>2, <4>1, <4>2, <4>3
    <3>4. CASE ~first
      <4>1. w = walk /\ walk.keyword = k /\ load.page = walk.page + 1 /\ on
        BY <1>8, <3>4
      <4>2. walk.page \in Nat /\ walk.page # 0 /\ load.page - 1 = walk.page
        BY <1>1, <1>2, <3>4, <4>1, PageAssumption DEF Walk
      <4>3. Within(rows, walk.seen, k, 0, walk.page, i) /\ i \notin walk.again
        BY <3>1, <4>1, <4>2 DEF WalkInv, WalkFits
      <4>4. Within(rows, ids, k, walk.page, walk.page + 1, i)
        BY <3>2, <4>1, <4>2
      <4> HIDE DEF w, k, ids, short
      <4>5. Within(rows, walk.seen \cup ids, k, 0, walk.page + 1, i) /\ i \notin walk.seen \cap ids
        BY <1>1, <4>2, <4>3, <4>4, WithinJoins
      <4> QED
        BY <3>2, <4>1, <4>3, <4>5
    <3> QED
      BY <3>3, <3>4
  <2> HIDE DEF w, k, ids, short, r
  <2>3. /\ r.page = load.page /\ r.keyword = k /\ r.seen = w.seen \cup ids
        /\ r.again = w.again \cup (w.seen \cap ids) /\ r.ended = short
        /\ r.moved = w.moved \cup load.moved
    BY <1>7, <1>8, <2>1
  <2>4. ids \subseteq DOMAIN rows /\ load.moved \subseteq DOMAIN rows
    BY <1>5
  <2>5. /\ r.seen \subseteq DOMAIN rows /\ r.again \subseteq DOMAIN rows
        /\ r.moved \subseteq DOMAIN rows
    BY <2>1, <2>3, <2>4
  <2> QED
    BY <2>2, <2>3, <2>5 DEF WalkFits
<1> QED
  BY <1>6, <1>7, <1>8

-----------------------------------------------------------------------------
(* The invariant, and the steps. *)

\* A row is no newer than as if every row had come in a second of its own, so the
\* bound on the rows bounds the seconds.
RowsOrdered == \A i \in DOMAIN rows : rows[i].at <= i

AnswersFit ==
  \A l \in DOMAIN loads :
    IF loads[l].served THEN AnswerFits(rows, loads[l]) ELSE loads[l].moved = {}

\* The last call is for the page and the keyword the browser is at.
LatestInv ==
  \A l \in DOMAIN loads :
    loads[l].latest => loads[l].page = page /\ loads[l].keyword = keyword

ListInv ==
  /\ TypeOK /\ RowsOrdered
  /\ AnswersFit /\ WalkInv
  /\ LatestInv /\ LastCallIsShown

LEMMA ListTypes ==
  ASSUME TypeOK
  PROVE  /\ rows \in Seq(Row) /\ Len(rows) \in Nat /\ DOMAIN rows = 1 .. Len(rows)
         /\ \A i \in DOMAIN rows : rows[i] \in Row /\ rows[i].at \in Nat
         /\ loads \in Seq(Load) /\ Len(loads) \in Nat /\ DOMAIN loads = 1 .. Len(loads)
         /\ \A l \in DOMAIN loads : loads[l] \in Load
<1>1. rows \in Seq(Row) /\ loads \in Seq(Load)
  BY DEF TypeOK
<1>2. /\ Len(rows) \in Nat /\ DOMAIN rows = 1 .. Len(rows)
      /\ \A i \in DOMAIN rows : rows[i] \in Row /\ rows[i].at \in Nat
  BY <1>1, RowsListed
<1>3. /\ Len(loads) \in Nat /\ DOMAIN loads = 1 .. Len(loads)
      /\ \A l \in DOMAIN loads : loads[l] \in Load
  BY <1>1, LenProperties, ElementOfSeq
<1> QED
  BY <1>1, <1>2, <1>3

LEMMA InitList ==
  ASSUME Init
  PROVE  ListInv
<1>1. Call(1, Everything) \in Load
  BY PageAssumption, KeywordAssumption DEF Call, Load, Answers
<1>2. TypeOK
  <2>1. /\ rows \in Seq(Row) /\ Len(rows) <= MaxRows
        /\ page \in 1 .. MaxPage /\ keyword \in Keywords
    BY PageAssumption, BoundsAssumption, KeywordAssumption DEF Init
  <2>2. loads \in Seq(Load) /\ Len(loads) <= MaxLoads
    BY <1>1, BoundsAssumption DEF Init
  <2>3. shown \in Shown
    BY DEF Init, Shown
  <2>4. walk \in Walk
    BY PageAssumption, KeywordAssumption DEF Init, NoWalk, Walk
  <2> QED
    BY <2>1, <2>2, <2>3, <2>4 DEF TypeOK
<1>3. RowsOrdered
  BY DEF Init, RowsOrdered
<1>4. AnswersFit /\ LatestInv
  BY DEF Init, AnswersFit, LatestInv, Call
<1>5. WalkInv /\ LastCallIsShown
  BY DEF Init, WalkInv, LastCallIsShown, NoWalk
<1> QED
  BY <1>2, <1>3, <1>4, <1>5 DEF ListInv

LEMMA ChangeKeeps ==
  ASSUME ListInv, NEW rt \in Seq(Row), Len(rt) <= MaxRows, Grows(rows, rt),
         \A i \in DOMAIN rt : rt[i].at <= i, Change(rt)
  PROVE  ListInv'
<1>1. /\ rows' = rt /\ page' = page /\ keyword' = keyword /\ shown' = shown
      /\ loads' = [l \in DOMAIN loads |->
                     IF loads[l].served THEN After(loads[l], rows, rt) ELSE loads[l]]
      /\ walk' = IF walk.page = 0 THEN walk ELSE After(walk, rows, rt)
  BY DEF Change, Noting, After, Noted, MovedIn, Listed
<1>2. /\ rows \in Seq(Row) /\ Len(rows) \in Nat /\ DOMAIN rows = 1 .. Len(rows)
      /\ loads \in Seq(Load) /\ Len(loads) \in Nat /\ DOMAIN loads = 1 .. Len(loads)
      /\ \A l \in DOMAIN loads : loads[l] \in Load
      /\ Len(rt) \in Nat /\ DOMAIN rt = 1 .. Len(rt)
      /\ TypeOK
  BY ListTypes, LenProperties DEF ListInv
<1>3. \A k : MovedIn(rows, rt, k) \subseteq Ids
  <2>1. DOMAIN rows \subseteq Ids /\ DOMAIN rt \subseteq Ids
    BY <1>2, BoundsAssumption DEF TypeOK, Ids
  <2> QED
    BY <2>1 DEF MovedIn, SymDiff, ListedIn
<1>4. ASSUME NEW load \in Load
      PROVE  /\ After(load, rows, rt) \in Load
             /\ After(load, rows, rt).served = load.served
             /\ After(load, rows, rt).latest = load.latest
             /\ After(load, rows, rt).page = load.page
             /\ After(load, rows, rt).keyword = load.keyword
  BY <1>3 DEF After, Noted, Load
<1>5. /\ walk \in Walk
      /\ After(walk, rows, rt) \in Walk
      /\ After(walk, rows, rt).page = walk.page
  BY <1>2, <1>3 DEF TypeOK, After, Noted, Walk
<1>6. \A l \in DOMAIN loads : loads'[l] \in Load
  BY <1>1, <1>2, <1>4
<1>7. DOMAIN loads' = DOMAIN loads /\ loads' \in Seq(Load) /\ Len(loads') = Len(loads)
  <2>1. loads' \in [1 .. Len(loads) -> Load]
    BY <1>1, <1>2, <1>6
  <2> QED
    BY <1>2, <2>1
<1>8. TypeOK'
  BY <1>1, <1>2, <1>5, <1>7 DEF TypeOK
<1>9. RowsOrdered'
  BY <1>1 DEF RowsOrdered
<1>10. AnswersFit'
  <2> SUFFICES ASSUME NEW l \in DOMAIN loads
               PROVE  IF loads'[l].served THEN AnswerFits(rt, loads'[l]) ELSE loads'[l].moved = {}
    BY <1>1, <1>7 DEF AnswersFit
  <2>1. CASE loads[l].served
    <3>1. AnswerFits(rows, loads[l])
      BY <2>1 DEF ListInv, AnswersFit
    <3>2. loads'[l] = After(loads[l], rows, rt) /\ loads'[l].served
      BY <1>1, <1>2, <1>4, <2>1
    <3>3. AnswerFits(rt, After(loads[l], rows, rt))
      BY <1>2, <3>1, AnswerStaysFit
    <3> QED
      BY <3>2, <3>3
  <2>2. CASE ~loads[l].served
    BY <1>1, <2>2 DEF ListInv, AnswersFit
  <2> QED
    BY <2>1, <2>2
<1>11. WalkInv'
  <2>1. CASE walk.page = 0
    BY <1>1, <2>1 DEF ListInv, WalkInv
  <2>2. CASE walk.page # 0
    <3>1. WalkFits(rows, walk)
      BY <2>2 DEF ListInv, WalkInv
    <3>2. WalkFits(rt, After(walk, rows, rt))
      BY <1>2, <1>5, <3>1, WalkStaysFit
    <3> QED
      BY <1>1, <1>5, <2>2, <3>2 DEF WalkInv
  <2> QED
    BY <2>1, <2>2
<1>12. LatestInv' /\ LastCallIsShown'
  <2>1. \A l \in DOMAIN loads : /\ loads'[l].latest = loads[l].latest
                                /\ loads'[l].page = loads[l].page
                                /\ loads'[l].keyword = loads[l].keyword
    BY <1>1, <1>2, <1>4
  <2> QED
    BY <1>1, <1>7, <2>1 DEF ListInv, LatestInv, LastCallIsShown
<1> QED
  BY <1>8, <1>9, <1>10, <1>11, <1>12 DEF ListInv

LEMMA UploadKeeps ==
  ASSUME ListInv, NEW n \in Names, NEW h \in Hashes, FileUpload(n, h)
  PROVE  ListInv'
<1>1. /\ rows \in Seq(Row) /\ Len(rows) \in Nat /\ DOMAIN rows = 1 .. Len(rows)
      /\ \A i \in DOMAIN rows : rows[i] \in Row /\ rows[i].at \in Nat
  BY ListTypes DEF ListInv
<1>2. PICK at : /\ at \in (IF rows = <<>> THEN {1} ELSE {Last(rows).at, Last(rows).at + 1})
                /\ Change(Append(rows, [name |-> n, hash |-> h, at |-> at, live |-> TRUE]))
                /\ Len(rows) < MaxRows
  BY DEF FileUpload
<1>3. at \in 1 .. Len(rows) + 1
  <2>1. CASE rows = <<>>
    BY <1>1, <1>2, <2>1
  <2>2. CASE rows # <<>>
    <3>1. Len(rows) \in DOMAIN rows /\ Last(rows) = rows[Len(rows)]
      BY <1>1, <2>2, EmptySeq DEF Last
    <3>2. Last(rows).at \in 1 .. Len(rows)
      BY <1>1, <3>1, BoundsAssumption DEF ListInv, RowsOrdered, Row
    <3> QED
      BY <1>1, <1>2, <2>2, <3>2
  <2> QED
    BY <2>1, <2>2
<1> DEFINE r == [name |-> n, hash |-> h, at |-> at, live |-> TRUE]
<1>4. r \in Row /\ r.at = at
  BY <1>1, <1>2, <1>3, BoundsAssumption DEF Row
<1> HIDE DEF r
<1>5. PICK rt : rt = Append(rows, r)
  OBVIOUS
<1>6. /\ rt \in Seq(Row) /\ Len(rt) = Len(rows) + 1 /\ DOMAIN rt = 1 .. Len(rows) + 1
      /\ \A i \in 1 .. Len(rows) : rt[i] = rows[i]
      /\ rt[Len(rows) + 1] = r
  BY <1>1, <1>4, <1>5, AppendProperties, LenProperties
<1>7. Grows(rows, rt)
  BY <1>1, <1>6 DEF Grows
<1>8. \A i \in DOMAIN rt : rt[i].at <= i
  BY <1>1, <1>3, <1>4, <1>6 DEF ListInv, RowsOrdered
<1>9. Len(rt) <= MaxRows
  BY <1>1, <1>2, <1>6, BoundsAssumption
<1>10. Change(rt)
  BY <1>2, <1>5 DEF r
<1> QED
  BY <1>6, <1>7, <1>8, <1>9, <1>10, ChangeKeeps

\* Delete and rename: some rows take another form, none another second.
LEMMA RewriteKeeps ==
  ASSUME ListInv, NEW rt, DOMAIN rt = DOMAIN rows,
         \A i \in DOMAIN rows : rt[i] \in Row /\ rt[i].at = rows[i].at,
         rt = [i \in DOMAIN rows |-> rt[i]],
         Change(rt)
  PROVE  ListInv'
<1>1. /\ rows \in Seq(Row) /\ Len(rows) \in Nat /\ DOMAIN rows = 1 .. Len(rows)
  BY ListTypes DEF ListInv
<1>2. rt \in Seq(Row) /\ Len(rt) = Len(rows)
  <2>1. rt \in [1 .. Len(rows) -> Row]
    BY <1>1
  <2> QED
    BY <1>1, <2>1
<1>3. Len(rt) <= MaxRows
  BY <1>2 DEF ListInv, TypeOK
<1>4. Grows(rows, rt)
  BY DEF Grows
<1>5. \A i \in DOMAIN rt : rt[i].at <= i
  BY DEF ListInv, RowsOrdered
<1> QED
  BY <1>2, <1>3, <1>4, <1>5, ChangeKeeps

\* What delete and rename make of the rows.
Deleted(n, h) ==
  [i \in DOMAIN rows |-> IF i \in Matches(n, h) THEN [rows[i] EXCEPT !.live = FALSE] ELSE rows[i]]

Renamed(old, new, h) ==
  [i \in DOMAIN rows |-> IF i \in Matches(old, h) THEN [rows[i] EXCEPT !.name = new] ELSE rows[i]]

LEMMA DeleteKeeps ==
  ASSUME ListInv, NEW n \in Names, NEW h \in Hashes, FileDelete(n, h)
  PROVE  ListInv'
<1>1. \A i \in DOMAIN rows : rows[i] \in Row
  BY ListTypes DEF ListInv
<1>2. Change(Deleted(n, h))
  BY DEF FileDelete, Deleted
<1>3. PICK rt : rt = Deleted(n, h)
  OBVIOUS
<1>4. /\ DOMAIN rt = DOMAIN rows /\ rt = [i \in DOMAIN rows |-> rt[i]]
      /\ \A i \in DOMAIN rows : rt[i] \in Row /\ rt[i].at = rows[i].at
  <2>1. DOMAIN rt = DOMAIN rows /\ rt = [i \in DOMAIN rows |-> rt[i]]
    BY <1>3 DEF Deleted
  <2>2. ASSUME NEW i \in DOMAIN rows
        PROVE  rt[i] \in Row /\ rt[i].at = rows[i].at
    <3>1. rt[i] = IF i \in Matches(n, h) THEN [rows[i] EXCEPT !.live = FALSE] ELSE rows[i]
      BY <1>3 DEF Deleted
    <3> QED
      BY <1>1, <3>1 DEF Row
  <2> QED
    BY <2>1, <2>2
<1>5. Change(rt)
  BY <1>2, <1>3
<1> QED
  BY <1>4, <1>5, RewriteKeeps

LEMMA RenameKeeps ==
  ASSUME ListInv, NEW old \in Names, NEW new \in Names, NEW h \in Hashes,
         FileRename(old, new, h)
  PROVE  ListInv'
<1>1. \A i \in DOMAIN rows : rows[i] \in Row
  BY ListTypes DEF ListInv
<1>2. Change(Renamed(old, new, h))
  BY DEF FileRename, Renamed
<1>3. PICK rt : rt = Renamed(old, new, h)
  OBVIOUS
<1>4. /\ DOMAIN rt = DOMAIN rows /\ rt = [i \in DOMAIN rows |-> rt[i]]
      /\ \A i \in DOMAIN rows : rt[i] \in Row /\ rt[i].at = rows[i].at
  <2>1. DOMAIN rt = DOMAIN rows /\ rt = [i \in DOMAIN rows |-> rt[i]]
    BY <1>3 DEF Renamed
  <2>2. ASSUME NEW i \in DOMAIN rows
        PROVE  rt[i] \in Row /\ rt[i].at = rows[i].at
    <3>1. rt[i] = IF i \in Matches(old, h) THEN [rows[i] EXCEPT !.name = new] ELSE rows[i]
      BY <1>3 DEF Renamed
    <3> QED
      BY <1>1, <3>1 DEF Row
  <2> QED
    BY <2>1, <2>2
<1>5. Change(rt)
  BY <1>2, <1>3
<1> QED
  BY <1>4, <1>5, RewriteKeeps

LEMMA QueryKeeps ==
  ASSUME ListInv, NEW l \in DOMAIN loads, FileQuery(l)
  PROVE  ListInv'
<1>1. /\ rows \in Seq(Row) /\ Len(rows) \in Nat /\ DOMAIN rows = 1 .. Len(rows)
      /\ loads \in Seq(Load) /\ Len(loads) \in Nat /\ DOMAIN loads = 1 .. Len(loads)
      /\ \A m \in DOMAIN loads : loads[m] \in Load
      /\ TypeOK
  BY ListTypes DEF ListInv
<1>2. PICK p, k : p = loads[l].page /\ k = loads[l].keyword
  OBVIOUS
<1>3. PICK ids \in Query(p, k) :
        loads' = [loads EXCEPT ![l].served = TRUE, ![l].ids = ids]
  BY <1>2 DEF FileQuery
<1>4. PICK s \in SetToSeqs(Listed(k)) : InOrder(s) /\ ids = Cut(s, p)
  BY <1>3 DEF Query
<1>5. p \in Nat \ {0} /\ loads[l] \in Load
  BY <1>1, <1>2, PageAssumption DEF Load
<1>6. /\ ids \in Seq(ListedIn(rows, k))
      /\ \A i \in DOMAIN rows : Alone(rows, i) =>
           /\ Within(rows, ToSet(ids), k, p - 1, p, i)
           /\ Len(ids) < PageSize => NotBeyond(rows, k, p, i)
  <2>1. PICK rs : rs = rows
    OBVIOUS
  <2>2. \A i, j \in DOMAIN s : i < j => rs[s[i]].at >= rs[s[j]].at
    BY <1>4, <2>1 DEF InOrder
  <2>3. rs \in Seq(Row) /\ s \in SetToSeqs(ListedIn(rs, k))
    BY <1>1, <1>4, <2>1 DEF Listed
  <2>4. /\ ids \in Seq(ListedIn(rs, k))
        /\ \A i \in DOMAIN rs : Alone(rs, i) =>
             /\ Within(rs, ToSet(ids), k, p - 1, p, i)
             /\ Len(ids) < PageSize => NotBeyond(rs, k, p, i)
    BY <1>4, <1>5, <2>2, <2>3, PageOfPlaces
  <2> QED
    BY <2>1, <2>4
<1>7. ListedIn(rows, k) \subseteq DOMAIN rows /\ DOMAIN rows \subseteq Ids
  BY <1>1, BoundsAssumption DEF TypeOK, Ids, ListedIn
<1>8. ids \in Answers /\ ToSet(ids) \subseteq DOMAIN rows
  <2>1. ids \in Seq(Ids)
    BY <1>6, <1>7, SeqMonotonic
  <2>2. ToSet(ids) \subseteq ListedIn(rows, k)
    BY <1>6, ToSetOfSeq
  <2> QED
    BY <1>7, <2>1, <2>2 DEF Answers
<1>9. /\ DOMAIN loads' = DOMAIN loads
      /\ \A m \in DOMAIN loads : m # l => loads'[m] = loads[m]
      /\ loads'[l] \in Load
      /\ loads'[l].served /\ loads'[l].ids = ids
      /\ loads'[l].page = p /\ loads'[l].keyword = k
      /\ loads'[l].moved = loads[l].moved /\ loads'[l].latest = loads[l].latest
  BY <1>1, <1>2, <1>3, <1>5, <1>8 DEF Load
<1>10. loads[l].moved = {}
  BY DEF FileQuery, ListInv, AnswersFit
<1>11. AnswerFits(rows, loads'[l])
  <2>1. \A i \in SteadyIn(rows, {}) : i \in DOMAIN rows /\ Alone(rows, i)
    BY DEF SteadyIn
  <2> QED
    BY <1>6, <1>8, <1>9, <1>10, <2>1 DEF AnswerFits
<1>12. loads' \in Seq(Load) /\ Len(loads') = Len(loads)
  <2>1. loads' = [m \in DOMAIN loads |-> loads'[m]]
    BY <1>3
  <2>2. loads' \in [1 .. Len(loads) -> Load]
    BY <1>1, <1>9, <2>1
  <2> QED
    BY <1>1, <2>2
<1>13. rows' = rows /\ page' = page /\ keyword' = keyword /\ shown' = shown /\ walk' = walk
  BY DEF FileQuery
<1>14. TypeOK' /\ RowsOrdered'
  BY <1>12, <1>13 DEF ListInv, TypeOK, RowsOrdered
<1>15. AnswersFit'
  BY <1>9, <1>11, <1>13 DEF ListInv, AnswersFit
<1>16. WalkInv' /\ LastCallIsShown'
  BY <1>13 DEF ListInv, WalkInv, LastCallIsShown
<1>17. LatestInv'
  BY <1>2, <1>9, <1>13 DEF ListInv, LatestInv
<1> QED
  BY <1>14, <1>15, <1>16, <1>17 DEF ListInv

\* Two calls that differ in being the latest at most.
SameAnswer(a, b) ==
  /\ a.served = b.served /\ a.ids = b.ids /\ a.moved = b.moved
  /\ a.page = b.page /\ a.keyword = b.keyword

\* The page asks for a list: what was asked for before is no longer the latest.
LEMMA StartKeeps ==
  ASSUME ListInv, page' \in 1 .. MaxPage, keyword' \in Keywords, Start(page', keyword')
  PROVE  ListInv'
<1>1. /\ loads \in Seq(Load) /\ Len(loads) \in Nat /\ DOMAIN loads = 1 .. Len(loads)
      /\ \A m \in DOMAIN loads : loads[m] \in Load
      /\ TypeOK
  BY ListTypes DEF ListInv
<1>2. PICK p \in 1 .. MaxPage, k \in Keywords : p = page' /\ k = keyword'
  OBVIOUS
<1>3. PICK old, c : /\ old = [l \in DOMAIN loads |-> [loads[l] EXCEPT !.latest = FALSE]]
                    /\ c = Call(p, k)
  OBVIOUS
<1>4. /\ Len(loads) < MaxLoads /\ loads' = Append(old, c)
      /\ shown' = [shown EXCEPT !.last = <<>>]
      /\ rows' = rows /\ walk' = walk
  BY <1>2, <1>3 DEF Start
<1>5. /\ c \in Load /\ ~c.served /\ c.moved = {} /\ c.page = p /\ c.keyword = k
  BY <1>2, <1>3 DEF Call, Load, Answers
<1>6. /\ DOMAIN old = DOMAIN loads
      /\ \A l \in DOMAIN loads : old[l] \in Load /\ ~old[l].latest /\ SameAnswer(old[l], loads[l])
  BY <1>1, <1>3 DEF Load, SameAnswer
<1>7. old \in Seq(Load) /\ Len(old) = Len(loads)
  <2>1. old \in [1 .. Len(loads) -> Load]
    BY <1>1, <1>3, <1>6
  <2> QED
    BY <1>1, <2>1
<1>8. /\ loads' \in Seq(Load) /\ Len(loads') = Len(loads) + 1 /\ DOMAIN loads' = 1 .. Len(loads) + 1
      /\ \A l \in DOMAIN loads : loads'[l] = old[l]
      /\ loads'[Len(loads) + 1] = c
  BY <1>1, <1>4, <1>5, <1>7, AppendProperties, LenProperties
<1>9. TypeOK'
  <2>1. shown' \in Shown
    BY <1>1, <1>4 DEF TypeOK, Shown
  <2>2. Len(loads') <= MaxLoads
    BY <1>1, <1>4, <1>8, BoundsAssumption
  <2> QED
    BY <1>1, <1>4, <1>8, <2>1, <2>2 DEF TypeOK
<1>10. AnswersFit'
  <2> SUFFICES ASSUME NEW l \in 1 .. Len(loads) + 1
               PROVE  IF loads'[l].served THEN AnswerFits(rows, loads'[l]) ELSE loads'[l].moved = {}
    BY <1>4, <1>8 DEF AnswersFit
  <2>1. CASE l = Len(loads) + 1
    BY <1>5, <1>8, <2>1
  <2>2. CASE l \in DOMAIN loads
    <3>1. /\ loads'[l].served = loads[l].served /\ loads'[l].ids = loads[l].ids
          /\ loads'[l].page = loads[l].page /\ loads'[l].keyword = loads[l].keyword
          /\ loads'[l].moved = loads[l].moved
      BY <1>6, <1>8, <2>2 DEF SameAnswer
    <3> QED
      BY <2>2, <3>1 DEF ListInv, AnswersFit, AnswerFits
  <2> QED
    BY <1>1, <2>1, <2>2
<1>11. LatestInv'
  <2> SUFFICES ASSUME NEW l \in 1 .. Len(loads) + 1, loads'[l].latest
               PROVE  loads'[l].page = p /\ loads'[l].keyword = k
    BY <1>2, <1>8 DEF LatestInv
  <2>1. l = Len(loads) + 1
    BY <1>1, <1>6, <1>8
  <2> QED
    BY <1>5, <1>8, <2>1
<1>12. LastCallIsShown'
  <2>1. shown'.last = <<>>
    BY <1>1, <1>4 DEF TypeOK, Shown
  <2> QED
    BY <2>1 DEF LastCallIsShown
<1>13. RowsOrdered' /\ WalkInv'
  BY <1>4 DEF ListInv, RowsOrdered, WalkInv
<1> QED
  BY <1>9, <1>10, <1>11, <1>12, <1>13 DEF ListInv

\* A call has had its answer: the others wait on.
LEMMA OthersWait ==
  ASSUME ListInv, NEW l \in DOMAIN loads, loads' = RemoveAt(loads, l), UNCHANGED <<rows, page, keyword>>
  PROVE  /\ loads' \in Seq(Load) /\ Len(loads') <= MaxLoads
         /\ AnswersFit' /\ LatestInv' /\ RowsOrdered'
<1>1. /\ loads \in Seq(Load) /\ Len(loads) \in Nat /\ DOMAIN loads = 1 .. Len(loads)
      /\ Len(loads) <= MaxLoads
  BY ListTypes DEF ListInv, TypeOK
<1>2. /\ loads' \in Seq(Load) /\ Len(loads') = Len(loads) - 1
      /\ \A m \in DOMAIN loads' : \E q \in DOMAIN loads : loads'[m] = loads[q]
  <2>1. PICK ls \in Seq(Load) : ls = loads
    BY <1>1
  <2>2. PICK i \in 1 .. Len(ls) : i = l
    BY <1>1, <2>1
  <2>3. /\ RemoveAt(ls, i) \in Seq(Load)
        /\ Len(RemoveAt(ls, i)) = Len(ls) - 1
        /\ \A j \in DOMAIN RemoveAt(ls, i) : \E q \in DOMAIN ls : RemoveAt(ls, i)[j] = ls[q]
    BY RemoveAtStays
  <2>4. loads' = RemoveAt(ls, i)
    BY <2>1, <2>2
  <2> QED
    BY <2>1, <2>3, <2>4
<1>3. Len(loads') <= MaxLoads
  BY <1>1, <1>2, BoundsAssumption
<1>4. AnswersFit' /\ LatestInv'
  BY <1>2 DEF ListInv, AnswersFit, LatestInv
<1> QED
  BY <1>2, <1>3, <1>4 DEF ListInv, RowsOrdered

LEMMA ShowKeeps ==
  ASSUME ListInv, NEW l \in DOMAIN loads, Show(l)
  PROVE  ListInv'
<1>1. TypeOK /\ WalkInv /\ loads[l] \in Load /\ loads[l].served
  BY ListTypes DEF ListInv, Show
<1>2. AnswerFits(rows, loads[l])
  BY <1>1 DEF ListInv, AnswersFit
<1>3. PICK load \in Load : load = loads[l]
  BY <1>1
<1>4. /\ Reading(load) \in Walk
      /\ IF Reading(load).page = 0 THEN Reading(load) = NoWalk
         ELSE WalkFits(rows, Reading(load))
  BY <1>1, <1>2, <1>3, ReadingFits
<1>5. /\ walk' = Reading(load) /\ rows' = rows /\ page' = page /\ keyword' = keyword
      /\ loads' = RemoveAt(loads, l)
      /\ shown' = [prev |-> page # 1, next |-> Len(load.ids) = PageSize,
                   last |-> IF load.latest THEN <<load.page, load.keyword, page>> ELSE <<>>]
  BY <1>3 DEF Show
<1>6. /\ loads' \in Seq(Load) /\ Len(loads') <= MaxLoads
      /\ AnswersFit' /\ LatestInv' /\ RowsOrdered'
  BY <1>5, OthersWait
<1>7. WalkInv' /\ walk' \in Walk
  BY <1>4, <1>5 DEF WalkInv
<1>8. page \in 1 .. MaxPage /\ load.page \in 1 .. MaxPage /\ load.keyword \in Keywords
  BY <1>1 DEF TypeOK, Load
<1>9. shown' \in Shown
  <2>1. PICK ok \in BOOLEAN, b \in BOOLEAN : ok = (page # 1) /\ b = (Len(load.ids) = PageSize)
    OBVIOUS
  <2>2. PICK last \in {<<>>} \cup (1 .. MaxPage) \X Keywords \X (1 .. MaxPage) :
          last = IF load.latest THEN <<load.page, load.keyword, page>> ELSE <<>>
    BY <1>8
  <2>3. shown' = [prev |-> ok, next |-> b, last |-> last]
    BY <1>5, <2>1, <2>2
  <2> QED
    BY <2>3 DEF Shown
<1>10. TypeOK'
  BY <1>1, <1>5, <1>6, <1>7, <1>9 DEF TypeOK
<1>11. LastCallIsShown'
  <2>1. load.latest => load.page = page /\ load.keyword = keyword
    BY <1>3 DEF ListInv, LatestInv
  <2>2. shown'.last = IF load.latest THEN <<load.page, load.keyword, page>> ELSE <<>>
    BY <1>5
  <2> QED
    BY <1>5, <2>1, <2>2 DEF LastCallIsShown
<1> QED
  BY <1>6, <1>7, <1>10, <1>11 DEF ListInv

LEMMA ErrorKeeps ==
  ASSUME ListInv, NEW l \in DOMAIN loads, ShowError(l)
  PROVE  ListInv'
<1>1. /\ walk' = NoWalk /\ shown' = [shown EXCEPT !.last = <<>>]
      /\ loads' = RemoveAt(loads, l) /\ rows' = rows /\ page' = page /\ keyword' = keyword
  BY DEF ShowError
<1>2. /\ loads' \in Seq(Load) /\ Len(loads') <= MaxLoads
      /\ AnswersFit' /\ LatestInv' /\ RowsOrdered'
  BY <1>1, OthersWait
<1>3. walk' \in Walk /\ WalkInv'
  BY <1>1, KeywordAssumption, PageAssumption DEF NoWalk, Walk, WalkInv
<1>4. shown' \in Shown /\ shown'.last = <<>>
  BY <1>1 DEF ListInv, TypeOK, Shown
<1>5. TypeOK'
  BY <1>1, <1>2, <1>3, <1>4 DEF ListInv, TypeOK
<1>6. LastCallIsShown'
  BY <1>4 DEF LastCallIsShown
<1> QED
  BY <1>2, <1>3, <1>5, <1>6 DEF ListInv

LEMMA LostKeeps ==
  ASSUME ListInv, NEW l \in DOMAIN loads, Lost(l)
  PROVE  ListInv'
<1>1. /\ walk' = walk /\ shown' = shown
      /\ loads' = RemoveAt(loads, l) /\ rows' = rows /\ page' = page /\ keyword' = keyword
  BY DEF Lost
<1>2. /\ loads' \in Seq(Load) /\ Len(loads') <= MaxLoads
      /\ AnswersFit' /\ LatestInv' /\ RowsOrdered'
  BY <1>1, OthersWait
<1>3. TypeOK' /\ WalkInv' /\ LastCallIsShown'
  BY <1>1, <1>2 DEF ListInv, TypeOK, WalkInv, LastCallIsShown
<1> QED
  BY <1>2, <1>3 DEF ListInv

LEMMA TurnKeeps ==
  ASSUME ListInv, Refresh \/ Prev \/ NextPage \/ \E k \in Keywords : Search(k)
  PROVE  ListInv'
<1>1. page \in 1 .. MaxPage /\ keyword \in Keywords /\ 1 \in 1 .. MaxPage
  BY PageAssumption DEF ListInv, TypeOK
<1>2. CASE Refresh
  BY <1>1, <1>2, StartKeeps DEF Refresh
<1>3. CASE Prev
  BY <1>1, <1>3, PageAssumption, StartKeeps DEF Prev
<1>4. CASE NextPage
  BY <1>1, <1>4, PageAssumption, StartKeeps DEF NextPage
<1>5. CASE \E k \in Keywords : Search(k)
  BY <1>1, <1>5, StartKeeps DEF Search
<1> QED
  BY <1>2, <1>3, <1>4, <1>5

LEMMA NextKeeps ==
  ASSUME ListInv, [Next]_vars
  PROVE  ListInv'
<1>1. ASSUME NEW l \in DOMAIN loads, FileQuery(l) \/ Show(l) \/ ShowError(l) \/ Lost(l)
      PROVE  ListInv'
  BY <1>1, QueryKeeps, ShowKeeps, ErrorKeeps, LostKeeps
<1>2. ASSUME NEW n \in Names, NEW h \in Hashes, FileUpload(n, h) \/ FileDelete(n, h)
      PROVE  ListInv'
  BY <1>2, UploadKeeps, DeleteKeeps
<1>3. ASSUME NEW old \in Names, NEW new \in Names, NEW h \in Hashes, FileRename(old, new, h)
      PROVE  ListInv'
  BY <1>3, RenameKeeps
<1>4. CASE \/ \E k \in Keywords : Search(k)
           \/ Refresh \/ Prev \/ NextPage
  BY <1>4, TurnKeeps
<1>5. CASE UNCHANGED vars
  BY <1>5 DEF vars, ListInv, TypeOK, RowsOrdered, AnswersFit, WalkInv, LatestInv, LastCallIsShown
<1> QED
  BY <1>1, <1>2, <1>3, <1>4, <1>5 DEF Next

LEMMA ListInvariant == Spec => []ListInv
<1>1. Init => ListInv
  BY InitList
<1>2. ListInv /\ [Next]_vars => ListInv'
  BY NextKeeps
<1> QED
  BY <1>1, <1>2, PTL DEF Spec

-----------------------------------------------------------------------------
(* The theorems. *)

\* The list, the calls and the page are always of their types.
THEOREM ListTypeCorrect == Spec => []TypeOK
<1>1. ListInv => TypeOK
  BY DEF ListInv
<1> QED
  BY <1>1, ListInvariant, PTL

\* Whatever changes the list and in whatever order the answers come: a table that is
\* the answer of the last call holds the page and the keyword the browser is at.
THEOREM ListShowsLastCall == Spec => []LastCallIsShown
<1>1. ListInv => LastCallIsShown
  BY DEF ListInv
<1> QED
  BY <1>1, ListInvariant, PTL

\* A row that is alone in its second, and such that none at least as new has come or
\* gone, is met once by a reader who pages on from page 1, and is not missed.
THEOREM PagingIsComplete == Spec => []PagingMeetsEachRowOnce
<1>1. ListInv => PagingMeetsEachRowOnce
  <2> SUFFICES ASSUME ListInv,
                      NEW i \in walk.again \cup (IF walk.ended THEN Listed(walk.keyword) \ walk.seen ELSE {}),
                      ~ Tied(i), \A j \in walk.moved : ~ (rows[j].at >= rows[i].at)
               PROVE  FALSE
    BY DEF PagingMeetsEachRowOnce
  <2>1. \A j \in DOMAIN rows : rows[j].at \in Nat
    BY ListTypes DEF ListInv
  <2>2. CASE walk.page = 0
    BY <2>2 DEF ListInv, WalkInv, NoWalk
  <2>3. CASE walk.page # 0
    <3>1. WalkFits(rows, walk)
      BY <2>3 DEF ListInv, WalkInv
    <3>2. i \in DOMAIN rows
      BY <3>1 DEF WalkFits, Listed, ListedIn
    <3>3. i \in SteadyIn(rows, walk.moved)
      <4>1. Alone(rows, i)
        BY <3>2 DEF Alone, Tied
      <4>2. \A j \in walk.moved : rows[j].at < rows[i].at
        BY <2>1, <3>1, <3>2 DEF WalkFits
      <4> QED
        BY <3>2, <4>1, <4>2 DEF SteadyIn
    <3>4. /\ Within(rows, walk.seen, walk.keyword, 0, walk.page, i)
          /\ i \notin walk.again
          /\ walk.ended => NotBeyond(rows, walk.keyword, walk.page, i)
      BY <3>1, <3>3 DEF WalkFits
    <3>5. walk.ended /\ i \in ListedIn(rows, walk.keyword) /\ i \notin walk.seen
      BY <3>4 DEF Listed
    <3>6. 0 * PageSize < PlaceIn(rows, walk.keyword, i)
      BY <3>2, <3>5, PlacePositive DEF ListInv, TypeOK
    <3> QED
      BY <3>4, <3>5, <3>6 DEF Within, NotBeyond
  <2> QED
    BY <2>2, <2>3
<1> QED
  BY <1>1, ListInvariant, PTL

LEMMA TwinsStep ==
  ASSUME TypeOK, [Next]_vars, NEW i \in DOMAIN rows, NEW j \in DOMAIN rows, Twins(rows, i, j)
  PROVE  Twins(rows', i, j)
<1>1. /\ rows \in Seq(Row) /\ Len(rows) \in Nat /\ DOMAIN rows = 1 .. Len(rows)
      /\ \A m \in DOMAIN rows : rows[m] \in Row
  BY ListTypes
<1>2. CASE rows' = rows
  BY <1>2
<1>3. ASSUME NEW n \in Names, NEW h \in Hashes, FileUpload(n, h)
      PROVE  Twins(rows', i, j)
  <2>1. PICK r : rows' = Append(rows, r)
    BY <1>3 DEF FileUpload, Change
  <2>2. rows'[i] = rows[i] /\ rows'[j] = rows[j]
    BY <1>1, <2>1
  <2> QED
    BY <2>2 DEF Twins
<1>4. ASSUME NEW n \in Names, NEW h \in Hashes, FileDelete(n, h)
      PROVE  Twins(rows', i, j)
  <2>1. rows' = Deleted(n, h)
    BY <1>4 DEF FileDelete, Change, Deleted
  <2>2. i \in Matches(n, h) <=> j \in Matches(n, h)
    BY DEF Matches, Live, Twins
  <2>3. \A m \in DOMAIN rows :
          rows'[m] = IF m \in Matches(n, h) THEN [rows[m] EXCEPT !.live = FALSE] ELSE rows[m]
    BY <2>1 DEF Deleted
  <2>4. \A m \in DOMAIN rows :
          /\ rows'[m].name = rows[m].name /\ rows'[m].hash = rows[m].hash
          /\ rows'[m].live = IF m \in Matches(n, h) THEN FALSE ELSE rows[m].live
    BY <1>1, <2>3 DEF Row
  <2> QED
    BY <2>2, <2>4 DEF Twins
<1>5. ASSUME NEW old \in Names, NEW new \in Names, NEW h \in Hashes, FileRename(old, new, h)
      PROVE  Twins(rows', i, j)
  <2>1. rows' = Renamed(old, new, h)
    BY <1>5 DEF FileRename, Change, Renamed
  <2>2. i \in Matches(old, h) <=> j \in Matches(old, h)
    BY DEF Matches, Live, Twins
  <2>3. \A m \in DOMAIN rows :
          rows'[m] = IF m \in Matches(old, h) THEN [rows[m] EXCEPT !.name = new] ELSE rows[m]
    BY <2>1 DEF Renamed
  <2>4. \A m \in DOMAIN rows :
          /\ rows'[m].name = IF m \in Matches(old, h) THEN new ELSE rows[m].name
          /\ rows'[m].hash = rows[m].hash /\ rows'[m].live = rows[m].live
    BY <1>1, <2>3 DEF Row
  <2> QED
    BY <2>2, <2>4 DEF Twins
<1>6. CASE \/ \E l \in DOMAIN loads : FileQuery(l) \/ Show(l) \/ ShowError(l) \/ Lost(l)
           \/ \E k \in Keywords : Search(k)
           \/ Refresh \/ Prev \/ NextPage
           \/ UNCHANGED vars
  BY <1>2, <1>6 DEF FileQuery, Show, ShowError, Lost, Search, Refresh, Prev, NextPage, Start, vars
<1> QED
  BY <1>3, <1>4, <1>5, <1>6 DEF Next

\* A rename or a delete of one of two rows of one name, content and status is one of
\* both, whatever else the list holds.
THEOREM TwinsAlwaysStayTogether == Spec => TwinsStayTogether
<1>1. TypeOK /\ [Next]_vars => [\A i, j \in DOMAIN rows : Twins(rows, i, j) => Twins(rows', i, j)]_vars
  BY TwinsStep
<1> QED
  BY <1>1, ListTypeCorrect, PTL DEF Spec, TwinsStayTogether
===============================================================================

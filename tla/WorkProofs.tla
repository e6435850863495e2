----------------------------- MODULE WorkProofs -----------------------------
(***************************************************************************)
(* Theorems about Work, for any number of items, queues, threads and CPUs, *)
(* and whatever each caller does, whenever it does it.                     *)
(***************************************************************************)
EXTENDS Work, SequenceTheorems, WellFoundedInduction, TLAPS

-----------------------------------------------------------------------------
(* Lists: the operations on pending and pending_cancels.                   *)

Distinct(p) == \A i, j \in DOMAIN p : p[i] = p[j] => i = j

Less == {ss \in Nat \X Nat : ss[1] < ss[2]}

(***************************************************************************)
(* Min is the least element of a set of naturals that is not empty.        *)
(***************************************************************************)
LEMMA MinIsLeast ==
    ASSUME NEW S \in SUBSET Nat, S # {}
    PROVE  Min(S) \in S
<1>1. IsWellFoundedOn(Less, Nat)
  BY NatLessThanWellFounded DEF OpToRel, Less
<1>2. PICK n \in S : \A k \in S : ~ (<<k, n>> \in Less)
  BY <1>1, WFMin
<1>3. ASSUME NEW k \in S PROVE n <= k
  <2>1. k \in Nat /\ n \in Nat
    OBVIOUS
  <2>2. k < n => <<k, n>> \in Less
    BY <2>1 DEF Less
  <2>3. ~ (<<k, n>> \in Less)
    BY <1>2
  <2> QED
    BY <2>1, <2>2, <2>3
<1> QED
  BY <1>3, Zenon DEF Min

(***************************************************************************)
(* sys_slist_append() of something that is not in the list.                *)
(***************************************************************************)
LEMMA AppendDistinct ==
    ASSUME NEW S, NEW p \in Seq(S), Distinct(p), NEW e \in S, e \notin ToSet(p)
    PROVE  /\ Append(p, e) \in Seq(S) /\ Distinct(Append(p, e))
           /\ ToSet(Append(p, e)) = ToSet(p) \cup {e}
<1> DEFINE r == Append(p, e)
<1>1. /\ r \in Seq(S) /\ Len(p) \in Nat /\ DOMAIN p = 1..Len(p)
      /\ DOMAIN r = 1..(Len(p) + 1) /\ r[Len(p) + 1] = e
      /\ \A i \in 1..Len(p) : r[i] = p[i]
  OBVIOUS
<1> HIDE DEF r
<1>2. \A i \in 1..Len(p) : p[i] # e
  BY <1>1 DEF ToSet
<1>3. Distinct(r)
  BY <1>1, <1>2 DEF Distinct
<1>4. ToSet(r) = ToSet(p) \cup {e}
  BY <1>1 DEF ToSet
<1> QED
  BY <1>1, <1>3, <1>4 DEF r

(***************************************************************************)
(* sys_slist_get().                                                        *)
(***************************************************************************)
LEMMA TailDistinct ==
    ASSUME NEW S, NEW p \in Seq(S), Distinct(p), p # <<>>
    PROVE  /\ Head(p) \in S /\ Head(p) \in ToSet(p)
           /\ Tail(p) \in Seq(S) /\ Distinct(Tail(p))
           /\ ToSet(Tail(p)) = ToSet(p) \ {Head(p)}
<1> DEFINE r == Tail(p)
           h == Head(p)
<1>1. /\ r \in Seq(S) /\ Len(p) \in Nat /\ DOMAIN p = 1..Len(p) /\ Len(p) # 0
      /\ h = p[1] /\ DOMAIN r = 1..(Len(p) - 1)
      /\ \A i \in 1..(Len(p) - 1) : r[i] = p[i + 1]
  OBVIOUS
<1>2. h \in S
  OBVIOUS
<1> HIDE DEF r, h
<1>3. Distinct(r)
  BY <1>1 DEF Distinct
<1>4. ToSet(r) = ToSet(p) \ {h}
  <2>1. ASSUME NEW i \in 1..Len(p), p[i] # h PROVE p[i] \in ToSet(r)
    <3>1. i # 1 /\ i - 1 \in 1..(Len(p) - 1) /\ (i - 1) + 1 = i
      BY <1>1, <2>1
    <3>2. r[i - 1] = p[i]
      BY <1>1, <3>1
    <3> QED
      BY <1>1, <3>1, <3>2 DEF ToSet
  <2>2. ASSUME NEW i \in 1..(Len(p) - 1) PROVE r[i] \in ToSet(p) /\ r[i] # h
    BY <1>1 DEF ToSet, Distinct
  <2>3. ToSet(p) \ {h} \subseteq ToSet(r)
    BY <1>1, <2>1 DEF ToSet
  <2>4. ToSet(r) \subseteq ToSet(p) \ {h}
    BY <1>1, <2>2 DEF ToSet
  <2> QED
    BY <2>3, <2>4
<1>5. h \in ToSet(p)
  BY <1>1 DEF ToSet
<1> QED
  BY <1>1, <1>2, <1>3, <1>4, <1>5 DEF r, h

\* r is p with e put in at k, and p without the element at k.
Inserted(p, k, e, r) ==
    /\ Len(p) \in Nat /\ DOMAIN p = 1..Len(p) /\ DOMAIN r = 1..(Len(p) + 1) /\ r[k] = e
    /\ \A i \in 1..(k - 1) : r[i] = p[i]
    /\ \A i \in (k + 1)..(Len(p) + 1) : r[i] = p[i - 1]

Removed(p, k, r) ==
    /\ Len(p) \in Nat /\ DOMAIN p = 1..Len(p) /\ DOMAIN r = 1..(Len(p) - 1)
    /\ \A i \in 1..(k - 1) : r[i] = p[i]
    /\ \A i \in k..(Len(p) - 1) : r[i] = p[i + 1]

(***************************************************************************)
(* sys_slist_insert(): where the elements are.                             *)
(***************************************************************************)
LEMMA InsertPositions ==
    ASSUME NEW S, NEW p \in Seq(S), NEW e \in S, NEW k \in 1..(Len(p) + 1), NEW r,
           r = InsertAt(p, k, e)
    PROVE  r \in Seq(S) /\ Inserted(p, k, e, r)
<1> DEFINE a == SubSeq(p, 1, k - 1)
           b == SubSeq(p, k, Len(p))
           c == a \o <<e>>
<1>1. /\ Len(p) \in Nat /\ DOMAIN p = 1..Len(p) /\ k \in Int /\ k - 1 \in Int
      /\ \A i \in 1..Len(p) : p[i] \in S
  OBVIOUS
<1>2. /\ a \in Seq(S) /\ Len(a) = k - 1
      /\ \A i \in 1..(k - 1) : a[i] = p[i]
  <2>1. \A i \in 1..(k - 1) : p[i] \in S
    BY <1>1
  <2>2. /\ a \in Seq(S) /\ Len(a) = IF 1 <= k - 1 THEN (k - 1) - 1 + 1 ELSE 0
        /\ \A i \in 1..((k - 1) - 1 + 1) : a[i] = p[1 + i - 1]
    BY <1>1, <2>1, SubSeqProperties
  <2> HIDE DEF a
  <2> QED
    BY <1>1, <2>2
<1>3. /\ b \in Seq(S) /\ Len(b) = Len(p) - k + 1
      /\ \A i \in 1..(Len(p) - k + 1) : b[i] = p[k + i - 1]
  <2>1. \A i \in k..Len(p) : p[i] \in S
    BY <1>1
  <2>2. /\ b \in Seq(S) /\ Len(b) = IF k <= Len(p) THEN Len(p) - k + 1 ELSE 0
        /\ \A i \in 1..(Len(p) - k + 1) : b[i] = p[k + i - 1]
    BY <1>1, <2>1, SubSeqProperties
  <2> HIDE DEF b
  <2> QED
    BY <1>1, <2>2
<1> HIDE DEF a, b
<1>4. /\ c \in Seq(S) /\ Len(c) = k /\ c[k] = e
      /\ \A i \in 1..(k - 1) : c[i] = p[i]
  <2>1. /\ <<e>> \in Seq(S) /\ Len(<<e>>) = 1 /\ <<e>>[1] = e
    OBVIOUS
  <2>2. /\ c \in Seq(S) /\ Len(c) = Len(a) + 1
        /\ \A i \in 1..(Len(a) + 1) : c[i] = IF i <= Len(a) THEN a[i] ELSE <<e>>[i - Len(a)]
    BY <1>2, <2>1, ConcatProperties
  <2>3. Len(a) + 1 = k /\ k - Len(a) = 1 /\ ~(k <= Len(a)) /\ k \in 1..k
    BY <1>1, <1>2
  <2> HIDE DEF c
  <2>4. c \in Seq(S) /\ Len(c) = k /\ c[k] = e
    BY <2>1, <2>2, <2>3
  <2>5. ASSUME NEW i \in 1..(k - 1) PROVE c[i] = p[i]
    <3>1. i \in 1..(Len(a) + 1) /\ i <= Len(a)
      BY <1>1, <1>2
    <3> QED
      BY <1>2, <2>2, <3>1
  <2> QED
    BY <2>4, <2>5
<1> HIDE DEF c
<1>5. /\ c \o b \in Seq(S) /\ Len(c \o b) = Len(c) + Len(b)
      /\ \A i \in 1..(Len(c) + Len(b)) :
           (c \o b)[i] = IF i <= Len(c) THEN c[i] ELSE b[i - Len(c)]
  BY <1>3, <1>4, ConcatProperties
<1>6. r = c \o b
  BY DEF InsertAt, a, b, c
<1>7. /\ r \in Seq(S) /\ Len(r) = Len(p) + 1
      /\ \A i \in 1..(Len(p) + 1) : r[i] = IF i <= k THEN c[i] ELSE b[i - k]
  BY <1>1, <1>3, <1>4, <1>5, <1>6
<1>8. DOMAIN r = 1..(Len(p) + 1) /\ r[k] = e
  BY <1>1, <1>4, <1>7
<1>9. \A i \in 1..(k - 1) : r[i] = p[i]
  BY <1>1, <1>4, <1>7
<1>10. ASSUME NEW i \in (k + 1)..(Len(p) + 1) PROVE r[i] = p[i - 1]
  <2>1. i - k \in 1..(Len(p) - k + 1) /\ k + (i - k) - 1 = i - 1 /\ ~(i <= k)
        /\ i \in 1..(Len(p) + 1)
    BY <1>1
  <2> QED
    BY <1>3, <1>7, <2>1
<1> QED
  BY <1>1, <1>7, <1>8, <1>9, <1>10 DEF Inserted

(***************************************************************************)
(* sys_slist_insert() of something that is not in the list, anywhere.      *)
(***************************************************************************)
LEMMA InsertDistinct ==
    ASSUME NEW S, NEW p \in Seq(S), Distinct(p), NEW e \in S, e \notin ToSet(p),
           NEW k \in 1..(Len(p) + 1)
    PROVE  /\ InsertAt(p, k, e) \in Seq(S) /\ Distinct(InsertAt(p, k, e))
           /\ ToSet(InsertAt(p, k, e)) = ToSet(p) \cup {e}
<1> DEFINE r == InsertAt(p, k, e)
<1>1. /\ r \in Seq(S) /\ Len(p) \in Nat /\ DOMAIN p = 1..Len(p)
      /\ DOMAIN r = 1..(Len(p) + 1) /\ r[k] = e
      /\ \A i \in 1..(k - 1) : r[i] = p[i]
      /\ \A i \in (k + 1)..(Len(p) + 1) : r[i] = p[i - 1]
  <2>1. r \in Seq(S) /\ Inserted(p, k, e, r)
    BY InsertPositions
  <2> QED
    BY <2>1 DEF Inserted
<1> HIDE DEF r
<1>2. \A i \in 1..Len(p) : p[i] # e
  BY <1>1 DEF ToSet
<1>3. Distinct(r)
  <2>1. ASSUME NEW i \in 1..(Len(p) + 1), NEW j \in 1..(Len(p) + 1), i < j PROVE r[i] # r[j]
    <3>1. CASE j < k
      <4>1. i \in 1..(k - 1) /\ j \in 1..(k - 1) /\ i \in 1..Len(p) /\ j \in 1..Len(p)
            /\ i # j
        BY <1>1, <2>1, <3>1
      <4> QED
        BY <1>1, <4>1 DEF Distinct
    <3>2. CASE j = k
      <4>1. i \in 1..(k - 1) /\ i \in 1..Len(p)
        BY <1>1, <2>1, <3>2
      <4> QED
        BY <1>1, <1>2, <3>2, <4>1
    <3>3. CASE j > k
      <4>1. j \in (k + 1)..(Len(p) + 1) /\ j - 1 \in 1..Len(p)
        BY <1>1, <3>3
      <4>2. CASE i < k
        <5>1. i \in 1..(k - 1) /\ i \in 1..Len(p) /\ i # j - 1
          BY <1>1, <3>3, <4>2
        <5> QED
          BY <1>1, <4>1, <5>1 DEF Distinct
      <4>3. CASE i = k
        BY <1>1, <1>2, <4>1, <4>3
      <4>4. CASE i > k
        <5>1. i \in (k + 1)..(Len(p) + 1) /\ i - 1 \in 1..Len(p) /\ i - 1 # j - 1
          BY <1>1, <2>1, <4>4
        <5> QED
          BY <1>1, <4>1, <5>1 DEF Distinct
      <4> QED
        BY <1>1, <4>2, <4>3, <4>4
    <3> QED
      BY <1>1, <3>1, <3>2, <3>3
  <2> QED
    BY <1>1, <2>1 DEF Distinct
<1>4. ToSet(r) = ToSet(p) \cup {e}
  <2>1. ASSUME NEW i \in 1..Len(p) PROVE p[i] \in ToSet(r)
    <3>1. CASE i < k
      <4>1. i \in 1..(k - 1) /\ i \in 1..(Len(p) + 1)
        BY <1>1, <3>1
      <4> QED
        BY <1>1, <4>1 DEF ToSet
    <3>2. CASE ~(i < k)
      <4>1. i + 1 \in (k + 1)..(Len(p) + 1) /\ i + 1 \in 1..(Len(p) + 1) /\ (i + 1) - 1 = i
        BY <1>1, <3>2
      <4>2. r[i + 1] = p[i]
        BY <1>1, <4>1
      <4> QED
        BY <1>1, <4>1, <4>2 DEF ToSet
    <3> QED
      BY <3>1, <3>2
  <2>2. ASSUME NEW i \in 1..(Len(p) + 1) PROVE r[i] \in ToSet(p) \cup {e}
    <3>1. CASE i = k
      BY <1>1, <3>1
    <3>2. CASE i < k
      <4>1. i \in 1..(k - 1) /\ i \in 1..Len(p)
        BY <1>1, <3>2
      <4> QED
        BY <1>1, <4>1 DEF ToSet
    <3>3. CASE i > k
      <4>1. i \in (k + 1)..(Len(p) + 1) /\ i - 1 \in 1..Len(p)
        BY <1>1, <3>3
      <4> QED
        BY <1>1, <4>1 DEF ToSet
    <3> QED
      BY <1>1, <3>1, <3>2, <3>3
  <2>3. e \in ToSet(r)
    BY <1>1 DEF ToSet
  <2>4. ToSet(p) \cup {e} \subseteq ToSet(r)
    BY <1>1, <2>1, <2>3 DEF ToSet
  <2>5. ToSet(r) \subseteq ToSet(p) \cup {e}
    BY <1>1, <2>2 DEF ToSet
  <2> QED
    BY <2>4, <2>5
<1> QED
  BY <1>1, <1>3, <1>4 DEF r

(***************************************************************************)
(* sys_slist_remove(): where the elements are.                             *)
(***************************************************************************)
LEMMA RemovePositions ==
    ASSUME NEW S, NEW p \in Seq(S), NEW k \in 1..Len(p), NEW r, r = RemoveAt(p, k)
    PROVE  r \in Seq(S) /\ Removed(p, k, r)
<1> DEFINE a == SubSeq(p, 1, k - 1)
           b == SubSeq(p, k + 1, Len(p))
<1>1. /\ Len(p) \in Nat /\ DOMAIN p = 1..Len(p) /\ k \in Int /\ k - 1 \in Int /\ k + 1 \in Int
      /\ \A i \in 1..Len(p) : p[i] \in S
  OBVIOUS
<1>2. /\ a \in Seq(S) /\ Len(a) = k - 1
      /\ \A i \in 1..(k - 1) : a[i] = p[i]
  <2>1. \A i \in 1..(k - 1) : p[i] \in S
    BY <1>1
  <2>2. /\ a \in Seq(S) /\ Len(a) = IF 1 <= k - 1 THEN (k - 1) - 1 + 1 ELSE 0
        /\ \A i \in 1..((k - 1) - 1 + 1) : a[i] = p[1 + i - 1]
    BY <1>1, <2>1, SubSeqProperties
  <2> HIDE DEF a
  <2> QED
    BY <1>1, <2>2
<1>3. /\ b \in Seq(S) /\ Len(b) = Len(p) - k
      /\ \A i \in 1..(Len(p) - k) : b[i] = p[k + i]
  <2>1. \A i \in (k + 1)..Len(p) : p[i] \in S
    BY <1>1
  <2>2. /\ b \in Seq(S) /\ Len(b) = IF k + 1 <= Len(p) THEN Len(p) - (k + 1) + 1 ELSE 0
        /\ \A i \in 1..(Len(p) - (k + 1) + 1) : b[i] = p[(k + 1) + i - 1]
    BY <1>1, <2>1, SubSeqProperties
  <2> HIDE DEF b
  <2>3. Len(p) - (k + 1) + 1 = Len(p) - k /\ Len(b) = Len(p) - k
    <3>1. k <= Len(p) /\ Len(p) - (k + 1) + 1 = Len(p) - k
      BY <1>1
    <3>2. CASE k + 1 <= Len(p)
      BY <2>2, <3>1, <3>2
    <3>3. CASE ~(k + 1 <= Len(p))
      <4>1. Len(p) - k = 0
        <5>1. k \in Int /\ Len(p) \in Int
          BY <1>1
        <5>2. \A x, y \in Int : x <= y /\ ~(x + 1 <= y) => y - x = 0
          OBVIOUS
        <5> QED
          BY <3>1, <3>3, <5>1, <5>2, Zenon
      <4> QED
        BY <2>2, <3>1, <3>3, <4>1
    <3> QED
      BY <3>2, <3>3
  <2>4. ASSUME NEW i \in 1..(Len(p) - k) PROVE b[i] = p[k + i]
    <3>1. (k + 1) + i - 1 = k + i
      BY <1>1
    <3>2. i \in 1..(Len(p) - (k + 1) + 1)
      BY <2>3
    <3>3. b[i] = p[(k + 1) + i - 1]
      BY <2>2, <3>2, Zenon
    <3> QED
      BY <3>1, <3>3, Zenon
  <2> QED
    BY <2>2, <2>3, <2>4, Zenon
<1> HIDE DEF a, b
<1>4. /\ a \o b \in Seq(S) /\ Len(a \o b) = Len(a) + Len(b)
      /\ \A i \in 1..(Len(a) + Len(b)) :
           (a \o b)[i] = IF i <= Len(a) THEN a[i] ELSE b[i - Len(a)]
  BY <1>2, <1>3, ConcatProperties
<1>5. r = a \o b
  BY DEF RemoveAt, a, b
<1>6. /\ r \in Seq(S) /\ Len(r) = Len(p) - 1
      /\ \A i \in 1..(Len(p) - 1) : r[i] = IF i <= k - 1 THEN a[i] ELSE b[i - (k - 1)]
  <2>1. Len(a) + Len(b) = Len(p) - 1
    BY <1>1, <1>2, <1>3
  <2> QED
    BY <1>2, <1>4, <1>5, <2>1
<1>7. DOMAIN r = 1..(Len(p) - 1)
  BY <1>1, <1>6
<1>8. ASSUME NEW i \in 1..(k - 1) PROVE r[i] = p[i]
  <2>1. i \in 1..(Len(p) - 1) /\ i <= k - 1
    BY <1>1
  <2> QED
    BY <1>2, <1>6, <2>1
<1>9. ASSUME NEW i \in k..(Len(p) - 1) PROVE r[i] = p[i + 1]
  <2>1. i - (k - 1) \in 1..(Len(p) - k) /\ k + (i - (k - 1)) = i + 1 /\ ~(i <= k - 1)
        /\ i \in 1..(Len(p) - 1)
    BY <1>1
  <2> QED
    BY <1>3, <1>6, <2>1
<1> QED
  BY <1>1, <1>6, <1>7, <1>8, <1>9 DEF Removed

(***************************************************************************)
(* sys_slist_remove() of the element at k.                                 *)
(***************************************************************************)
LEMMA RemoveAtDistinct ==
    ASSUME NEW S, NEW p \in Seq(S), Distinct(p), NEW k \in 1..Len(p)
    PROVE  /\ RemoveAt(p, k) \in Seq(S) /\ Distinct(RemoveAt(p, k))
           /\ ToSet(RemoveAt(p, k)) = ToSet(p) \ {p[k]}
<1> DEFINE r == RemoveAt(p, k)
<1>1. /\ r \in Seq(S) /\ Len(p) \in Nat /\ DOMAIN p = 1..Len(p)
      /\ DOMAIN r = 1..(Len(p) - 1)
      /\ \A i \in 1..(k - 1) : r[i] = p[i]
      /\ \A i \in k..(Len(p) - 1) : r[i] = p[i + 1]
  <2>1. r \in Seq(S) /\ Removed(p, k, r)
    BY RemovePositions
  <2> QED
    BY <2>1 DEF Removed
<1> HIDE DEF r
<1>2. Distinct(r)
  <2>1. ASSUME NEW i \in 1..(Len(p) - 1), NEW j \in 1..(Len(p) - 1), i < j PROVE r[i] # r[j]
    <3>1. CASE j < k
      <4>1. i \in 1..(k - 1) /\ j \in 1..(k - 1) /\ i \in 1..Len(p) /\ j \in 1..Len(p)
            /\ i # j
        BY <1>1, <2>1, <3>1
      <4> QED
        BY <1>1, <4>1 DEF Distinct
    <3>2. CASE ~(j < k)
      <4>1. j \in k..(Len(p) - 1) /\ j + 1 \in 1..Len(p)
        BY <1>1, <3>2
      <4>2. CASE i < k
        <5>1. i \in 1..(k - 1) /\ i \in 1..Len(p) /\ i # j + 1
          BY <1>1, <2>1, <4>2
        <5> QED
          BY <1>1, <4>1, <5>1 DEF Distinct
      <4>3. CASE ~(i < k)
        <5>1. i \in k..(Len(p) - 1) /\ i + 1 \in 1..Len(p) /\ i + 1 # j + 1
          BY <1>1, <2>1, <4>3
        <5> QED
          BY <1>1, <4>1, <5>1 DEF Distinct
      <4> QED
        BY <4>2, <4>3
    <3> QED
      BY <3>1, <3>2
  <2> QED
    BY <1>1, <2>1 DEF Distinct
<1>3. ToSet(r) = ToSet(p) \ {p[k]}
  <2>1. ASSUME NEW i \in 1..Len(p), p[i] # p[k] PROVE p[i] \in ToSet(r)
    <3>1. CASE i < k
      <4>1. i \in 1..(k - 1) /\ i \in 1..(Len(p) - 1)
        BY <1>1, <3>1
      <4> QED
        BY <1>1, <4>1 DEF ToSet
    <3>2. CASE ~(i < k)
      <4>1. i - 1 \in k..(Len(p) - 1) /\ i - 1 \in 1..(Len(p) - 1) /\ (i - 1) + 1 = i
        BY <1>1, <2>1, <3>2
      <4>2. r[i - 1] = p[i]
        BY <1>1, <4>1
      <4> QED
        BY <1>1, <4>1, <4>2 DEF ToSet
    <3> QED
      BY <3>1, <3>2
  <2>2. ASSUME NEW i \in 1..(Len(p) - 1) PROVE r[i] \in ToSet(p) /\ r[i] # p[k]
    <3>1. CASE i < k
      <4>1. i \in 1..(k - 1) /\ i \in 1..Len(p) /\ i # k
        BY <1>1, <3>1
      <4> QED
        BY <1>1, <4>1 DEF ToSet, Distinct
    <3>2. CASE ~(i < k)
      <4>1. i \in k..(Len(p) - 1) /\ i + 1 \in 1..Len(p) /\ i + 1 # k
        BY <1>1, <3>2
      <4> QED
        BY <1>1, <4>1 DEF ToSet, Distinct
    <3> QED
      BY <3>1, <3>2
  <2>3. ToSet(p) \ {p[k]} \subseteq ToSet(r)
    BY <1>1, <2>1 DEF ToSet
  <2>4. ToSet(r) \subseteq ToSet(p) \ {p[k]}
    BY <1>1, <2>2 DEF ToSet
  <2> QED
    BY <2>3, <2>4
<1> QED
  BY <1>1, <1>2, <1>3 DEF r

(***************************************************************************)
(* The position of an element of a list.                                   *)
(***************************************************************************)
LEMMA PositionFound ==
    ASSUME NEW S, NEW p \in Seq(S), NEW e \in ToSet(p)
    PROVE  /\ SelectInSeq(p, LAMBDA i : i = e) \in 1..Len(p)
           /\ p[SelectInSeq(p, LAMBDA i : i = e)] = e
<1> DEFINE I == {i \in 1..Len(p) : p[i] = e}
<1>1. I # {} /\ I \in SUBSET Nat
  BY DEF ToSet
<1>2. Min(I) \in I
  <2> HIDE DEF I
  <2> QED
    BY <1>1, MinIsLeast
<1>3. SelectInSeq(p, LAMBDA i : i = e) = Min(I)
  BY <1>1 DEF SelectInSeq
<1> QED
  BY <1>2, <1>3

(***************************************************************************)
(* sys_slist_find_and_remove().                                            *)
(***************************************************************************)
LEMMA RemoveFirstDistinct ==
    ASSUME NEW S, NEW p \in Seq(S), Distinct(p), NEW e \in ToSet(p)
    PROVE  /\ RemoveFirst(p, e) \in Seq(S) /\ Distinct(RemoveFirst(p, e))
           /\ ToSet(RemoveFirst(p, e)) = ToSet(p) \ {e}
<1>1. PICK k \in 1..Len(p) : k = SelectInSeq(p, LAMBDA i : i = e) /\ p[k] = e
  BY PositionFound
<1>2. RemoveFirst(p, e) = RemoveAt(p, k)
  <2>1. \E i \in 1..Len(p) : p[i] = e
    BY <1>1
  <2> QED
    BY <1>1, <2>1 DEF RemoveFirst
<1>3. /\ RemoveAt(p, k) \in Seq(S) /\ Distinct(RemoveAt(p, k))
      /\ ToSet(RemoveAt(p, k)) = ToSet(p) \ {p[k]}
  BY RemoveAtDistinct
<1> QED
  BY <1>1, <1>2, <1>3

-----------------------------------------------------------------------------
(* The *_locked() functions.                                               *)

Entries == Works \cup Threads

WorkerStates == {"ready", "waiting", "handler", "exited"}

StateType ==
    [flags : [Works -> SUBSET {"QUEUED", "RUNNING", "CANCELING", "DELAYED"}],
     queue : [Works -> Queues \cup {None}],
     pending : [Queues -> Seq(Entries)],
     worker : [Queues -> WorkerStates]]

\* The flags of every item agree with the lists and with what the threads handle.
Matches(s) ==
    /\ \A q \in Queues : Distinct(s.pending[q])
    /\ \A w \in Works, q \in Queues :
        /\ w \in ToSet(s.pending[q]) <=> "QUEUED" \in s.flags[w] /\ s.queue[w] = q
        /\ current[q] = w <=> "RUNNING" \in s.flags[w] /\ s.queue[w] = q
    /\ \A w \in Works : {"QUEUED", "RUNNING"} \cap s.flags[w] # {} => s.queue[w] # None

\* An item that is being cancelled cannot be submitted.
CancelsKeptOut(s) == \A w \in Works : "CANCELING" \in s.flags[w] => "QUEUED" \notin s.flags[w]

HandlerHasItem(s) == \A q \in Queues : s.worker[q] = "handler" <=> current[q] # None

Coherent(s) == s \in StateType /\ Matches(s) /\ CancelsKeptOut(s) /\ HandlerHasItem(s)

\* The same flushers are in the same lists.
SameFlushers(s, r) ==
    \A q \in Queues, x \in Threads : x \in ToSet(r.pending[q]) <=> x \in ToSet(s.pending[q])

(***************************************************************************)
(* notify_queue_locked() wakes a queue thread that waits, and does no more.*)
(***************************************************************************)
LEMMA NotifyCoherent ==
    ASSUME NEW s, Coherent(s), NEW q \in Queues
    PROVE  /\ Coherent(notify_queue_locked(s, q))
           /\ SameFlushers(s, notify_queue_locked(s, q))
<1> DEFINE r == notify_queue_locked(s, q)
<1>1. /\ r \in StateType /\ r.flags = s.flags /\ r.queue = s.queue /\ r.pending = s.pending
      /\ \A k \in Queues : r.worker[k] = "handler" <=> s.worker[k] = "handler"
  BY DEF notify_queue_locked, Coherent, StateType, WorkerStates
<1> HIDE DEF r
<1>2. Matches(r) /\ CancelsKeptOut(r) /\ HandlerHasItem(r) /\ SameFlushers(s, r)
  BY <1>1 DEF Coherent, Matches, CancelsKeptOut, HandlerHasItem, SameFlushers
<1> QED
  BY <1>1, <1>2 DEF Coherent, r

(***************************************************************************)
(* Removing or adding a flag that the lists do not depend on.              *)
(***************************************************************************)
LEMMA FlagsCoherent ==
    ASSUME NEW s, Coherent(s), NEW r, r \in StateType, NEW w \in Works,
           r.queue = s.queue, r.pending = s.pending, r.worker = s.worker,
           \A v \in Works : v # w => r.flags[v] = s.flags[v],
           "QUEUED" \in r.flags[w] <=> "QUEUED" \in s.flags[w],
           "RUNNING" \in r.flags[w] <=> "RUNNING" \in s.flags[w],
           "CANCELING" \in r.flags[w] => "QUEUED" \notin r.flags[w]
    PROVE  Coherent(r) /\ SameFlushers(s, r)
<1>1. Matches(r)
  BY DEF Coherent, Matches
<1>2. CancelsKeptOut(r) /\ HandlerHasItem(r) /\ SameFlushers(s, r)
  BY DEF Coherent, CancelsKeptOut, HandlerHasItem, SameFlushers
<1> QED
  BY <1>1, <1>2 DEF Coherent

(***************************************************************************)
(* submit_to_queue_locked(): an item goes to the end of one list, and one  *)
(* that is running to that of its own queue.                               *)
(***************************************************************************)
LEMMA SubmitCoherent ==
    ASSUME NEW s, Coherent(s), NEW x, NEW w \in Works, NEW q \in Queues \cup {None}
    PROVE  /\ Coherent(submit_to_queue_locked(x, s, w, q))
           /\ SameFlushers(s, submit_to_queue_locked(x, s, w, q))
<1> DEFINE to == SubmitQueue(s, w, q)
           takes == {"CANCELING", "QUEUED"} \cap s.flags[w] = {} /\ queue_submit_locked(x, to)
<1>0. s \in StateType /\ Matches(s) /\ CancelsKeptOut(s) /\ HandlerHasItem(s)
  BY DEF Coherent
<1>1. CASE ~takes
  <2>1. submit_to_queue_locked(x, s, w, q) = s
    BY <1>1 DEF submit_to_queue_locked
  <2> QED
    BY <2>1 DEF SameFlushers
<1>2. CASE takes
  <2>1. to \in Queues
    <3>1. to \in Queues \cup {None}
      BY <1>0 DEF SubmitQueue, StateType
    <3>2. to # None
      BY <1>2 DEF queue_submit_locked
    <3> QED
      BY <3>1, <3>2
  <2>2. "QUEUED" \notin s.flags[w] /\ "CANCELING" \notin s.flags[w]
    BY <1>2
  <2>3. "RUNNING" \in s.flags[w] => to = s.queue[w]
    BY DEF SubmitQueue
  <2>4. PICK a : /\ a = [s EXCEPT !.flags[w] = @ \cup {"QUEUED"},
                                  !.queue[w] = to,
                                  !.pending[to] = Append(@, w)]
                 /\ submit_to_queue_locked(x, s, w, q) = notify_queue_locked(a, to)
    BY <1>2 DEF submit_to_queue_locked
  <2> HIDE DEF to, takes
  <2>5. a = [flags |-> [s.flags EXCEPT ![w] = @ \cup {"QUEUED"}],
             queue |-> [s.queue EXCEPT ![w] = to],
             pending |-> [s.pending EXCEPT ![to] = Append(@, w)],
             worker |-> s.worker]
    BY <1>0, <2>4 DEF StateType
  <2>6. s.pending[to] \in Seq(Entries) /\ Distinct(s.pending[to]) /\ w \in Entries
    BY <1>0, <2>1 DEF StateType, Matches, Entries
  <2>7. w \notin ToSet(s.pending[to])
    BY <1>0, <2>1, <2>2 DEF Matches
  <2>8. /\ Append(s.pending[to], w) \in Seq(Entries) /\ Distinct(Append(s.pending[to], w))
        /\ ToSet(Append(s.pending[to], w)) = ToSet(s.pending[to]) \cup {w}
    BY <2>6, <2>7, AppendDistinct
  <2>9. /\ a.flags[w] = s.flags[w] \cup {"QUEUED"} /\ a.queue[w] = to
        /\ \A v \in Works : v # w => a.flags[v] = s.flags[v] /\ a.queue[v] = s.queue[v]
        /\ a.pending[to] = Append(s.pending[to], w)
        /\ \A k \in Queues : k # to => a.pending[k] = s.pending[k]
    BY <1>0, <2>1, <2>5 DEF StateType
  <2>10. a \in StateType
    BY <1>0, <2>1, <2>5, <2>8 DEF StateType
  <2>11. \A k \in Queues : Distinct(a.pending[k])
    BY <1>0, <2>8, <2>9 DEF Matches
  <2>12. ASSUME NEW k \in Queues, NEW v \in Works
         PROVE  v \in ToSet(a.pending[k]) <=> "QUEUED" \in a.flags[v] /\ a.queue[v] = k
    <3>1. CASE v = w
      <4>1. w \in ToSet(a.pending[k]) <=> k = to
        <5>1. w \notin ToSet(s.pending[k])
          BY <1>0, <2>2 DEF Matches
        <5> QED
          BY <2>8, <2>9, <5>1
      <4> QED
        BY <2>9, <3>1, <4>1
    <3>2. CASE v # w
      <4>1. v \in ToSet(a.pending[k]) <=> v \in ToSet(s.pending[k])
        BY <2>8, <2>9, <3>2
      <4> QED
        BY <1>0, <2>9, <3>2, <4>1 DEF Matches
    <3> QED
      BY <3>1, <3>2
  <2>13. ASSUME NEW k \in Queues, NEW v \in Works
         PROVE  current[k] = v <=> "RUNNING" \in a.flags[v] /\ a.queue[v] = k
    <3>1. CASE v = w
      <4>1. "RUNNING" \in a.flags[w] <=> "RUNNING" \in s.flags[w]
        BY <2>9
      <4> QED
        BY <1>0, <2>3, <2>9, <3>1, <4>1 DEF Matches
    <3>2. CASE v # w
      BY <1>0, <2>9, <3>2 DEF Matches
    <3> QED
      BY <3>1, <3>2
  <2>13a. ASSUME NEW v \in Works, {"QUEUED", "RUNNING"} \cap a.flags[v] # {}
          PROVE  a.queue[v] # None
    <3>1. CASE v = w
      BY <2>1, <2>9, <3>1, WorkAssumption DEF Callers
    <3>2. CASE v # w
      BY <1>0, <2>9, <2>13a, <3>2 DEF Matches
    <3> QED
      BY <3>1, <3>2
  <2>14. Matches(a)
    BY <2>11, <2>12, <2>13, <2>13a DEF Matches
  <2>15. CancelsKeptOut(a)
    BY <1>0, <2>2, <2>9 DEF CancelsKeptOut
  <2>16. HandlerHasItem(a)
    BY <1>0, <2>5 DEF HandlerHasItem
  <2>17. SameFlushers(s, a)
    <3>1. \A y \in Threads : y # w
      BY WorkAssumption DEF Callers
    <3> QED
      BY <2>8, <2>9, <3>1 DEF SameFlushers
  <2>18. Coherent(a)
    BY <2>10, <2>14, <2>15, <2>16 DEF Coherent
  <2>19. Coherent(notify_queue_locked(a, to)) /\ SameFlushers(a, notify_queue_locked(a, to))
    BY <2>1, <2>18, NotifyCoherent
  <2> QED
    BY <2>4, <2>17, <2>19 DEF SameFlushers
<1> QED
  BY <1>1, <1>2

(***************************************************************************)
(* cancel_async_locked(): the item leaves its list, and is marked if its   *)
(* handler is running or it is still scheduled.                            *)
(***************************************************************************)
LEMMA CancelCoherent ==
    ASSUME NEW s, Coherent(s), NEW w \in Works
    PROVE  /\ Coherent(cancel_async_locked(s, w))
           /\ SameFlushers(s, cancel_async_locked(s, w))
<1> DEFINE removed == IF "CANCELING" \in s.flags[w] THEN s ELSE queue_remove_locked(s, w)
<1>0. s \in StateType /\ Matches(s) /\ CancelsKeptOut(s) /\ HandlerHasItem(s)
  BY DEF Coherent
<1>1. Coherent(removed) /\ SameFlushers(s, removed) /\ "QUEUED" \notin removed.flags[w]
  <2>1. CASE removed = s /\ "QUEUED" \notin s.flags[w]
    BY <2>1 DEF SameFlushers
  <2>2. CASE "QUEUED" \in s.flags[w]
    <3> DEFINE from == s.queue[w]
               p == s.pending[from]
    <3>1. from \in Queues /\ w \in ToSet(p)
      <4>1. from # None
        BY <1>0, <2>2 DEF Matches
      <4>2. from \in Queues
        BY <1>0, <4>1 DEF StateType
      <4> QED
        BY <1>0, <2>2, <4>2 DEF Matches
    <3>2. PICK a : /\ a = [s EXCEPT !.flags[w] = @ \ {"QUEUED"},
                                    !.pending[from] = RemoveFirst(@, w)]
                   /\ removed = a
      BY <1>0, <2>2 DEF queue_remove_locked, CancelsKeptOut
    <3> HIDE DEF from, removed
    <3>3. a = [flags |-> [s.flags EXCEPT ![w] = @ \ {"QUEUED"}],
               queue |-> s.queue,
               pending |-> [s.pending EXCEPT ![from] = RemoveFirst(@, w)],
               worker |-> s.worker]
      BY <1>0, <3>2 DEF StateType
    <3>4. p \in Seq(Entries) /\ Distinct(p)
      BY <1>0, <3>1 DEF StateType, Matches
    <3>5. /\ RemoveFirst(p, w) \in Seq(Entries) /\ Distinct(RemoveFirst(p, w))
          /\ ToSet(RemoveFirst(p, w)) = ToSet(p) \ {w}
      <4> HIDE DEF p
      <4> QED
        BY <3>1, <3>4, RemoveFirstDistinct
    <3>6. /\ a.flags[w] = s.flags[w] \ {"QUEUED"} /\ a.queue = s.queue
          /\ \A v \in Works : v # w => a.flags[v] = s.flags[v]
          /\ a.pending[from] = RemoveFirst(p, w)
          /\ \A k \in Queues : k # from => a.pending[k] = s.pending[k]
          /\ a.worker = s.worker
      BY <1>0, <3>1, <3>3 DEF StateType
    <3>7. a \in StateType
      BY <1>0, <3>1, <3>3, <3>5 DEF StateType
    <3>8. \A k \in Queues : Distinct(a.pending[k])
      BY <1>0, <3>5, <3>6 DEF Matches
    <3>9. \A k \in Queues : ToSet(a.pending[k]) = ToSet(s.pending[k]) \ {w}
      <4>1. ASSUME NEW k \in Queues, k # from PROVE w \notin ToSet(s.pending[k])
        BY <1>0, <4>1 DEF Matches, from
      <4>2. ASSUME NEW k \in Queues, k # from
            PROVE  ToSet(a.pending[k]) = ToSet(s.pending[k]) \ {w}
        <5>1. w \notin ToSet(s.pending[k]) /\ a.pending[k] = s.pending[k]
          BY <3>6, <4>1, <4>2
        <5> QED
          BY <5>1
      <4> QED
        BY <3>5, <3>6, <4>2
    <3>10. ASSUME NEW k \in Queues, NEW v \in Works
           PROVE  /\ v \in ToSet(a.pending[k]) <=> "QUEUED" \in a.flags[v] /\ a.queue[v] = k
                  /\ current[k] = v <=> "RUNNING" \in a.flags[v] /\ a.queue[v] = k
      <4>1. CASE v = w
        BY <1>0, <3>6, <3>9, <4>1 DEF Matches
      <4>2. CASE v # w
        BY <1>0, <3>6, <3>9, <4>2 DEF Matches
      <4> QED
        BY <4>1, <4>2
    <3>11. ASSUME NEW v \in Works, {"QUEUED", "RUNNING"} \cap a.flags[v] # {}
           PROVE  a.queue[v] # None
      BY <1>0, <3>6, <3>11 DEF Matches
    <3>12. Matches(a)
      BY <3>8, <3>10, <3>11 DEF Matches
    <3>13. CancelsKeptOut(a) /\ HandlerHasItem(a)
      BY <1>0, <3>6 DEF CancelsKeptOut, HandlerHasItem
    <3>14. SameFlushers(s, a)
      <4>1. \A y \in Threads : y # w
        BY WorkAssumption DEF Callers
      <4> QED
        BY <3>9, <4>1 DEF SameFlushers
    <3> QED
      BY <3>2, <3>6, <3>7, <3>12, <3>13, <3>14 DEF Coherent
  <2>3. "QUEUED" \notin s.flags[w] => removed = s
    BY DEF queue_remove_locked
  <2> QED
    BY <2>1, <2>2, <2>3
<1>2. CASE removed.flags[w] = {}
  BY <1>1, <1>2 DEF cancel_async_locked
<1>3. CASE removed.flags[w] # {}
  <2>1. PICK r : r = removed
    OBVIOUS
  <2>2. PICK a : a = [r EXCEPT !.flags[w] = @ \cup {"CANCELING"}]
    OBVIOUS
  <2>3. cancel_async_locked(s, w) = a
    BY <1>3, <2>1, <2>2 DEF cancel_async_locked
  <2> HIDE DEF removed
  <2>4. r \in StateType /\ Coherent(r) /\ SameFlushers(s, r) /\ "QUEUED" \notin r.flags[w]
    BY <1>1, <2>1 DEF Coherent
  <2>5. a = [flags |-> [r.flags EXCEPT ![w] = @ \cup {"CANCELING"}], queue |-> r.queue,
             pending |-> r.pending, worker |-> r.worker]
    BY <2>2, <2>4 DEF StateType
  <2>6. /\ a.flags[w] = r.flags[w] \cup {"CANCELING"} /\ a.queue = r.queue
        /\ a.pending = r.pending /\ a.worker = r.worker
        /\ \A v \in Works : v # w => a.flags[v] = r.flags[v]
    BY <2>4, <2>5 DEF StateType
  <2>7. a \in StateType
    BY <2>4, <2>5 DEF StateType
  <2>8. Coherent(a) /\ SameFlushers(r, a)
    BY <2>4, <2>6, <2>7, FlagsCoherent
  <2> QED
    BY <2>3, <2>4, <2>8 DEF SameFlushers
<1> QED
  BY <1>2, <1>3

\* Where the flusher of an item goes in the list p.
FlusherPlace(s, w, p) ==
    IF "QUEUED" \in s.flags[w] THEN 1 + SelectInSeq(p, LAMBDA i : i = w) ELSE 1

(***************************************************************************)
(* queue_flusher_locked(): the flusher goes right behind the item, or      *)
(* first in the list.                                                      *)
(***************************************************************************)
LEMMA FlusherPlaced ==
    ASSUME NEW s, Coherent(s), NEW w \in Works, NEW x, NeedsFlush(s, w),
           NEW to, to = s.queue[w], NEW p, p = s.pending[to],
           NEW k, k = FlusherPlace(s, w, p)
    PROVE  /\ to \in Queues /\ p \in Seq(Entries) /\ Len(p) \in Nat
           /\ k \in 1..(Len(p) + 1)
           /\ "QUEUED" \in s.flags[w] => \E j \in 1..Len(p) : k = j + 1 /\ p[j] = w
           /\ queue_flusher_locked(s, w, x) = [s EXCEPT !.pending[to] = InsertAt(p, k, x)]
<1>0. s \in StateType /\ Matches(s)
  BY DEF Coherent
<1>1. to \in Queues
  <2>1. to # None
    BY <1>0 DEF NeedsFlush, Matches
  <2> QED
    BY <1>0, <2>1 DEF StateType
<1>2. p \in Seq(Entries) /\ Len(p) \in Nat
  BY <1>0, <1>1 DEF StateType
<1>3. /\ k \in 1..(Len(p) + 1)
      /\ "QUEUED" \in s.flags[w] => \E j \in 1..Len(p) : k = j + 1 /\ p[j] = w
  <2>1. CASE "QUEUED" \in s.flags[w]
    <3>1. w \in ToSet(p)
      BY <1>0, <1>1, <2>1 DEF Matches
    <3>2. PICK j \in 1..Len(p) : j = SelectInSeq(p, LAMBDA i : i = w) /\ p[j] = w
      BY <1>2, <3>1, PositionFound
    <3>3. k = 1 + j
      BY <2>1, <3>2 DEF FlusherPlace
    <3>4. k = j + 1 /\ k \in 1..(Len(p) + 1)
      <4>1. \A n \in Nat : \A m \in 1..n : 1 + m = m + 1 /\ 1 + m \in 1..(n + 1)
        OBVIOUS
      <4> QED
        BY <1>2, <3>2, <3>3, <4>1, Zenon
    <3> QED
      BY <3>2, <3>4
  <2>2. CASE "QUEUED" \notin s.flags[w]
    BY <1>2, <2>2 DEF FlusherPlace
  <2> QED
    BY <2>1, <2>2
<1>4. queue_flusher_locked(s, w, x) = [s EXCEPT !.pending[to] = InsertAt(p, k, x)]
  <2>1. CASE "QUEUED" \in s.flags[w]
    BY <2>1 DEF queue_flusher_locked, FlusherPlace
  <2>2. CASE "QUEUED" \notin s.flags[w]
    <3>1. InsertAt(p, 1, x) = <<x>> \o p
      <4>1. SubSeq(p, 1, 0) = <<>> /\ SubSeq(p, 1, Len(p)) = p
        BY <1>2
      <4>2. <<>> \o <<x>> = <<x>>
        OBVIOUS
      <4> QED
        BY <4>1, <4>2 DEF InsertAt
    <3> QED
      BY <2>2, <3>1 DEF queue_flusher_locked, FlusherPlace
  <2> QED
    BY <2>1, <2>2
<1> QED
  BY <1>1, <1>2, <1>3, <1>4

(***************************************************************************)
(* work_flush_locked(): the flusher of a thread that is in no list goes    *)
(* into one.                                                               *)
(***************************************************************************)
LEMMA FlushCoherent ==
    ASSUME NEW s, Coherent(s), NEW w \in Works, NEW x \in Threads, NeedsFlush(s, w),
           \A q \in Queues : x \notin ToSet(s.pending[q])
    PROVE  /\ Coherent(work_flush_locked(s, w, x))
           /\ \E to \in Queues : \A q \in Queues, y \in Threads :
                y \in ToSet(work_flush_locked(s, w, x).pending[q])
                  <=> y \in ToSet(s.pending[q]) \/ (y = x /\ q = to)
<1>0. s \in StateType /\ Matches(s) /\ CancelsKeptOut(s) /\ HandlerHasItem(s)
  BY DEF Coherent
<1> DEFINE to == s.queue[w]
           p == s.pending[to]
           k == FlusherPlace(s, w, p)
<1>1. /\ to \in Queues /\ k \in 1..(Len(p) + 1)
      /\ queue_flusher_locked(s, w, x) = [s EXCEPT !.pending[to] = InsertAt(p, k, x)]
  BY FlusherPlaced
<1>2. p \in Seq(Entries) /\ Distinct(p) /\ x \in Entries /\ x \notin ToSet(p) /\ Len(p) \in Nat
  BY <1>0, <1>1 DEF StateType, Matches, Entries
<1> DEFINE r == InsertAt(p, k, x)
<1>5. r \in Seq(Entries) /\ Distinct(r) /\ ToSet(r) = ToSet(p) \cup {x}
  <2> HIDE DEF p, k
  <2> QED
    BY <1>1, <1>2, InsertDistinct
<1>6. PICK a : a = [s EXCEPT !.pending[to] = r]
  OBVIOUS
<1>7. work_flush_locked(s, w, x) = notify_queue_locked(a, to)
  BY <1>1, <1>6 DEF work_flush_locked
<1> HIDE DEF r, k, to
<1>8. a = [flags |-> s.flags, queue |-> s.queue, pending |-> [s.pending EXCEPT ![to] = r],
           worker |-> s.worker]
  BY <1>0, <1>6 DEF StateType
<1>9. /\ a.flags = s.flags /\ a.queue = s.queue /\ a.worker = s.worker
      /\ a.pending[to] = r
      /\ \A q \in Queues : q # to => a.pending[q] = s.pending[q]
  BY <1>0, <1>1, <1>8 DEF StateType
<1>10. a \in StateType
  BY <1>0, <1>1, <1>5, <1>8 DEF StateType
<1>11. \A q \in Queues : Distinct(a.pending[q])
  BY <1>0, <1>5, <1>9 DEF Matches
<1>12. \A v \in Works : v # x
  BY WorkAssumption DEF Callers
<1>13. \A q \in Queues, v \in Works : v \in ToSet(a.pending[q]) <=> v \in ToSet(s.pending[q])
  BY <1>5, <1>9, <1>12
<1>14. Matches(a)
  BY <1>0, <1>9, <1>11, <1>13 DEF Matches
<1>15. CancelsKeptOut(a) /\ HandlerHasItem(a)
  BY <1>0, <1>9 DEF CancelsKeptOut, HandlerHasItem
<1>16. Coherent(a)
  BY <1>10, <1>14, <1>15 DEF Coherent
<1>17. \A q \in Queues, y \in Threads :
         y \in ToSet(a.pending[q]) <=> y \in ToSet(s.pending[q]) \/ (y = x /\ q = to)
  BY <1>5, <1>9
<1>18. Coherent(notify_queue_locked(a, to)) /\ SameFlushers(a, notify_queue_locked(a, to))
  BY <1>1, <1>16, NotifyCoherent
<1>19. \A q \in Queues, y \in Threads :
         y \in ToSet(notify_queue_locked(a, to).pending[q])
           <=> y \in ToSet(s.pending[q]) \/ (y = x /\ q = to)
  BY <1>17, <1>18 DEF SameFlushers
<1> QED
  BY <1>1, <1>7, <1>18, <1>19

-----------------------------------------------------------------------------
(* The inductive invariant.                                                *)

CallRec ==
    [op : {"none", "reschedule", "cancel", "cancel_sync", "flush", "drain", "stop"},
     pc : {"idle", "retry", "wait"}, work : Works \cup {None},
     queue : Queues \cup {None}, delay : {"now", "later", "forever"}]

\* An operation that drops the lock to try again is one on an item, and only
\* a thread waits for an item.
RetryOK(x, c) ==
    c.pc = "retry" => /\ c.work \in Works
                      /\ c.op \in {"reschedule", "cancel", "cancel_sync", "flush"}
                      /\ c.op \in {"cancel_sync", "flush"} => x \in Threads

CallInv == call \in [Callers -> CallRec] /\ \A x \in Callers : RetryOK(x, call[x])

WaitsFor(x, op) == call[x].op = op /\ call[x].pc = "wait"

\* A canceller is in the list once, while it waits.
CancelInv ==
    /\ pending_cancels \in Seq(Threads) /\ Distinct(pending_cancels)
    /\ \A x \in ToSet(pending_cancels) : WaitsFor(x, "cancel_sync")

\* A flusher is in one list or is being handled, while its thread waits.
FlushInv ==
    \A x \in Threads, q \in Queues :
        /\ x \in ToSet(pending[q]) \/ current[q] = x => WaitsFor(x, "flush")
        /\ \A r \in Queues :
            /\ x \in ToSet(pending[q]) => current[r] # x
            /\ x \in ToSet(pending[q]) /\ x \in ToSet(pending[r]) => q = r
            /\ current[q] = x /\ current[r] = x => q = r

DataType ==
    /\ delay_queue \in [Works -> Queues \cup {None}]
    /\ qflags \in [Queues -> SUBSET {"STARTED", "BUSY", "DRAIN", "PLUGGED", "STOP"}]
    /\ current \in [Queues -> Entries \cup {None}]
    /\ assert_failed \in BOOLEAN
    /\ forever \subseteq Works

\* work_timeout() runs for an item.
DispatchInv ==
    /\ DispatchTypeOK
    /\ handler \in {"idle", "entered", "done"}
    /\ handler = "entered" => inflight_timeout \in Works

WInv == Coherent(State) /\ CallInv /\ CancelInv /\ FlushInv /\ DataType /\ DispatchInv

(***************************************************************************)
(* No queue thread, thread, interrupt or item is None.                     *)
(***************************************************************************)
LEMMA NotNone == None \notin Works /\ None \notin Callers /\ None \notin Entries
  BY WorkAssumption, DispatchAssumption DEF Works, Callers, Entries

(***************************************************************************)
(* A step that stores a coherent record and handles nothing new.           *)
(***************************************************************************)
LEMMA CommitCoherent ==
    ASSUME NEW s, Coherent(s), Commit(s), UNCHANGED current
    PROVE  Coherent(State)' /\ State' = s
<1>1. State' = s
  BY DEF State, Commit, Coherent, StateType
<1>2. (State \in StateType)'
  BY <1>1 DEF Coherent, StateType, Entries, WorkerStates
<1>3. Matches(State)' /\ CancelsKeptOut(State)' /\ HandlerHasItem(State)'
  BY <1>1 DEF Coherent, Matches, CancelsKeptOut, HandlerHasItem
<1> QED
  BY <1>1, <1>2, <1>3 DEF Coherent

(***************************************************************************)
(* A step of a call by x, which waits neither for a cancellation nor for a *)
(* flusher before the step and after it.                                   *)
(***************************************************************************)
LEMMA PlainCall ==
    ASSUME CallInv, CancelInv, FlushInv, NEW x \in Callers,
           call[x].pc # "wait" \/ call[x].op \notin {"cancel_sync", "flush"},
           NEW c \in CallRec, RetryOK(x, c), call' = [call EXCEPT ![x] = c],
           UNCHANGED <<current, pending_cancels>>,
           \A q \in Queues, y \in Threads : y \in ToSet(pending'[q]) <=> y \in ToSet(pending[q])
    PROVE  CallInv' /\ CancelInv' /\ FlushInv' /\ \A y \in Callers : y # x => call'[y] = call[y]
<1>1. call'[x] = c /\ \A y \in Callers : y # x => call'[y] = call[y]
  BY DEF CallInv
<1>2. CallInv'
  BY <1>1 DEF CallInv, RetryOK
<1>3. \A y \in Threads : y \in Callers
  BY DEF Callers
<1>4. CancelInv'
  <2>1. ToSet(pending_cancels) \subseteq Threads
    BY DEF CancelInv, ToSet
  <2>2. \A y \in ToSet(pending_cancels) : y # x /\ y \in Callers
    BY <1>3, <2>1 DEF CancelInv, WaitsFor
  <2> QED
    BY <1>1, <2>2 DEF CancelInv, WaitsFor
<1>5. FlushInv'
  <2>1. \A y \in Threads, q \in Queues : y \in ToSet(pending[q]) \/ current[q] = y => y # x
    BY DEF FlushInv, WaitsFor
  <2>2. \A y \in Threads : WaitsFor(y, "flush") /\ y # x => WaitsFor(y, "flush")'
    BY <1>1, <1>3 DEF WaitsFor
  <2> QED
    BY <2>1, <2>2 DEF FlushInv
<1> QED
  BY <1>1, <1>2, <1>4, <1>5

(***************************************************************************)
(* A call by thread x that waits for a cancellation.                       *)
(***************************************************************************)
LEMMA CancelCall ==
    ASSUME CallInv, CancelInv, FlushInv, NEW x \in Threads, call[x].pc # "wait",
           NEW c \in CallRec, c.op = "cancel_sync", c.pc = "wait",
           call' = [call EXCEPT ![x] = c],
           UNCHANGED current, pending_cancels' = Append(pending_cancels, x),
           \A q \in Queues, y \in Threads : y \in ToSet(pending'[q]) <=> y \in ToSet(pending[q])
    PROVE  CallInv' /\ CancelInv' /\ FlushInv' /\ \A y \in Callers : y # x => call'[y] = call[y]
<1>1. call'[x] = c /\ \A y \in Callers : y # x => call'[y] = call[y]
  BY DEF CallInv, Callers
<1>2. CallInv'
  BY <1>1 DEF CallInv, RetryOK, Callers
<1>3. \A y \in Threads : y \in Callers
  BY DEF Callers
<1>4. CancelInv'
  <2>1. ToSet(pending_cancels) \subseteq Threads
    BY DEF CancelInv, ToSet
  <2>2. x \notin ToSet(pending_cancels)
    BY DEF CancelInv, WaitsFor
  <2>3. /\ pending_cancels' \in Seq(Threads) /\ Distinct(pending_cancels')
        /\ ToSet(pending_cancels') = ToSet(pending_cancels) \cup {x}
    BY <2>2, AppendDistinct DEF CancelInv
  <2> QED
    BY <1>1, <1>3, <2>1, <2>2, <2>3 DEF CancelInv, WaitsFor
<1>5. FlushInv'
  <2>1. \A y \in Threads, q \in Queues : y \in ToSet(pending[q]) \/ current[q] = y => y # x
    BY DEF FlushInv, WaitsFor
  <2>2. \A y \in Threads : WaitsFor(y, "flush") /\ y # x => WaitsFor(y, "flush")'
    BY <1>1, <1>3 DEF WaitsFor
  <2> QED
    BY <2>1, <2>2 DEF FlushInv
<1> QED
  BY <1>1, <1>2, <1>4, <1>5

(***************************************************************************)
(* A call by thread x that waits for a flusher.                            *)
(***************************************************************************)
LEMMA FlushCall ==
    ASSUME CallInv, CancelInv, FlushInv, NEW x \in Threads, call[x].pc # "wait",
           NEW c \in CallRec, c.op = "flush", c.pc = "wait", call' = [call EXCEPT ![x] = c],
           UNCHANGED <<current, pending_cancels>>, NEW to \in Queues,
           \A q \in Queues, y \in Threads :
              y \in ToSet(pending'[q]) <=> y \in ToSet(pending[q]) \/ (y = x /\ q = to)
    PROVE  CallInv' /\ CancelInv' /\ FlushInv' /\ \A y \in Callers : y # x => call'[y] = call[y]
<1>1. call'[x] = c /\ \A y \in Callers : y # x => call'[y] = call[y]
  BY DEF CallInv, Callers
<1>2. CallInv'
  BY <1>1 DEF CallInv, RetryOK, Callers
<1>3. \A y \in Threads : y \in Callers
  BY DEF Callers
<1>4. CancelInv'
  <2>1. ToSet(pending_cancels) \subseteq Threads
    BY DEF CancelInv, ToSet
  <2>2. \A y \in ToSet(pending_cancels) : y # x /\ y \in Callers
    BY <1>3, <2>1 DEF CancelInv, WaitsFor
  <2> QED
    BY <1>1, <2>2 DEF CancelInv, WaitsFor
<1>5. FlushInv'
  <2>1. \A y \in Threads, q \in Queues : y \in ToSet(pending[q]) \/ current[q] = y => y # x
    BY DEF FlushInv, WaitsFor
  <2>2. \A y \in Threads : WaitsFor(y, "flush") /\ y # x => WaitsFor(y, "flush")'
    BY <1>1, <1>3 DEF WaitsFor
  <2>3. WaitsFor(x, "flush")'
    BY <1>1 DEF WaitsFor
  <2>4. ASSUME NEW y \in Threads, y # x, NEW q \in Queues
        PROVE  /\ y \in ToSet(pending'[q]) \/ current'[q] = y => WaitsFor(y, "flush")'
               /\ \A r \in Queues :
                    /\ y \in ToSet(pending'[q]) => current'[r] # y
                    /\ y \in ToSet(pending'[q]) /\ y \in ToSet(pending'[r]) => q = r
                    /\ current'[q] = y /\ current'[r] = y => q = r
    BY <2>2, <2>4 DEF FlushInv
  <2>5. ASSUME NEW q \in Queues
        PROVE  /\ x \in ToSet(pending'[q]) \/ current'[q] = x => WaitsFor(x, "flush")'
               /\ \A r \in Queues :
                    /\ x \in ToSet(pending'[q]) => current'[r] # x
                    /\ x \in ToSet(pending'[q]) /\ x \in ToSet(pending'[r]) => q = r
                    /\ current'[q] = x /\ current'[r] = x => q = r
    BY <2>1, <2>3
  <2> QED
    BY <2>4, <2>5 DEF FlushInv
<1> QED
  BY <1>1, <1>2, <1>4, <1>5

-----------------------------------------------------------------------------
(* The API of work items.                                                  *)

\* What a step of caller x establishes, apart from what it leaves alone.
CallStep(x) ==
    /\ Coherent(State)' /\ CallInv' /\ CancelInv' /\ FlushInv'
    /\ active' \subseteq Timeouts
    /\ delay_queue' \in [Works -> Queues \cup {None}]
    /\ assert_failed' \in BOOLEAN /\ forever' \subseteq Works
    /\ \A y \in Callers : y # x => call'[y] = call[y]

\* The flushers of the record are those of the state.
Kept(s) == Coherent(s) /\ SameFlushers(State, s)

(***************************************************************************)
(* The record of a call that has returned.                                 *)
(***************************************************************************)
LEMMA IdleRecord == Idle \in CallRec /\ \A x : RetryOK(x, Idle)
<1>1. Idle \in CallRec
  BY DEF Idle, CallRec
<1>2. Idle.pc = "idle"
  BY DEF Idle
<1> QED
  BY <1>1, <1>2 DEF RetryOK

(***************************************************************************)
(* A call that waits is recorded as such.                                  *)
(***************************************************************************)
LEMMA WaitRecord ==
    ASSUME NEW x, NEW op \in {"cancel_sync", "flush", "drain", "stop"},
           NEW w \in Works \cup {None}, NEW q \in Queues \cup {None}, Waits(x, op, w, q)
    PROVE  \E c \in CallRec : /\ c.op = op /\ c.pc = "wait" /\ RetryOK(x, c)
                              /\ call' = [call EXCEPT ![x] = c]
<1>1. PICK c : c = [Idle EXCEPT !.op = op, !.pc = "wait", !.work = w, !.queue = q]
  OBVIOUS
<1>2. c = [op |-> op, pc |-> "wait", work |-> w, queue |-> q, delay |-> "now"]
  BY <1>1 DEF Idle
<1>3. c \in CallRec /\ c.op = op /\ c.pc = "wait"
  BY <1>2 DEF CallRec
<1>4. RetryOK(x, c)
  BY <1>3 DEF RetryOK
<1>5. call' = [call EXCEPT ![x] = c]
  BY <1>1 DEF Waits
<1> QED
  BY <1>3, <1>4, <1>5

(***************************************************************************)
(* schedule_for_queue_locked().                                            *)
(***************************************************************************)
LEMMA ScheduleStep ==
    ASSUME WInv, NEW x \in Callers, call[x].pc # "wait", UNCHANGED current,
           NEW s, Kept(s), NEW act \in SUBSET Timeouts, NEW w \in Works,
           NEW q \in Queues \cup {None}, NEW delay,
           schedule_for_queue_locked(x, s, act, w, q, delay)
    PROVE  CallStep(x)
<1>0. s \in StateType /\ Coherent(s) /\ SameFlushers(State, s) /\ w \in Timeouts
  BY DEF Kept, Coherent, Works
<1>1. PICK r : /\ Commit(r) /\ Coherent(r) /\ SameFlushers(s, r)
               /\ active' \subseteq Timeouts
               /\ delay_queue' \in [Works -> Queues \cup {None}]
               /\ assert_failed' \in BOOLEAN /\ forever' \subseteq Works
  <2>1. CASE delay = "now"
    <3>1. PICK r : r = submit_to_queue_locked(x, s, w, q)
      OBVIOUS
    <3>2. Coherent(r) /\ SameFlushers(s, r)
      BY <1>0, <3>1, SubmitCoherent
    <3>3. Commit(r) /\ active' = act /\ UNCHANGED <<delay_queue, assert_failed, forever>>
      BY <2>1, <3>1 DEF schedule_for_queue_locked
    <3> QED
      BY <3>2, <3>3 DEF WInv, DataType
  <2>2. CASE delay # "now"
    <3>1. PICK r : r = [s EXCEPT !.flags[w] = @ \cup {"DELAYED"}]
      OBVIOUS
    <3>2. r = [flags |-> [s.flags EXCEPT ![w] = @ \cup {"DELAYED"}], queue |-> s.queue,
               pending |-> s.pending, worker |-> s.worker]
      BY <1>0, <3>1 DEF StateType
    <3>3. /\ r.flags[w] = s.flags[w] \cup {"DELAYED"} /\ r.queue = s.queue
          /\ r.pending = s.pending /\ r.worker = s.worker
          /\ \A v \in Works : v # w => r.flags[v] = s.flags[v]
      BY <1>0, <3>2 DEF StateType
    <3>4. r \in StateType
      BY <1>0, <3>2 DEF StateType
    <3>5. "CANCELING" \in r.flags[w] => "QUEUED" \notin r.flags[w]
      BY <1>0, <3>3 DEF Coherent, CancelsKeptOut
    <3>6. Coherent(r) /\ SameFlushers(s, r)
      BY <1>0, <3>3, <3>4, <3>5, FlagsCoherent
    <3>7. /\ Commit(r) /\ active' \in {act, act \cup {w}}
          /\ delay_queue' = [delay_queue EXCEPT ![w] = q]
          /\ assert_failed' = assert_failed \/ assert_failed' = (w \in act)
          /\ forever' \in {forever \cup {w}, forever \ {w}}
      BY <2>2, <3>1 DEF schedule_for_queue_locked
    <3>8. active' \subseteq Timeouts /\ forever' \subseteq Works
      BY <1>0, <3>7 DEF WInv, DataType
    <3>9. delay_queue' \in [Works -> Queues \cup {None}]
      BY <3>7 DEF WInv, DataType
    <3>10. assert_failed \in BOOLEAN /\ (w \in act) \in BOOLEAN
      BY DEF WInv, DataType
    <3>11. assert_failed' \in BOOLEAN
      BY <3>7, <3>10, Zenon
    <3> QED
      BY <3>6, <3>7, <3>8, <3>9, <3>11
  <2> QED
    BY <2>1, <2>2
<1>2. Coherent(State)' /\ State' = r
  BY <1>1, CommitCoherent
<1>3. \A k \in Queues, y \in Threads : y \in ToSet(pending'[k]) <=> y \in ToSet(pending[k])
  BY <1>0, <1>1 DEF SameFlushers, Commit, State
<1>4. call' = [call EXCEPT ![x] = Idle] /\ UNCHANGED pending_cancels
  BY DEF schedule_for_queue_locked, Returns
<1>5. CallInv' /\ CancelInv' /\ FlushInv' /\ \A y \in Callers : y # x => call'[y] = call[y]
  BY <1>3, <1>4, IdleRecord, PlainCall DEF WInv
<1> QED
  BY <1>1, <1>2, <1>5 DEF CallStep

(***************************************************************************)
(* k_work_cancel() and k_work_cancel_sync() behind unschedule_locked().    *)
(***************************************************************************)
LEMMA CancelStep ==
    ASSUME WInv, NEW x \in Callers, call[x].pc # "wait", UNCHANGED current,
           NEW s, Kept(s), NEW act \in SUBSET Timeouts, NEW w \in Works,
           CancelRest(x, s, act, w) \/ (x \in Threads /\ CancelSyncRest(x, s, act, w))
    PROVE  CallStep(x)
<1>0. Coherent(s) /\ SameFlushers(State, s)
  BY DEF Kept
<1>1. PICK r : r = cancel_async_locked(s, w)
  OBVIOUS
<1>2. Coherent(r) /\ SameFlushers(s, r)
  BY <1>0, <1>1, CancelCoherent
<1>3. Commit(r) /\ active' = act /\ UNCHANGED <<delay_queue, assert_failed, forever>>
  BY <1>1 DEF CancelRest, CancelSyncRest
<1>4. Coherent(State)' /\ State' = r
  BY <1>2, <1>3, CommitCoherent
<1>5. \A k \in Queues, y \in Threads : y \in ToSet(pending'[k]) <=> y \in ToSet(pending[k])
  BY <1>0, <1>2, <1>3 DEF SameFlushers, Commit, State
<1>6. CallInv' /\ CancelInv' /\ FlushInv' /\ \A y \in Callers : y # x => call'[y] = call[y]
  <2>1. CASE call' = [call EXCEPT ![x] = Idle] /\ UNCHANGED pending_cancels
    BY <1>5, <2>1, IdleRecord, PlainCall DEF WInv
  <2>2. CASE /\ x \in Threads
             /\ pending_cancels' = Append(pending_cancels, x)
             /\ Waits(x, "cancel_sync", w, None)
    <3>1. PICK c \in CallRec : /\ c.op = "cancel_sync" /\ c.pc = "wait"
                               /\ call' = [call EXCEPT ![x] = c]
      <4>1. w \in Works \cup {None} /\ None \in Queues \cup {None} /\ Waits(x, "cancel_sync", w, None)
        BY <2>2
      <4> QED
        BY <4>1, WaitRecord
    <3> QED
      BY <1>5, <2>2, <3>1, CancelCall DEF WInv
  <2> QED
    BY <2>1, <2>2 DEF CancelRest, CancelSyncRest, Returns
<1> QED
  BY <1>3, <1>4, <1>6 DEF CallStep, WInv, DataType

(***************************************************************************)
(* k_work_flush() behind unschedule_locked().                              *)
(***************************************************************************)
LEMMA FlushStep ==
    ASSUME WInv, NEW x \in Threads, call[x].pc # "wait", UNCHANGED current,
           NEW s, Kept(s), NEW act \in SUBSET Timeouts, NEW w \in Works, NEW claimed,
           FlushRest(x, s, act, w, claimed)
    PROVE  CallStep(x)
<1>0. Coherent(s) /\ SameFlushers(State, s) /\ x \in Callers
  BY DEF Kept, Callers
<1>1. PICK r : r = IF claimed THEN submit_to_queue_locked(x, s, w, delay_queue[w]) ELSE s
  OBVIOUS
<1>2. Coherent(r) /\ SameFlushers(s, r)
  <2>1. CASE claimed
    <3>1. delay_queue[w] \in Queues \cup {None}
      BY DEF WInv, DataType
    <3> QED
      BY <1>0, <1>1, <2>1, <3>1, SubmitCoherent
  <2>2. CASE ~claimed
    BY <1>0, <1>1, <2>2 DEF SameFlushers
  <2> QED
    BY <2>1, <2>2
<1>3. /\ Commit(work_flush_locked(r, w, x)) /\ active' = act
      /\ IF NeedsFlush(r, w) THEN Waits(x, "flush", w, None) ELSE Returns(x)
      /\ UNCHANGED <<delay_queue, assert_failed, forever, pending_cancels>>
  BY <1>1 DEF FlushRest
<1>4. \A k \in Queues, y \in Threads : y \in ToSet(r.pending[k]) <=> y \in ToSet(pending[k])
  BY <1>0, <1>2 DEF SameFlushers, State
<1>5. CASE ~NeedsFlush(r, w)
  <2>1. Commit(r) /\ call' = [call EXCEPT ![x] = Idle]
    BY <1>3, <1>5 DEF work_flush_locked, Returns
  <2>2. Coherent(State)'
    BY <1>2, <2>1, CommitCoherent
  <2>3. \A k \in Queues, y \in Threads : y \in ToSet(pending'[k]) <=> y \in ToSet(pending[k])
    BY <1>4, <2>1 DEF Commit
  <2>4. CallInv' /\ CancelInv' /\ FlushInv' /\ \A y \in Callers : y # x => call'[y] = call[y]
    BY <1>0, <1>3, <2>1, <2>3, IdleRecord, PlainCall DEF WInv
  <2> QED
    BY <1>3, <2>2, <2>4 DEF CallStep, WInv, DataType
<1>6. CASE NeedsFlush(r, w)
  <2>1. \A k \in Queues : x \notin ToSet(r.pending[k])
    BY <1>4 DEF WInv, FlushInv, WaitsFor
  <2>2. PICK f : f = work_flush_locked(r, w, x)
    OBVIOUS
  <2>3. /\ Coherent(f)
        /\ \E to \in Queues : \A q \in Queues, y \in Threads :
             y \in ToSet(f.pending[q]) <=> y \in ToSet(r.pending[q]) \/ (y = x /\ q = to)
    BY <1>2, <1>6, <2>1, <2>2, FlushCoherent
  <2>4. Commit(f)
    BY <1>3, <2>2
  <2>5. Coherent(State)'
    BY <2>3, <2>4, CommitCoherent
  <2>6. PICK to \in Queues : \A q \in Queues, y \in Threads :
             y \in ToSet(pending'[q]) <=> y \in ToSet(pending[q]) \/ (y = x /\ q = to)
    BY <1>4, <2>3, <2>4 DEF Commit
  <2>7. PICK c \in CallRec : c.op = "flush" /\ c.pc = "wait" /\ call' = [call EXCEPT ![x] = c]
    <3>1. w \in Works \cup {None} /\ None \in Queues \cup {None} /\ Waits(x, "flush", w, None)
      BY <1>3, <1>6
    <3> QED
      BY <3>1, WaitRecord
  <2>8. CallInv' /\ CancelInv' /\ FlushInv' /\ \A y \in Callers : y # x => call'[y] = call[y]
    BY <1>3, <2>6, <2>7, FlushCall DEF WInv
  <2> QED
    BY <1>3, <2>5, <2>8 DEF CallStep, WInv, DataType
<1> QED
  BY <1>5, <1>6

(***************************************************************************)
(* What is left of an operation behind unschedule_locked().                *)
(***************************************************************************)
LEMMA RestStep ==
    ASSUME WInv, NEW x \in Callers, call[x].pc # "wait", UNCHANGED current,
           NEW op, op \in {"cancel_sync", "flush"} => x \in Threads,
           NEW w \in Works, NEW q \in Queues \cup {None}, NEW delay,
           NEW s, Kept(s), NEW act \in SUBSET Timeouts, NEW claimed,
           Rest(x, op, w, q, delay, s, act, claimed)
    PROVE  CallStep(x)
<1>1. CASE schedule_for_queue_locked(x, s, act, w, q, delay)
  BY <1>1, ScheduleStep
<1>2. CASE CancelRest(x, s, act, w) \/ (x \in Threads /\ CancelSyncRest(x, s, act, w))
  BY <1>2, CancelStep
<1>3. CASE x \in Threads /\ FlushRest(x, s, act, w, claimed)
  BY <1>3, FlushStep
<1> QED
  BY <1>1, <1>2, <1>3 DEF Rest

(***************************************************************************)
(* unschedule_locked(), from its first try or a later one: it goes on with *)
(* the operation or drops the lock to try again.                           *)
(***************************************************************************)
LEMMA TryStep ==
    ASSUME WInv, NEW x \in Callers, call[x].pc # "wait", UNCHANGED current,
           NEW op \in {"reschedule", "cancel", "cancel_sync", "flush"},
           op \in {"cancel_sync", "flush"} => x \in Threads,
           NEW w \in Works, NEW q \in Queues \cup {None}, NEW delay \in {"now", "later", "forever"},
           NEW s, Kept(s), NEW c, TryUnschedule(x, c, op, w, q, delay, s)
    PROVE  CallStep(x) /\ superseded' \in BOOLEAN
<1>0. superseded' \in BOOLEAN
  BY DEF TryUnschedule
<1>1. CASE AbortResult(c, w) # "EAGAIN"
  <2>1. Rest(x, op, w, q, delay, s, active \ {w}, TRUE)
    BY <1>1 DEF TryUnschedule
  <2>2. active \ {w} \in SUBSET Timeouts
    BY DEF WInv, DispatchInv, DispatchTypeOK
  <2>3. PICK act \in SUBSET Timeouts : act = active \ {w}
    BY <2>2
  <2>4. PICK claimed : claimed = TRUE
    OBVIOUS
  <2>5. Rest(x, op, w, q, delay, s, act, claimed)
    BY <2>1, <2>3, <2>4
  <2> QED
    BY <1>0, <2>5, RestStep
<1>2. CASE AbortResult(c, w) = "EAGAIN"
  <2>1. /\ call' = [call EXCEPT ![x] = [op |-> op, pc |-> "retry", work |-> w,
                                        queue |-> q, delay |-> delay]]
        /\ Commit(s)
        /\ UNCHANGED <<active, delay_queue, assert_failed, forever, pending_cancels>>
    BY <1>2 DEF TryUnschedule
  <2>2. PICK r \in CallRec : call' = [call EXCEPT ![x] = r] /\ RetryOK(x, r)
    <3>1. PICK r : r = [op |-> op, pc |-> "retry", work |-> w, queue |-> q, delay |-> delay]
      OBVIOUS
    <3>2. r \in CallRec /\ r.op = op /\ r.work = w
      BY <3>1 DEF CallRec
    <3>3. RetryOK(x, r)
      BY <3>2 DEF RetryOK
    <3>4. call' = [call EXCEPT ![x] = r]
      BY <2>1, <3>1
    <3> QED
      BY <3>2, <3>3, <3>4
  <2>3. Coherent(State)'
    BY <2>1, CommitCoherent DEF Kept
  <2>4. \A k \in Queues, y \in Threads : y \in ToSet(pending'[k]) <=> y \in ToSet(pending[k])
    BY <2>1 DEF Kept, SameFlushers, Commit, State
  <2>5. CallInv' /\ CancelInv' /\ FlushInv' /\ \A y \in Callers : y # x => call'[y] = call[y]
    BY <2>1, <2>2, <2>4, PlainCall DEF WInv
  <2> QED
    BY <1>0, <2>1, <2>3, <2>5 DEF CallStep, WInv, DataType, DispatchInv, DispatchTypeOK
<1> QED
  BY <1>1, <1>2

-----------------------------------------------------------------------------
(* Every step keeps the invariant, and a canceller is released only when   *)
(* its item is idle.                                                       *)

CancelDone ==
    \A y \in Threads : WaitsFor(y, "cancel_sync") /\ call'[y] = Idle
                         => flags'[call[y].work] \subseteq {"DELAYED"}

StepOK == WInv' /\ CancelDone

(***************************************************************************)
(* A step in which no thread that waits for a cancellation returns.        *)
(***************************************************************************)
LEMMA NobodyReleased ==
    ASSUME \A y \in Threads : WaitsFor(y, "cancel_sync") => call'[y] = call[y]
    PROVE  CancelDone
<1>1. Idle.pc # "wait"
  BY DEF Idle
<1> QED
  BY <1>1 DEF CancelDone, WaitsFor

(***************************************************************************)
(* The state as it is, and with DELAYED cleared as unschedule_locked() and *)
(* work_timeout() do.                                                      *)
(***************************************************************************)
LEMMA StateKept ==
    ASSUME WInv
    PROVE  /\ Kept(State)
           /\ \A w \in Works : Kept([State EXCEPT !.flags[w] = @ \ {"DELAYED"}])
<1>1. Kept(State)
  BY DEF WInv, Kept, SameFlushers
<1>2. ASSUME NEW w \in Works PROVE Kept([State EXCEPT !.flags[w] = @ \ {"DELAYED"}])
  <2>1. PICK s : s = State
    OBVIOUS
  <2>2. PICK r : r = [s EXCEPT !.flags[w] = @ \ {"DELAYED"}]
    OBVIOUS
  <2>3. Coherent(s) /\ s \in StateType
    BY <2>1 DEF WInv, Coherent
  <2>4. r = [flags |-> [s.flags EXCEPT ![w] = @ \ {"DELAYED"}], queue |-> s.queue,
             pending |-> s.pending, worker |-> s.worker]
    BY <2>2, <2>3 DEF StateType
  <2>5. /\ r.flags[w] = s.flags[w] \ {"DELAYED"} /\ r.queue = s.queue
        /\ r.pending = s.pending /\ r.worker = s.worker
        /\ \A v \in Works : v # w => r.flags[v] = s.flags[v]
    BY <2>3, <2>4 DEF StateType
  <2>6. r \in StateType
    BY <2>3, <2>4 DEF StateType
  <2>7. "CANCELING" \in r.flags[w] => "QUEUED" \notin r.flags[w]
    BY <2>3, <2>5 DEF Coherent, CancelsKeptOut
  <2>8. Coherent(r) /\ SameFlushers(s, r)
    BY <2>3, <2>5, <2>6, <2>7, FlagsCoherent
  <2> QED
    BY <2>1, <2>2, <2>8 DEF Kept
<1> QED
  BY <1>1, <1>2

(***************************************************************************)
(* The operations on items, from the call or back under the lock.          *)
(***************************************************************************)
LEMMA ItemStep ==
    ASSUME WInv, NEW x \in Callers, NEW c,
           ItemCall(x, c) \/ unschedule_locked(x, c)
    PROVE  StepOK
<1>0. Kept(State) /\ \A w \in Works : Kept([State EXCEPT !.flags[w] = @ \ {"DELAYED"}])
  BY StateKept
<1>1. Idle.pc # "wait"
  BY DEF Idle
<1>2. UNCHANGED <<announcing_cpu, inflight_timeout, qflags, current, handler>>
  BY DEF ItemCall, k_work_schedule, k_work_reschedule, k_work_cancel, k_work_cancel_sync,
         k_work_flush, Unscheduling, unschedule_locked
<1>3. active \in SUBSET Timeouts /\ superseded \in BOOLEAN
  BY DEF WInv, DispatchInv, DispatchTypeOK
<1>4. call[x].pc # "wait" /\ CallStep(x) /\ superseded' \in BOOLEAN
  <2>1. ASSUME NEW w \in Works, NEW q \in Queues, NEW d \in Delays, k_work_schedule(x, c, w, q, d)
        PROVE  call[x].pc # "wait" /\ CallStep(x) /\ superseded' \in BOOLEAN
    <3>1. PICK s : s = State
      OBVIOUS
    <3>2. /\ call[x] = Idle /\ schedule_for_queue_locked(x, s, active, w, q, d)
          /\ UNCHANGED superseded
      BY <2>1, <3>1 DEF k_work_schedule, May
    <3>3. call[x].pc # "wait" /\ Kept(s) /\ superseded' \in BOOLEAN
      BY <1>0, <1>1, <1>3, <3>1, <3>2
    <3> QED
      BY <1>2, <1>3, <3>2, <3>3, ScheduleStep
  <2>2. ASSUME NEW w \in Works, NEW q \in Queues \cup {None}, NEW d \in {"now", "later", "forever"},
               NEW op \in {"reschedule", "cancel", "cancel_sync", "flush"},
               Unscheduling(x, c, op, w, q, d)
        PROVE  call[x].pc # "wait" /\ CallStep(x) /\ superseded' \in BOOLEAN
    <3>1. call[x] = Idle /\ op \in Ops[x]
      BY <2>2 DEF Unscheduling, May
    <3>2. call[x].pc # "wait"
      BY <1>1, <3>1
    <3>3. op \in {"cancel_sync", "flush"} => x \in Threads
      BY <3>1, WorkAssumption
    <3>4. CASE "DELAYED" \in flags[w]
      <4>1. PICK s : s = [State EXCEPT !.flags[w] = @ \ {"DELAYED"}]
        OBVIOUS
      <4>2. TryUnschedule(x, c, op, w, q, d, s)
        BY <2>2, <3>4, <4>1 DEF Unscheduling
      <4>3. Kept(s)
        BY <1>0, <4>1
      <4> QED
        BY <1>2, <3>2, <3>3, <4>2, <4>3, TryStep
    <3>5. CASE "DELAYED" \notin flags[w]
      <4>1. PICK s, claimed : s = State /\ claimed = FALSE
        OBVIOUS
      <4>2. Rest(x, op, w, q, d, s, active, claimed) /\ UNCHANGED superseded
        BY <2>2, <3>5, <4>1 DEF Unscheduling
      <4>3. Kept(s)
        BY <1>0, <4>1
      <4> QED
        BY <1>2, <1>3, <3>2, <3>3, <4>2, <4>3, RestStep
    <3> QED
      BY <3>4, <3>5
  <2>3. ASSUME unschedule_locked(x, c)
        PROVE  call[x].pc # "wait" /\ CallStep(x) /\ superseded' \in BOOLEAN
    <3>1. PICK s, op, w, q, d : /\ s = State /\ op = call[x].op /\ w = call[x].work
                                /\ q = call[x].queue /\ d = call[x].delay
      OBVIOUS
    <3>2. call[x].pc = "retry" /\ TryUnschedule(x, c, op, w, q, d, s)
      BY <2>3, <3>1 DEF unschedule_locked
    <3>3. /\ w \in Works /\ op \in {"reschedule", "cancel", "cancel_sync", "flush"}
          /\ op \in {"cancel_sync", "flush"} => x \in Threads
      BY <3>1, <3>2 DEF WInv, CallInv, RetryOK
    <3>4. q \in Queues \cup {None} /\ d \in {"now", "later", "forever"}
      BY <3>1 DEF WInv, CallInv, CallRec
    <3>5. Kept(s)
      BY <1>0, <3>1
    <3>6. call[x].pc # "wait"
      BY <3>2
    <3> QED
      BY <1>2, <3>2, <3>3, <3>4, <3>5, <3>6, TryStep
  <2>4. Delays \subseteq {"now", "later", "forever"}
    BY WorkAssumption
  <2>5. ASSUME NEW w \in Works,
               \/ \E q \in Queues, d \in Delays : k_work_reschedule(x, c, w, q, d)
               \/ k_work_cancel(x, c, w)
               \/ k_work_cancel_sync(x, c, w)
               \/ k_work_flush(x, c, w)
        PROVE  \E q \in Queues \cup {None}, d \in {"now", "later", "forever"},
                  op \in {"reschedule", "cancel", "cancel_sync", "flush"} :
                    Unscheduling(x, c, op, w, q, d)
    BY <2>4, <2>5 DEF k_work_reschedule, k_work_cancel, k_work_cancel_sync, k_work_flush
  <2> QED
    BY <2>1, <2>2, <2>3, <2>5 DEF ItemCall
<1>5. DataType' /\ DispatchInv'
  BY <1>2, <1>4 DEF WInv, DataType, DispatchInv, DispatchTypeOK, CallStep
<1>6. CancelDone
  <2>1. \A y \in Threads : WaitsFor(y, "cancel_sync") => call'[y] = call[y]
    BY <1>4 DEF CallStep, WaitsFor, Callers
  <2> QED
    BY <2>1, NobodyReleased
<1> QED
  BY <1>4, <1>5, <1>6 DEF StepOK, WInv, CallStep

(***************************************************************************)
(* The operations on queues, and the end of k_work_queue_stop().           *)
(***************************************************************************)
LEMMA QueueStep ==
    ASSUME WInv, NEW x \in Callers,
           (\E q \in Queues : QueueCall(x, q)) \/ StopReturns(x)
    PROVE  StepOK
<1>0. Idle.pc = "idle"
  BY DEF Idle
<1>1. UNCHANGED <<dispatchVars, delay_queue, current, pending_cancels, handler, assert_failed, forever>>
  BY DEF QueueCall, k_work_queue_drain, k_work_queue_unplug, k_work_queue_stop, StopReturns
<1>2. qflags' \in [Queues -> SUBSET {"STARTED", "BUSY", "DRAIN", "PLUGGED", "STOP"}]
  <2>1. ASSUME NEW q \in Queues, QueueCall(x, q)
        PROVE  qflags' \in [Queues -> SUBSET {"STARTED", "BUSY", "DRAIN", "PLUGGED", "STOP"}]
    BY <2>1 DEF WInv, DataType, QueueCall, k_work_queue_drain, k_work_queue_unplug,
                k_work_queue_stop
  <2>2. CASE StopReturns(x)
    BY <2>2 DEF WInv, DataType, StopReturns
  <2> QED
    BY <2>1, <2>2
<1>3. \/ \E q \in Queues : Commit(notify_queue_locked(State, q))
      \/ Commit(State)
  BY DEF QueueCall, k_work_queue_drain, k_work_queue_unplug, k_work_queue_stop, StopReturns,
         Commit, State
<1>4. Coherent(State)' /\ SameFlushers(State, State')
  <2>1. PICK s : s = State
    OBVIOUS
  <2>2. Coherent(s)
    BY <2>1 DEF WInv
  <2>3. CASE Commit(State)
    <3>1. Commit(s)
      BY <2>1, <2>3
    <3> QED
      BY <1>1, <2>1, <2>2, <3>1, CommitCoherent DEF SameFlushers
  <2>4. ASSUME NEW q \in Queues, Commit(notify_queue_locked(State, q))
        PROVE  Coherent(State)' /\ SameFlushers(State, State')
    <3>1. PICK r : r = notify_queue_locked(s, q)
      OBVIOUS
    <3>2. Coherent(r) /\ SameFlushers(s, r)
      BY <2>2, <3>1, NotifyCoherent
    <3>3. Commit(r)
      BY <2>1, <2>4, <3>1
    <3> QED
      BY <1>1, <2>1, <3>2, <3>3, CommitCoherent
  <2> QED
    BY <1>3, <2>3, <2>4
<1>5. \A k \in Queues, y \in Threads : y \in ToSet(pending'[k]) <=> y \in ToSet(pending[k])
  BY <1>4 DEF SameFlushers, State
<1>6. call[x].pc # "wait" \/ call[x].op \notin {"cancel_sync", "flush"}
  BY <1>0 DEF QueueCall, k_work_queue_drain, k_work_queue_unplug, k_work_queue_stop,
              StopReturns, May
<1>7. PICK c \in CallRec : RetryOK(x, c) /\ call' = [call EXCEPT ![x] = c]
  <2>1. CASE call' = call
    <3>1. call[x] \in CallRec /\ RetryOK(x, call[x]) /\ call = [call EXCEPT ![x] = call[x]]
      BY DEF WInv, CallInv
    <3> QED
      BY <2>1, <3>1
  <2>2. CASE Returns(x)
    BY <2>2, IdleRecord DEF Returns
  <2>3. ASSUME NEW q \in Queues, Waits(x, "drain", None, q) \/ Waits(x, "stop", None, q)
        PROVE  \E c \in CallRec : RetryOK(x, c) /\ call' = [call EXCEPT ![x] = c]
    <3>1. PICK op, n : /\ op \in {"cancel_sync", "flush", "drain", "stop"} /\ n \in Works \cup {None}
                       /\ q \in Queues \cup {None} /\ Waits(x, op, n, q)
      BY <2>3
    <3>2. PICK c \in CallRec : /\ c.op = op /\ c.pc = "wait" /\ RetryOK(x, c)
                               /\ call' = [call EXCEPT ![x] = c]
      BY <3>1, WaitRecord
    <3> QED
      BY <3>2
  <2>4. \/ call' = call \/ Returns(x)
        \/ \E q \in Queues : Waits(x, "drain", None, q) \/ Waits(x, "stop", None, q)
    BY DEF QueueCall, k_work_queue_drain, k_work_queue_unplug, k_work_queue_stop, StopReturns
  <2> QED
    BY <2>1, <2>2, <2>3, <2>4
<1>8. CallInv' /\ CancelInv' /\ FlushInv' /\ \A y \in Callers : y # x => call'[y] = call[y]
  BY <1>1, <1>5, <1>6, <1>7, PlainCall DEF WInv
<1>9. DataType' /\ DispatchInv'
  BY <1>1, <1>2 DEF WInv, DataType, DispatchInv, DispatchTypeOK, dispatchVars
<1>10. CancelDone
  <2>1. \A y \in Threads : WaitsFor(y, "cancel_sync") => call'[y] = call[y]
    BY <1>6, <1>8 DEF WaitsFor, Callers
  <2> QED
    BY <2>1, NobodyReleased
<1> QED
  BY <1>4, <1>8, <1>9, <1>10 DEF StepOK, WInv

(***************************************************************************)
(* The timeouts of items.                                                  *)
(***************************************************************************)
LEMMA TimeoutStep ==
    ASSUME WInv, (\E c \in Cpus : TimeoutPopped(c)) \/ work_timeout
    PROVE  StepOK
<1>1. UNCHANGED <<delay_queue, qflags, current, pending_cancels, call, assert_failed, forever>>
  BY DEF TimeoutPopped, work_timeout
<1>2. DispatchInv'
  <2>1. ASSUME NEW c \in Cpus, TimeoutPopped(c) PROVE DispatchInv'
    <3>1. StopFiring \/ \E t \in active : Fire(c, t)
      BY <2>1 DEF TimeoutPopped, Announce, HandlerReturn
    <3>2. DispatchTypeOK'
      BY <3>1 DEF WInv, DispatchInv, DispatchTypeOK, StopFiring, Fire
    <3> QED
      BY <2>1, <3>2 DEF TimeoutPopped, DispatchInv, DispatchTypeOK, Works
  <2>2. CASE work_timeout
    BY <2>2 DEF work_timeout, WInv, DispatchInv, DispatchTypeOK, dispatchVars
  <2> QED
    BY <2>1, <2>2
<1>3. Coherent(State)' /\ SameFlushers(State, State')
  <2>1. PICK r : Commit(r) /\ Kept(r)
    <3>1. CASE \E c \in Cpus : TimeoutPopped(c)
      <4>1. Commit(State)
        BY <3>1 DEF TimeoutPopped, Commit, State
      <4> QED
        BY <4>1, StateKept
    <3>2. CASE work_timeout
      <4>1. PICK w : w = inflight_timeout /\ w \in Works
        BY <3>2 DEF work_timeout, WInv, DispatchInv
      <4>2. CASE "DELAYED" \notin flags[w]
        <5>1. Commit(State)
          BY <3>2, <4>1, <4>2 DEF work_timeout
        <5> QED
          BY <5>1, StateKept
      <4>3. CASE "DELAYED" \in flags[w]
        <5>1. PICK s, x, q : /\ s = [State EXCEPT !.flags[w] = @ \ {"DELAYED"}]
                             /\ x = None /\ q = delay_queue[w]
          OBVIOUS
        <5>2. Kept(s) /\ q \in Queues \cup {None}
          BY <4>1, <5>1, StateKept DEF WInv, DataType
        <5>3. PICK r : r = submit_to_queue_locked(x, s, w, q)
          OBVIOUS
        <5>4. Commit(r)
          BY <3>2, <4>1, <4>3, <5>1, <5>3 DEF work_timeout
        <5>5. Coherent(r) /\ SameFlushers(s, r)
          BY <4>1, <5>2, <5>3, SubmitCoherent DEF Kept
        <5> QED
          BY <5>2, <5>4, <5>5 DEF Kept, SameFlushers
      <4> QED
        BY <4>2, <4>3
    <3> QED
      BY <3>1, <3>2
  <2> QED
    BY <1>1, <2>1, CommitCoherent DEF Kept
<1>4. FlushInv'
  <2>1. \A k \in Queues, y \in Threads : y \in ToSet(pending'[k]) <=> y \in ToSet(pending[k])
    BY <1>3 DEF SameFlushers, State
  <2> QED
    BY <1>1, <2>1 DEF WInv, FlushInv, WaitsFor
<1>5. CallInv' /\ CancelInv' /\ DataType'
  BY <1>1 DEF WInv, CallInv, CancelInv, WaitsFor, DataType
<1>6. CancelDone
  BY <1>1, NobodyReleased
<1> QED
  BY <1>2, <1>3, <1>4, <1>5, <1>6 DEF StepOK, WInv

(***************************************************************************)
(* The queue thread takes the first entry of its list.                     *)
(***************************************************************************)
LEMMA TakeStep ==
    ASSUME WInv, NEW q \in Queues, WorkerTakes(q)
    PROVE  StepOK
<1> DEFINE p == pending[q]
<1>0. /\ State \in StateType /\ Matches(State) /\ CancelsKeptOut(State) /\ HandlerHasItem(State)
      /\ None \notin Entries
  BY NotNone DEF WInv, Coherent
<1>1. p \in Seq(Entries) /\ Distinct(p) /\ p # <<>> /\ worker[q] = "ready"
  BY <1>0 DEF State, StateType, Matches, WorkerTakes
<1>2. PICK i : i = Head(p)
  OBVIOUS
<1>3. /\ i \in Entries /\ i \in ToSet(p) /\ i # None
      /\ Tail(p) \in Seq(Entries) /\ Distinct(Tail(p)) /\ ToSet(Tail(p)) = ToSet(p) \ {i}
  <2> HIDE DEF p
  <2> QED
    BY <1>0, <1>1, <1>2, TailDistinct
<1>4. /\ pending' = [pending EXCEPT ![q] = Tail(p)]
      /\ qflags' = [qflags EXCEPT ![q] = @ \cup {"BUSY"}]
      /\ worker' = [worker EXCEPT ![q] = "handler"]
      /\ current' = [current EXCEPT ![q] = i]
      /\ flags' = IF i \in Works
                  THEN [flags EXCEPT ![i] = (@ \cup {"RUNNING"}) \ {"QUEUED"}] ELSE flags
      /\ UNCHANGED <<dispatchVars, queue, delay_queue, pending_cancels, call, handler,
                     assert_failed, forever>>
  BY <1>2 DEF WorkerTakes
<1>5. /\ flags \in [Works -> SUBSET {"QUEUED", "RUNNING", "CANCELING", "DELAYED"}]
      /\ queue \in [Works -> Queues \cup {None}]
      /\ pending \in [Queues -> Seq(Entries)] /\ worker \in [Queues -> WorkerStates]
      /\ current \in [Queues -> Entries \cup {None}]
  BY <1>0 DEF State, StateType, WInv, DataType
<1>6. /\ \A k \in Queues, v \in Works :
            /\ v \in ToSet(pending[k]) <=> "QUEUED" \in flags[v] /\ queue[v] = k
            /\ current[k] = v <=> "RUNNING" \in flags[v] /\ queue[v] = k
      /\ \A v \in Works : {"QUEUED", "RUNNING"} \cap flags[v] # {} => queue[v] # None
      /\ \A v \in Works : "CANCELING" \in flags[v] => "QUEUED" \notin flags[v]
      /\ \A k \in Queues : Distinct(pending[k])
      /\ \A k \in Queues : worker[k] = "handler" <=> current[k] # None
  BY <1>0 DEF State, Matches, CancelsKeptOut, HandlerHasItem
<1>7. current[q] = None
  BY <1>1, <1>6
<1>8. /\ pending'[q] = Tail(p) /\ \A k \in Queues : k # q => pending'[k] = pending[k]
      /\ current'[q] = i /\ \A k \in Queues : k # q => current'[k] = current[k]
      /\ worker'[q] = "handler" /\ \A k \in Queues : k # q => worker'[k] = worker[k]
  BY <1>4, <1>5
<1>9. /\ \A v \in Works : v # i => flags'[v] = flags[v]
      /\ i \in Works => flags'[i] = (flags[i] \cup {"RUNNING"}) \ {"QUEUED"}
  BY <1>4, <1>5
<1>10. State' \in StateType'
  <2>1. flags' \in [Works -> SUBSET {"QUEUED", "RUNNING", "CANCELING", "DELAYED"}]
    BY <1>4, <1>5
  <2>2. pending' \in [Queues -> Seq(Entries)]
    BY <1>3, <1>4, <1>5
  <2>3. worker' \in [Queues -> WorkerStates]
    BY <1>4, <1>5 DEF WorkerStates
  <2> QED
    BY <1>4, <1>5, <2>1, <2>2, <2>3 DEF State, StateType
<1>11. \A k \in Queues, y \in Entries :
          y \in ToSet(pending'[k]) <=> y \in ToSet(pending[k]) /\ ~(k = q /\ y = i)
  BY <1>3, <1>8
<1>12. Matches(State)'
  <2>1. \A k \in Queues : Distinct(pending'[k])
    BY <1>3, <1>6, <1>8
  <2>2. ASSUME NEW k \in Queues, NEW v \in Works
        PROVE  /\ v \in ToSet(pending'[k]) <=> "QUEUED" \in flags'[v] /\ queue[v] = k
               /\ current'[k] = v <=> "RUNNING" \in flags'[v] /\ queue[v] = k
    <3>1. CASE v = i
      <4>1. queue[i] = q /\ "QUEUED" \in flags[i] /\ i \in Works
        BY <1>3, <1>6, <3>1
      <4>2. "QUEUED" \notin flags'[i] /\ "RUNNING" \in flags'[i]
        BY <1>9, <4>1
      <4>3. v \notin ToSet(pending'[k])
        BY <1>3, <1>6, <1>11, <3>1, <4>1
      <4>4. current'[k] = i <=> k = q
        BY <1>6, <1>8, <4>1
      <4> QED
        BY <3>1, <4>1, <4>2, <4>3, <4>4
    <3>2. CASE v # i
      <4>1. v \in ToSet(pending'[k]) <=> v \in ToSet(pending[k])
        BY <1>11, <3>2 DEF Entries
      <4>2. current'[k] = v <=> current[k] = v
        BY <1>7, <1>8, <3>2, NotNone
      <4> QED
        BY <1>6, <1>9, <3>2, <4>1, <4>2
    <3> QED
      BY <3>1, <3>2
  <2>3. ASSUME NEW v \in Works, {"QUEUED", "RUNNING"} \cap flags'[v] # {} PROVE queue[v] # None
    <3>1. CASE v = i
      BY <1>3, <1>6, <3>1
    <3>2. CASE v # i
      BY <1>6, <1>9, <2>3, <3>2
    <3> QED
      BY <3>1, <3>2
  <2> QED
    BY <1>4, <2>1, <2>2, <2>3 DEF Matches, State
<1>13. CancelsKeptOut(State)' /\ HandlerHasItem(State)'
  <2>1. \A v \in Works : "CANCELING" \in flags'[v] => "QUEUED" \notin flags'[v]
    BY <1>6, <1>9
  <2>2. \A k \in Queues : worker'[k] = "handler" <=> current'[k] # None
    BY <1>3, <1>6, <1>8
  <2> QED
    BY <2>1, <2>2 DEF CancelsKeptOut, HandlerHasItem, State
<1>14. FlushInv'
  <2>1. ASSUME NEW y \in Threads, NEW k \in Queues
        PROVE  /\ y \in ToSet(pending'[k]) => y \in ToSet(pending[k]) /\ ~(k = q /\ y = i)
               /\ current'[k] = y => (k = q /\ y = i) \/ (k # q /\ current[k] = y)
    BY <1>8, <1>11 DEF Entries
  <2>2. i \in Threads => \A k \in Queues : /\ i \in ToSet(pending[k]) => k = q
                                           /\ current[k] # i
    BY <1>3 DEF WInv, FlushInv
  <2>3. ASSUME NEW y \in Threads, NEW k \in Queues,
               y \in ToSet(pending'[k]) \/ current'[k] = y
        PROVE  WaitsFor(y, "flush")'
    <3>1. y \in ToSet(pending[k]) \/ current[k] = y
      BY <1>3, <2>1, <2>3
    <3> QED
      BY <1>4, <3>1 DEF WInv, FlushInv, WaitsFor
  <2>4. ASSUME NEW y \in Threads, NEW k \in Queues, NEW r \in Queues
        PROVE  /\ y \in ToSet(pending'[k]) => current'[r] # y
               /\ y \in ToSet(pending'[k]) /\ y \in ToSet(pending'[r]) => k = r
               /\ current'[k] = y /\ current'[r] = y => k = r
    <3>1. CASE y = i
      BY <2>1, <2>2, <3>1
    <3>2. CASE y # i
      BY <2>1, <3>2 DEF WInv, FlushInv
    <3> QED
      BY <3>1, <3>2
  <2> QED
    BY <2>3, <2>4 DEF FlushInv
<1>15. CallInv' /\ CancelInv' /\ DispatchInv'
  BY <1>4 DEF WInv, CallInv, CancelInv, WaitsFor, DispatchInv, DispatchTypeOK, dispatchVars
<1>16. DataType'
  BY <1>3, <1>4 DEF WInv, DataType
<1>17. CancelDone
  BY <1>4, NobodyReleased
<1> QED
  BY <1>10, <1>12, <1>13, <1>14, <1>15, <1>16, <1>17 DEF StepOK, WInv, Coherent

(***************************************************************************)
(* The queue thread finds nothing to do.                                   *)
(***************************************************************************)
LEMMA IdleStep ==
    ASSUME WInv, NEW q \in Queues, WorkerIdles(q)
    PROVE  StepOK
<1>1. /\ worker[q] = "ready"
      /\ UNCHANGED <<dispatchVars, flags, queue, delay_queue, pending, current,
                     pending_cancels, handler, assert_failed, forever>>
  BY DEF WorkerIdles
<1>2. PICK ws \in {"waiting", "exited"} : worker' = [worker EXCEPT ![q] = ws]
  BY DEF WorkerIdles
<1>3. Coherent(State)'
  <2>1. PICK s : s = State
    OBVIOUS
  <2>2. PICK r : r = [s EXCEPT !.worker[q] = ws]
    OBVIOUS
  <2>3. Coherent(s) /\ s \in StateType
    BY <2>1 DEF WInv, Coherent
  <2>4. r = [flags |-> s.flags, queue |-> s.queue, pending |-> s.pending,
             worker |-> [s.worker EXCEPT ![q] = ws]]
    BY <2>2, <2>3 DEF StateType
  <2>5. r \in StateType
    BY <2>3, <2>4 DEF StateType, WorkerStates
  <2>6. s.worker[q] # "handler"
    BY <1>1, <2>1 DEF State
  <2>7. HandlerHasItem(r)
    BY <2>3, <2>4, <2>6 DEF StateType, Coherent, HandlerHasItem
  <2>8. Matches(r) /\ CancelsKeptOut(r)
    BY <2>3, <2>4 DEF Coherent, Matches, CancelsKeptOut
  <2>9. Commit(r)
    BY <1>1, <1>2, <2>1, <2>4 DEF Commit, State
  <2> QED
    BY <1>1, <2>5, <2>7, <2>8, <2>9, CommitCoherent DEF Coherent
<1>4. \A x \in Callers : call'[x] = call[x] \/ (call[x].op = "drain" /\ call'[x] = Idle)
  BY DEF WorkerIdles
<1>5. CallInv'
  <2>1. call' \in [Callers -> CallRec]
    BY IdleRecord DEF WorkerIdles, WInv, CallInv
  <2>2. \A x \in Callers : RetryOK(x, call'[x])
    BY <1>4, IdleRecord DEF WInv, CallInv
  <2> QED
    BY <2>1, <2>2 DEF CallInv, RetryOK
<1>6. \A x \in Threads, op \in {"cancel_sync", "flush"} : WaitsFor(x, op) => call'[x] = call[x]
  BY <1>4 DEF WaitsFor, Callers
<1>7. CancelInv'
  <2>1. ToSet(pending_cancels) \subseteq Threads
    BY DEF WInv, CancelInv, ToSet
  <2> QED
    BY <1>1, <1>6, <2>1 DEF WInv, CancelInv, WaitsFor
<1>8. FlushInv'
  BY <1>1, <1>6 DEF WInv, FlushInv, WaitsFor
<1>9. DataType' /\ DispatchInv'
  <2>1. qflags' \in [Queues -> SUBSET {"STARTED", "BUSY", "DRAIN", "PLUGGED", "STOP"}]
    BY DEF WorkerIdles, WInv, DataType
  <2> QED
    BY <1>1, <2>1 DEF WInv, DataType, DispatchInv, DispatchTypeOK, dispatchVars
<1>10. CancelDone
  BY <1>6, NobodyReleased
<1> QED
  BY <1>3, <1>5, <1>7, <1>8, <1>9, <1>10 DEF StepOK, WInv

(***************************************************************************)
(* finalize_cancel_locked() releases the first canceller of the item: one  *)
(* that waits for it, and that leaves the list.                            *)
(***************************************************************************)
LEMMA FirstCancellerFound ==
    ASSUME CancelInv, NEW w, FirstCanceller(w) # 0
    PROVE  \E k \in 1..Len(pending_cancels) :
             k = FirstCanceller(w) /\ call[pending_cancels[k]].work = w
<1> DEFINE I == {i \in 1..Len(pending_cancels) : call[pending_cancels[i]].work = w}
<1>1. FirstCanceller(w) = IF I = {} THEN 0 ELSE Min(I)
  BY DEF FirstCanceller, SelectInSeq
<1>2. I # {} /\ I \in SUBSET Nat
  BY <1>1 DEF CancelInv
<1>3. Min(I) \in I
  <2> HIDE DEF I
  <2> QED
    BY <1>2, MinIsLeast
<1> QED
  BY <1>1, <1>2, <1>3

(***************************************************************************)
(* The handler of the entry returned.                                      *)
(***************************************************************************)
LEMMA ReturnStep ==
    ASSUME WInv, NEW q \in Queues, WorkHandlerReturns(q)
    PROVE  StepOK
<1>0. /\ State \in StateType /\ Matches(State) /\ CancelsKeptOut(State) /\ HandlerHasItem(State)
      /\ None \notin Entries
  BY NotNone DEF WInv, Coherent
<1>1. /\ worker[q] = "handler"
      /\ worker' = [worker EXCEPT ![q] = "ready"]
      /\ qflags' = [qflags EXCEPT ![q] = @ \ {"BUSY"}]
      /\ current' = [current EXCEPT ![q] = None]
      /\ UNCHANGED <<dispatchVars, queue, delay_queue, pending, handler, assert_failed, forever>>
  BY DEF WorkHandlerReturns
<1>2. /\ flags \in [Works -> SUBSET {"QUEUED", "RUNNING", "CANCELING", "DELAYED"}]
      /\ queue \in [Works -> Queues \cup {None}]
      /\ pending \in [Queues -> Seq(Entries)] /\ worker \in [Queues -> WorkerStates]
      /\ current \in [Queues -> Entries \cup {None}]
  BY <1>0 DEF State, StateType, WInv, DataType
<1>3. /\ \A k \in Queues, v \in Works :
            /\ v \in ToSet(pending[k]) <=> "QUEUED" \in flags[v] /\ queue[v] = k
            /\ current[k] = v <=> "RUNNING" \in flags[v] /\ queue[v] = k
      /\ \A v \in Works : {"QUEUED", "RUNNING"} \cap flags[v] # {} => queue[v] # None
      /\ \A v \in Works : "CANCELING" \in flags[v] => "QUEUED" \notin flags[v]
      /\ \A k \in Queues : Distinct(pending[k])
      /\ \A k \in Queues : worker[k] = "handler" <=> current[k] # None
  BY <1>0 DEF State, Matches, CancelsKeptOut, HandlerHasItem
<1>4. PICK i : i = current[q]
  OBVIOUS
<1>5. i \in Entries /\ i # None
  BY <1>1, <1>2, <1>3, <1>4
<1>6. /\ current'[q] = None /\ \A k \in Queues : k # q => current'[k] = current[k]
      /\ worker'[q] = "ready" /\ \A k \in Queues : k # q => worker'[k] = worker[k]
  BY <1>1, <1>2
<1>7. /\ \A v \in Works : v # i => flags'[v] = flags[v]
      /\ i \in Works => flags'[i] = flags[i] \ {"RUNNING", "CANCELING"}
      /\ flags' \in [Works -> SUBSET {"QUEUED", "RUNNING", "CANCELING", "DELAYED"}]
  <2>1. CASE i \in Works
    BY <1>2, <1>4, <2>1 DEF WorkHandlerReturns, finalize_cancel_locked
  <2>2. CASE i \notin Works
    BY <1>2, <1>4, <2>2 DEF WorkHandlerReturns, finalize_flush_locked
  <2> QED
    BY <2>1, <2>2
<1>8. Coherent(State)'
  <2>1. State' \in StateType'
    <3>1. worker' \in [Queues -> WorkerStates]
      BY <1>1, <1>2 DEF WorkerStates
    <3> QED
      BY <1>1, <1>2, <1>7, <3>1 DEF State, StateType
  <2>2. ASSUME NEW k \in Queues, NEW v \in Works
        PROVE  /\ v \in ToSet(pending[k]) <=> "QUEUED" \in flags'[v] /\ queue[v] = k
               /\ current'[k] = v <=> "RUNNING" \in flags'[v] /\ queue[v] = k
    <3>1. "QUEUED" \in flags'[v] <=> "QUEUED" \in flags[v]
      BY <1>7
    <3>2. current'[k] = v <=> "RUNNING" \in flags'[v] /\ queue[v] = k
      <4>1. CASE v = i
        <5>1. "RUNNING" \notin flags'[v] /\ queue[v] = q
          BY <1>3, <1>4, <1>7, <4>1
        <5>2. current'[k] # v
          BY <1>3, <1>6, <5>1, NotNone
        <5> QED
          BY <5>1, <5>2
      <4>2. CASE v # i
        <5>1. current'[k] = v <=> current[k] = v
          BY <1>4, <1>6, <4>2, NotNone
        <5> QED
          BY <1>3, <1>7, <4>2, <5>1
      <4> QED
        BY <4>1, <4>2
    <3> QED
      BY <1>3, <3>1, <3>2
  <2>3. ASSUME NEW v \in Works, {"QUEUED", "RUNNING"} \cap flags'[v] # {} PROVE queue[v] # None
    BY <1>3, <1>7, <2>3
  <2>4. Matches(State)'
    BY <1>1, <1>3, <2>2, <2>3 DEF Matches, State
  <2>5. \A v \in Works : "CANCELING" \in flags'[v] => "QUEUED" \notin flags'[v]
    BY <1>3, <1>7
  <2>6. \A k \in Queues : worker'[k] = "handler" <=> current'[k] # None
    BY <1>3, <1>6
  <2>7. CancelsKeptOut(State)' /\ HandlerHasItem(State)'
    BY <2>5, <2>6 DEF CancelsKeptOut, HandlerHasItem, State
  <2> QED
    BY <2>1, <2>4, <2>7 DEF Coherent
<1>9. DataType' /\ DispatchInv'
  BY <1>1 DEF WInv, DataType, DispatchInv, DispatchTypeOK, dispatchVars
<1>10. \A y \in Threads, k \in Queues : current'[k] = y => current[k] = y /\ k # q
  BY <1>0, <1>6 DEF Entries
<1>11. ToSet(pending_cancels) \subseteq Threads /\ Threads \subseteq Callers
  BY DEF WInv, CancelInv, ToSet, Callers
<1>12. CASE UNCHANGED <<pending_cancels, call>> /\ i \in Works
  <2>1. CallInv' /\ CancelInv'
    BY <1>12 DEF WInv, CallInv, CancelInv, WaitsFor
  <2>2. FlushInv'
    BY <1>1, <1>10, <1>12 DEF WInv, FlushInv, WaitsFor
  <2>3. CancelDone
    BY <1>12, NobodyReleased
  <2> QED
    BY <1>8, <1>9, <2>1, <2>2, <2>3 DEF StepOK, WInv
<1>13. ASSUME NEW y \in Threads, Returns(y)
       PROVE  CallInv' /\ call'[y] = Idle /\ \A x \in Callers : x # y => call'[x] = call[x]
  <2>1. call'[y] = Idle /\ \A x \in Callers : x # y => call'[x] = call[x]
    BY <1>11, <1>13 DEF Returns, WInv, CallInv
  <2>2. call' \in [Callers -> CallRec]
    BY <1>13, IdleRecord DEF Returns, WInv, CallInv
  <2>3. \A x \in Callers : RetryOK(x, call'[x])
    BY <2>1, IdleRecord DEF WInv, CallInv
  <2> QED
    BY <2>1, <2>2, <2>3 DEF CallInv, RetryOK
<1>14. CASE i \notin Works
  <2>1. i \in Threads /\ Returns(i) /\ UNCHANGED <<flags, pending_cancels>>
    BY <1>4, <1>5, <1>14 DEF WorkHandlerReturns, finalize_flush_locked, Entries
  <2>2. CallInv' /\ \A x \in Callers : x # i => call'[x] = call[x]
    BY <1>13, <2>1
  <2>3. WaitsFor(i, "flush") /\ \A k \in Queues : /\ i \notin ToSet(pending[k])
                                                  /\ current[k] = i => k = q
    BY <1>4, <2>1 DEF WInv, FlushInv
  <2>4. ~WaitsFor(i, "cancel_sync")
    BY <2>3 DEF WaitsFor
  <2>5. CancelInv'
    BY <1>11, <2>1, <2>2, <2>4 DEF WInv, CancelInv, WaitsFor
  <2>6. FlushInv'
    <3>1. \A y \in Threads, k \in Queues : y \in ToSet(pending'[k]) \/ current'[k] = y => y # i
      BY <1>1, <1>10, <2>3
    <3>2. \A y \in Threads : y # i => call'[y] = call[y]
      BY <1>11, <2>2
    <3> QED
      BY <1>1, <1>10, <3>1, <3>2 DEF WInv, FlushInv, WaitsFor
  <2>7. CancelDone
    BY <1>11, <2>2, <2>4, NobodyReleased
  <2> QED
    BY <1>8, <1>9, <2>2, <2>5, <2>6, <2>7 DEF StepOK, WInv
<1>15. CASE i \in Works /\ ~ UNCHANGED <<pending_cancels, call>>
  <2>1. /\ "CANCELING" \in flags[i] /\ FirstCanceller(i) # 0
        /\ pending_cancels' = RemoveAt(pending_cancels, FirstCanceller(i))
        /\ Returns(pending_cancels[FirstCanceller(i)])
    BY <1>4, <1>15 DEF WorkHandlerReturns, finalize_cancel_locked
  <2>2. PICK k \in 1..Len(pending_cancels) :
          k = FirstCanceller(i) /\ call[pending_cancels[k]].work = i
    BY <2>1, FirstCancellerFound DEF WInv
  <2>3. PICK y : y = pending_cancels[k]
    OBVIOUS
  <2>4. y \in Threads /\ y \in ToSet(pending_cancels) /\ call[y].work = i
    BY <2>2, <2>3 DEF WInv, CancelInv, ToSet
  <2>5. /\ pending_cancels' \in Seq(Threads) /\ Distinct(pending_cancels')
        /\ ToSet(pending_cancels') = ToSet(pending_cancels) \ {y}
    BY <2>1, <2>2, <2>3, RemoveAtDistinct DEF WInv, CancelInv
  <2>6. CallInv' /\ \A x \in Callers : x # y => call'[x] = call[x]
    BY <1>13, <2>1, <2>2, <2>3, <2>4
  <2>7. WaitsFor(y, "cancel_sync") /\ ~WaitsFor(y, "flush")
    BY <2>4 DEF WInv, CancelInv, WaitsFor
  <2>8. CancelInv'
    BY <1>11, <2>5, <2>6 DEF WInv, CancelInv, WaitsFor
  <2>9. FlushInv'
    <3>1. \A x \in Threads, r \in Queues : x \in ToSet(pending[r]) \/ current[r] = x => x # y
      BY <2>7 DEF WInv, FlushInv
    <3>2. \A x \in Threads : x # y => call'[x] = call[x]
      BY <1>11, <2>6
    <3> QED
      BY <1>1, <1>10, <3>1, <3>2 DEF WInv, FlushInv, WaitsFor
  <2>10. CancelDone
    <3>1. flags'[i] \subseteq {"DELAYED"}
      BY <1>2, <1>3, <1>7, <1>15, <2>1
    <3>2. ASSUME NEW x \in Threads, WaitsFor(x, "cancel_sync"), call'[x] = Idle
          PROVE  flags'[call[x].work] \subseteq {"DELAYED"}
      <4>1. CASE x = y
        BY <2>4, <3>1, <4>1
      <4>2. CASE x # y
        <5>1. call[x] = Idle
          BY <1>11, <2>6, <3>2, <4>2
        <5> QED
          BY <3>2, <5>1 DEF WaitsFor, Idle
      <4> QED
        BY <4>1, <4>2
    <3> QED
      BY <3>2 DEF CancelDone
  <2> QED
    BY <1>8, <1>9, <2>6, <2>8, <2>9, <2>10 DEF StepOK, WInv
<1> QED
  BY <1>12, <1>14, <1>15

(***************************************************************************)
(* Every step.                                                             *)
(***************************************************************************)
LEMMA WorkStep ==
    ASSUME WInv, [Next]_vars
    PROVE  StepOK
<1>1. CASE UNCHANGED vars
  <2>1. CancelDone
    BY <1>1, NobodyReleased DEF vars, workVars
  <2>2. Coherent(State)'
    BY <1>1, CommitCoherent DEF WInv, vars, workVars, Commit, State
  <2>3. CallInv' /\ CancelInv' /\ FlushInv' /\ DataType' /\ DispatchInv'
    BY <1>1 DEF WInv, CallInv, CancelInv, FlushInv, DataType, DispatchInv, DispatchTypeOK,
                WaitsFor, vars, workVars, dispatchVars
  <2> QED
    BY <2>1, <2>2, <2>3 DEF StepOK, WInv
<1>2. ASSUME NEW x \in Callers, NEW c \in Cpus, ItemCall(x, c) \/ unschedule_locked(x, c)
      PROVE  StepOK
  BY <1>2, ItemStep
<1>3. ASSUME NEW x \in Callers, (\E q \in Queues : QueueCall(x, q)) \/ StopReturns(x)
      PROVE  StepOK
  BY <1>3, QueueStep
<1>4. ASSUME NEW q \in Queues, WorkerStep(q)
      PROVE  StepOK
  BY <1>4, TakeStep, IdleStep, ReturnStep DEF WorkerStep
<1>5. CASE (\E c \in Cpus : TimeoutPopped(c)) \/ work_timeout
  BY <1>5, TimeoutStep
<1> QED
  BY <1>1, <1>2, <1>3, <1>4, <1>5 DEF Next, CallerStep

(***************************************************************************)
(* The initial state.                                                      *)
(***************************************************************************)
LEMMA WorkInit ==
    ASSUME Init
    PROVE  WInv
<1>1. Coherent(State)
  <2>1. State \in StateType
    BY DEF Init, State, StateType, WorkerStates
  <2>2. Matches(State)
    BY NotNone DEF Init, State, Matches, Distinct, ToSet
  <2>3. CancelsKeptOut(State) /\ HandlerHasItem(State)
    BY DEF Init, State, CancelsKeptOut, HandlerHasItem
  <2> QED
    BY <2>1, <2>2, <2>3 DEF Coherent
<1>2. CallInv
  BY IdleRecord DEF Init, CallInv
<1>3. CancelInv
  BY DEF Init, CancelInv, Distinct, ToSet
<1>4. FlushInv
  BY NotNone DEF Init, FlushInv, ToSet, Entries
<1>5. DataType /\ DispatchInv
  BY DEF Init, DataType, DispatchInv, DispatchInit, DispatchTypeOK
<1> QED
  BY <1>1, <1>2, <1>3, <1>4, <1>5 DEF WInv

-----------------------------------------------------------------------------
(* What the invariant gives.                                               *)

OwedType == owed \in [Threads -> {"no", "queued", "running"}]

(***************************************************************************)
(* The history keeps its type.                                             *)
(***************************************************************************)
LEMMA OwedStep ==
    ASSUME OwedType, [Next]_vars
    PROVE  OwedType'
<1>1. CASE UNCHANGED vars
  BY <1>1 DEF OwedType, vars, workVars
<1>2. CASE TrackFlush
  <2> DEFINE T == {"no", "queued", "running"}
  <2>1. \A x \in Threads : owed[x] \in T
    BY DEF OwedType
  <2> QED
    BY <1>2, <2>1 DEF OwedType, TrackFlush
<1> QED
  BY <1>1, <1>2 DEF Next, History

RacedType == raced \subseteq Works

(***************************************************************************)
(* So does the other one.                                                  *)
(***************************************************************************)
LEMMA RacedStep ==
    ASSUME RacedType, [Next]_vars
    PROVE  RacedType'
<1>1. CASE UNCHANGED vars
  BY <1>1 DEF RacedType, vars, workVars
<1>2. ASSUME NEW x, TrackRace(x) PROVE RacedType'
  BY <1>2 DEF RacedType, TrackRace
<1> QED
  BY <1>1, <1>2 DEF Next, History

(***************************************************************************)
(* The flags of an item, the lists and the queue threads always agree: no  *)
(* item is in two lists, or twice in one, and none is handled by two queue *)
(* threads, whatever is submitted, cancelled and flushed, and whichever    *)
(* timeouts are in flight.                                                 *)
(***************************************************************************)
THEOREM WorkFlagsMatch == Spec => [](TypeOK /\ FlagsMatch)
<1>1. Init => WInv /\ OwedType /\ RacedType
  BY WorkInit DEF Init, OwedType, RacedType
<1>2. WInv /\ OwedType /\ RacedType /\ [Next]_vars => WInv' /\ OwedType' /\ RacedType'
  BY WorkStep, OwedStep, RacedStep DEF StepOK
<1>3. WInv /\ OwedType /\ RacedType => TypeOK /\ FlagsMatch
  <2> SUFFICES ASSUME WInv, OwedType, RacedType PROVE TypeOK /\ FlagsMatch
    OBVIOUS
  <2>1. State \in StateType /\ Matches(State)
    BY DEF WInv, Coherent
  <2>2. /\ flags \in [Works -> SUBSET {"QUEUED", "RUNNING", "CANCELING", "DELAYED"}]
        /\ queue \in [Works -> Queues \cup {None}]
        /\ pending \in [Queues -> Seq(Entries)] /\ worker \in [Queues -> WorkerStates]
    BY <2>1 DEF State, StateType
  <2>3. FlagsMatch
    BY <2>1 DEF FlagsMatch, Matches, State, Distinct
  <2>4. \A x \in Callers : call[x].pc \in {"idle", "retry", "wait"}
    BY DEF WInv, CallInv, CallRec
  <2>5. TypeOK
    BY <2>2, <2>4 DEF TypeOK, WInv, DataType, CancelInv, DispatchInv, Entries, WorkerStates,
                      OwedType, RacedType
  <2> QED
    BY <2>3, <2>5
<1> QED
  BY <1>1, <1>2, <1>3, PTL DEF Spec

(***************************************************************************)
(* When k_work_cancel_sync() releases a thread that waited, the item is    *)
(* neither queued nor running nor still being cancelled.                   *)
(***************************************************************************)
THEOREM WorkCancelSyncIdle == Spec => CancelSyncIdle
<1>1. Init => WInv
  BY WorkInit
<1>2. WInv /\ [Next]_vars => WInv'
  BY WorkStep DEF StepOK
<1>3. WInv /\ [Next]_vars
        => [\A x \in Threads :
              call[x].op = "cancel_sync" /\ call[x].pc = "wait" /\ call'[x] = Idle
                => flags'[call[x].work] \subseteq {"DELAYED"}]_vars
  BY WorkStep DEF StepOK, CancelDone, WaitsFor
<1> QED
  BY <1>1, <1>2, <1>3, PTL DEF Spec, CancelSyncIdle

-----------------------------------------------------------------------------
(* Delayable items.                                                        *)

Delayed(f, w) == "DELAYED" \in f[w]

\* A handler that has yet to run finds its item scheduled, or meets a caller
\* that claimed it and waits for the handler; in either case the timeout is free.
HandlerOwns(w) ==
    HandlerComing(w) =>
        /\ w \notin active
        /\ Delayed(flags, w) \/ \E x \in Callers : Retrying(x, w)
        /\ superseded => ~Delayed(flags, w)

\* A caller that tries again has claimed the item, and nobody scheduled it since.
RetryOwns(w) == \A x \in Callers : Retrying(x, w) => ~Delayed(flags, w)

\* What holds of an item that has not been overtaken.
Orderly(w) == TimeoutMatches(w) /\ HandlerOwns(w) /\ RetryOwns(w)

ArmInv ==
    /\ WInv /\ RacedType
    /\ \A w \in Works \ raced : Orderly(w)
    /\ assert_failed => raced # {}
    /\ call[Isr].pc # "retry"
    /\ inflight_timeout # None => announcing_cpu # None

\* Nothing is left of the schedules of w.
Calm(w) ==
    /\ flags[w] = {} /\ w \notin active /\ ~HandlerComing(w)
    /\ \A x \in Callers : ~Retrying(x, w)

NotOvertaken(x, w) ==
    /\ Delayed(flags', w) /\ ~Delayed(flags, w) => \A y \in Callers : ~Retrying(y, w)'
    /\ x = Isr /\ HandlerComing(w) => superseded' = superseded

(***************************************************************************)
(* What the history says of an item that is not in it.                     *)
(***************************************************************************)
LEMMA RaceRule ==
    ASSUME NEW x, TrackRace(x), NEW w \in Works, w \notin raced'
    PROVE  NotOvertaken(x, w) /\ (w \notin raced \/ Calm(w)')
BY DEF TrackRace, NotOvertaken, Calm, Delayed

(***************************************************************************)
(* An item that a step leaves alone stays in order.                        *)
(***************************************************************************)
LEMMA OrderlyKept ==
    ASSUME NEW w, Orderly(w), Delayed(flags', w) <=> Delayed(flags, w),
           w \in active' <=> w \in active, w \in forever' <=> w \in forever,
           HandlerComing(w)' <=> HandlerComing(w),
           HandlerComing(w) => superseded' = superseded,
           \A y \in Callers : Retrying(y, w)' <=> Retrying(y, w)
    PROVE  Orderly(w)'
<1>1. TimeoutMatches(w)'
  BY DEF Orderly, TimeoutMatches, Delayed
<1>2. HandlerOwns(w)'
  BY DEF Orderly, HandlerOwns
<1>3. RetryOwns(w)'
  BY DEF Orderly, RetryOwns
<1> QED
  BY <1>1, <1>2, <1>3 DEF Orderly

SameDelayed(f, g) == \A w \in Works : Delayed(g, w) <=> Delayed(f, w)

(***************************************************************************)
(* Submitting, cancelling and flushing leave DELAYED alone.                *)
(***************************************************************************)
LEMMA SubmitDelayed ==
    ASSUME NEW s \in StateType, NEW x, NEW w \in Works, NEW q
    PROVE  SameDelayed(s.flags, submit_to_queue_locked(x, s, w, q).flags)
<1>1. PICK to : to = SubmitQueue(s, w, q)
  OBVIOUS
<1>2. PICK a : a = [s EXCEPT !.flags[w] = @ \cup {"QUEUED"}, !.queue[w] = to,
                             !.pending[to] = Append(@, w)]
  OBVIOUS
<1>3. PICK b : b = notify_queue_locked(a, to)
  OBVIOUS
<1>4. submit_to_queue_locked(x, s, w, q) \in {s, b}
  BY <1>1, <1>2, <1>3 DEF submit_to_queue_locked
<1>5. a.flags = [s.flags EXCEPT ![w] = @ \cup {"QUEUED"}] /\ b.flags = a.flags
  BY <1>2, <1>3 DEF StateType, notify_queue_locked
<1>6. SameDelayed(s.flags, b.flags)
  BY <1>5 DEF StateType, SameDelayed, Delayed
<1> QED
  BY <1>4, <1>6 DEF SameDelayed

(***************************************************************************)
(* cancel_async_locked().                                                  *)
(***************************************************************************)
LEMMA CancelDelayed ==
    ASSUME NEW s \in StateType, NEW w \in Works
    PROVE  SameDelayed(s.flags, cancel_async_locked(s, w).flags)
<1>1. PICK a : a = IF "CANCELING" \in s.flags[w] THEN s ELSE queue_remove_locked(s, w)
  OBVIOUS
<1>2. PICK b : b = [a EXCEPT !.flags[w] = @ \cup {"CANCELING"}]
  OBVIOUS
<1>3. cancel_async_locked(s, w) \in {a, b}
  BY <1>1, <1>2 DEF cancel_async_locked
<1>4. /\ a.flags = s.flags \/ a.flags = [s.flags EXCEPT ![w] = @ \ {"QUEUED"}]
      /\ b.flags = [a.flags EXCEPT ![w] = @ \cup {"CANCELING"}]
  <2>1. CASE a = s
    BY <1>2, <2>1 DEF StateType
  <2>2. CASE a = [s EXCEPT !.flags[w] = @ \ {"QUEUED"},
                           !.pending[s.queue[w]] = RemoveFirst(@, w)]
    BY <1>2, <2>2 DEF StateType
  <2> QED
    BY <1>1, <2>1, <2>2 DEF queue_remove_locked
<1>5. /\ s.flags \in [Works -> SUBSET {"QUEUED", "RUNNING", "CANCELING", "DELAYED"}]
      /\ a.flags \in [Works -> SUBSET {"QUEUED", "RUNNING", "CANCELING", "DELAYED"}]
  BY <1>4 DEF StateType
<1>6. SameDelayed(s.flags, a.flags)
  BY <1>4, <1>5 DEF SameDelayed, Delayed
<1>7. SameDelayed(a.flags, b.flags)
  BY <1>4, <1>5 DEF SameDelayed, Delayed
<1> QED
  BY <1>3, <1>6, <1>7 DEF SameDelayed

(***************************************************************************)
(* work_flush_locked().                                                    *)
(***************************************************************************)
LEMMA FlushDelayed ==
    ASSUME NEW s \in StateType, NEW w \in Works, NEW x
    PROVE  work_flush_locked(s, w, x).flags = s.flags
<1>1. PICK a : a = queue_flusher_locked(s, w, x)
  OBVIOUS
<1>2. work_flush_locked(s, w, x) \in {s, notify_queue_locked(a, s.queue[w])}
  BY <1>1 DEF work_flush_locked
<1>3. a.flags = s.flags
  BY <1>1 DEF StateType, queue_flusher_locked
<1>4. notify_queue_locked(a, s.queue[w]).flags = a.flags
  BY <1>1 DEF StateType, queue_flusher_locked, notify_queue_locked
<1> QED
  BY <1>2, <1>3, <1>4

\* What an operation on w leaves when it is through: the item may be scheduled
\* again, with a timeout or for ever.
Rearmed(x, w, f, act) ==
    \E how \in {"not", "later", "forever"} :
        /\ active' = act \cup (IF how = "later" THEN {w} ELSE {})
        /\ \A v \in Works : Delayed(flags', v) <=> Delayed(f, v) \/ (how # "not" /\ v = w)
        /\ \A v \in Works : v # w => (v \in forever' <=> v \in forever)
        /\ how = "later" => w \notin forever'
        /\ how = "forever" => w \in forever'
        /\ assert_failed' => how = "later" /\ w \in act
        /\ call'[x].pc # "retry"

(***************************************************************************)
(* The rest of an operation behind unschedule_locked().                    *)
(***************************************************************************)
LEMMA RestRearms ==
    ASSUME WInv, ~assert_failed, NEW x \in Callers, NEW op, NEW w \in Works, NEW q, NEW delay,
           NEW s, Kept(s), NEW act, NEW claimed,
           \/ Rest(x, op, w, q, delay, s, act, claimed)
           \/ schedule_for_queue_locked(x, s, act, w, q, delay)
    PROVE  Rearmed(x, w, s.flags, act)
<1>0. s \in StateType /\ Coherent(s)
  BY DEF Kept, Coherent
<1>0a. Returns(x) => call'[x].pc # "retry"
  BY DEF Returns, Idle, WInv, CallInv
<1>0b. \A o \in {"cancel_sync", "flush"} : Waits(x, o, w, None) => call'[x].pc # "retry"
  <2>1. ASSUME NEW o \in {"cancel_sync", "flush"}, Waits(x, o, w, None)
        PROVE  call'[x].pc # "retry"
    <3>1. w \in Works \cup {None} /\ None \in Queues \cup {None}
      OBVIOUS
    <3>2. PICK c \in CallRec : c.pc = "wait" /\ call' = [call EXCEPT ![x] = c]
      BY <2>1, <3>1, WaitRecord
    <3> QED
      BY <3>2 DEF WInv, CallInv
  <2> QED
    BY <2>1
<1>0c. ASSUME SameDelayed(s.flags, flags'), active' = act, UNCHANGED <<assert_failed, forever>>,
              call'[x].pc # "retry"
       PROVE  Rearmed(x, w, s.flags, act)
  BY <1>0c DEF Rearmed, SameDelayed
<1>1. CASE schedule_for_queue_locked(x, s, act, w, q, delay)
  <2>0. call'[x].pc # "retry"
    BY <1>0a, <1>1 DEF schedule_for_queue_locked
  <2>1. CASE delay = "now"
    <3>1. PICK r : r = submit_to_queue_locked(x, s, w, q)
      OBVIOUS
    <3>2. SameDelayed(s.flags, r.flags)
      BY <1>0, <3>1, SubmitDelayed
    <3>3. flags' = r.flags /\ active' = act /\ UNCHANGED <<assert_failed, forever>>
      BY <1>1, <2>1, <3>1 DEF schedule_for_queue_locked, Commit
    <3> QED
      BY <1>0c, <2>0, <3>2, <3>3
  <2>2. CASE delay # "now"
    <3>1. /\ flags' = [s EXCEPT !.flags[w] = @ \cup {"DELAYED"}].flags
          /\ \/ /\ active' = act /\ forever' = forever \cup {w} /\ UNCHANGED assert_failed
             \/ /\ active' = act \cup {w} /\ forever' = forever \ {w}
                /\ assert_failed' = (w \in act)
      BY <1>1, <2>2 DEF schedule_for_queue_locked, Commit
    <3>2. flags' = [s.flags EXCEPT ![w] = @ \cup {"DELAYED"}]
      BY <1>0, <3>1 DEF StateType
    <3>3. \A v \in Works : Delayed(flags', v) <=> Delayed(s.flags, v) \/ v = w
      BY <1>0, <3>2 DEF StateType, Delayed
    <3>4. CASE active' = act /\ forever' = forever \cup {w} /\ UNCHANGED assert_failed
      BY <2>0, <3>3, <3>4 DEF Rearmed
    <3>5. CASE active' = act \cup {w} /\ forever' = forever \ {w} /\ assert_failed' = (w \in act)
      BY <2>0, <3>3, <3>5 DEF Rearmed
    <3> QED
      BY <3>1, <3>4, <3>5
  <2> QED
    BY <2>1, <2>2
<1>2. CASE CancelRest(x, s, act, w) \/ CancelSyncRest(x, s, act, w)
  <2>1. PICK r : r = cancel_async_locked(s, w)
    OBVIOUS
  <2>2. SameDelayed(s.flags, r.flags)
    BY <1>0, <2>1, CancelDelayed
  <2>3. flags' = r.flags /\ active' = act /\ UNCHANGED <<assert_failed, forever>>
    BY <1>2, <2>1 DEF CancelRest, CancelSyncRest, Commit
  <2>4. call'[x].pc # "retry"
    BY <1>0a, <1>0b, <1>2 DEF CancelRest, CancelSyncRest
  <2> QED
    BY <1>0c, <2>2, <2>3, <2>4
<1>3. CASE FlushRest(x, s, act, w, claimed)
  <2>1. PICK r : r = IF claimed THEN submit_to_queue_locked(x, s, w, delay_queue[w]) ELSE s
    OBVIOUS
  <2>2. PICK f : f = work_flush_locked(r, w, x)
    OBVIOUS
  <2>3. flags' = f.flags /\ active' = act /\ UNCHANGED <<assert_failed, forever>>
    BY <1>3, <2>1, <2>2 DEF FlushRest, Commit
  <2>4. call'[x].pc # "retry"
    BY <1>0a, <1>0b, <1>3, <2>1 DEF FlushRest
  <2>5. r \in StateType /\ SameDelayed(s.flags, r.flags)
    <3>1. delay_queue[w] \in Queues \cup {None}
      BY DEF WInv, DataType
    <3>2. CASE claimed
      BY <1>0, <2>1, <3>1, <3>2, SubmitDelayed, SubmitCoherent DEF Coherent
    <3>3. CASE ~claimed
      BY <1>0, <2>1, <3>3 DEF SameDelayed
    <3> QED
      BY <3>2, <3>3
  <2>6. f.flags = r.flags
    BY <2>2, <2>5, FlushDelayed
  <2>7. SameDelayed(s.flags, flags')
    BY <2>3, <2>5, <2>6
  <2> QED
    BY <1>0c, <2>3, <2>4, <2>7
<1> QED
  BY <1>1, <1>2, <1>3 DEF Rest

\* The item has been claimed; the flag of every other item has not changed.
ClaimedIn(f, u) ==
    /\ u \notin raced => ~Delayed(f, u)
    /\ \A v \in Works : v # u => (Delayed(f, v) <=> Delayed(flags, v))

\* An operation of x on u drops the lock to try again.
Retries(x, u) ==
    /\ Retrying(x, u)' /\ x # Isr
    /\ inflight_timeout = u /\ u \notin active /\ superseded'
    /\ ClaimedIn(flags', u)
    /\ UNCHANGED <<active, forever, assert_failed>>

\* It goes through, with the timeout of the last schedule taken care of: it is
\* not in flight, unless x is an interrupt on top of its handler.
Claimed(x, u) ==
    \E f :
        /\ ClaimedIn(f, u) /\ Rearmed(x, u, f, active \ {u})
        /\ inflight_timeout = u => u \in active \/ x = Isr
        /\ superseded' = (superseded \/ inflight_timeout = u)
        /\ Delayed(flags, u) \/ Retrying(x, u)

\* It goes through on an item that is not scheduled.
Unclaimed(x, u) ==
    /\ ~Delayed(flags, u) /\ Rearmed(x, u, flags, active)
    /\ call[x].pc # "retry" /\ UNCHANGED superseded

Effect(x, u) ==
    /\ Retries(x, u) \/ Claimed(x, u) \/ Unclaimed(x, u)
    /\ call[x].pc = "retry" => call[x].work = u
    /\ \A y \in Callers : y # x => call'[y] = call[y]
    /\ UNCHANGED <<inflight_timeout, handler, announcing_cpu>>

(***************************************************************************)
(* unschedule_locked().                                                    *)
(***************************************************************************)
LEMMA TryEffect ==
    ASSUME WInv, ~assert_failed, inflight_timeout # None => announcing_cpu # None,
           NEW x \in Callers, call[x].pc # "wait", UNCHANGED current,
           NEW op \in {"reschedule", "cancel", "cancel_sync", "flush"},
           op \in {"cancel_sync", "flush"} => x \in Threads,
           NEW w \in Works, NEW q \in Queues \cup {None}, NEW delay \in {"now", "later", "forever"},
           call[x].pc = "retry" => call[x].work = w, NEW s, Kept(s), ClaimedIn(s.flags, w), Delayed(flags, w) \/ Retrying(x, w),
           NEW c \in Cpus, RunsOn(x, c), TryUnschedule(x, c, op, w, q, delay, s),
           UNCHANGED <<inflight_timeout, handler, announcing_cpu>>
    PROVE  Effect(x, w)
<1>0. call \in [Callers -> CallRec]
  BY DEF WInv, CallInv
<1>1. \A y \in Callers : y # x => call'[y] = call[y]
  BY TryStep DEF CallStep
<1>2. superseded' = (superseded \/ inflight_timeout = w)
  BY DEF TryUnschedule
<1>3. CASE AbortResult(c, w) = "EAGAIN"
  <2>1. /\ w \notin active /\ inflight_timeout = w /\ announcing_cpu # c
        /\ call' = [call EXCEPT ![x] = [op |-> op, pc |-> "retry", work |-> w,
                                        queue |-> q, delay |-> delay]]
        /\ flags' = s.flags /\ UNCHANGED <<active, forever, assert_failed>>
    BY <1>3 DEF TryUnschedule, AbortResult, Commit
  <2>2. call'[x].pc = "retry" /\ call'[x].work = w
    BY <1>0, <2>1
  <2>3. x # Isr
    BY <2>1 DEF RunsOn
  <2>4. superseded'
    BY <1>2, <2>1
  <2>5. Retries(x, w)
    BY <2>1, <2>2, <2>3, <2>4 DEF Retries, Retrying
  <2> QED
    BY <1>1, <2>5 DEF Effect
<1>4. CASE AbortResult(c, w) # "EAGAIN"
  <2>1. inflight_timeout = w => w \in active \/ x = Isr
    BY <1>4 DEF AbortResult, RunsOn
  <2>2. PICK act, claimed : act = active \ {w} /\ claimed = TRUE
    OBVIOUS
  <2>3. Rest(x, op, w, q, delay, s, act, claimed)
    BY <1>4, <2>2 DEF TryUnschedule
  <2>4. PICK f : f = s.flags
    OBVIOUS
  <2>5. Rearmed(x, w, f, active \ {w}) /\ ClaimedIn(f, w)
    BY <2>2, <2>3, <2>4, RestRearms
  <2>6. Claimed(x, w)
    BY <1>2, <2>1, <2>5 DEF Claimed
  <2> QED
    BY <1>1, <2>6 DEF Effect
<1> QED
  BY <1>3, <1>4

(***************************************************************************)
(* The operations on items.                                                *)
(***************************************************************************)
LEMMA ItemEffect ==
    ASSUME ArmInv, ~assert_failed, NEW x \in Callers, NEW c \in Cpus,
           ItemCall(x, c) \/ unschedule_locked(x, c)
    PROVE  \E u \in Works : Effect(x, u)
<1>0. /\ WInv /\ Kept(State)
      /\ \A w \in Works : Kept([State EXCEPT !.flags[w] = @ \ {"DELAYED"}])
      /\ Idle.pc = "idle"
      /\ inflight_timeout # None => announcing_cpu # None
  BY StateKept DEF ArmInv, Idle
<1>1. UNCHANGED <<announcing_cpu, inflight_timeout, qflags, current, handler>>
  BY DEF ItemCall, k_work_schedule, k_work_reschedule, k_work_cancel, k_work_cancel_sync,
         k_work_flush, Unscheduling, unschedule_locked
<1>3. ASSUME NEW op \in {"schedule", "reschedule", "cancel", "cancel_sync", "flush"}, May(x, op)
      PROVE  /\ call[x].pc \notin {"wait", "retry"}
             /\ op \in {"cancel_sync", "flush"} => x \in Threads
  <2>1. op \in Ops[x] /\ call[x] = Idle
    BY <1>3 DEF May
  <2>2. op \in {"cancel_sync", "flush"} => x \in Threads
    BY <2>1, WorkAssumption
  <2> QED
    BY <1>0, <2>1, <2>2
<1>4. ASSUME NEW w \in Works, ~Delayed(flags, w), call[x].pc # "retry", NEW op, NEW q, NEW d,
             \/ Rest(x, op, w, q, d, State, active, FALSE)
             \/ schedule_for_queue_locked(x, State, active, w, q, d),
             \A y \in Callers : y # x => call'[y] = call[y], UNCHANGED superseded
      PROVE  Effect(x, w)
  <2>1. PICK s, claimed : s = State /\ claimed = FALSE
    OBVIOUS
  <2>2. \/ Rest(x, op, w, q, d, s, active, claimed)
        \/ schedule_for_queue_locked(x, s, active, w, q, d)
    BY <1>4, <2>1
  <2>3. Kept(s) /\ s.flags = flags
    BY <1>0, <2>1 DEF State
  <2>4. Rearmed(x, w, s.flags, active)
    BY <1>0, <2>2, <2>3, RestRearms
  <2>5. Unclaimed(x, w)
    BY <1>4, <2>3, <2>4 DEF Unclaimed
  <2> QED
    BY <1>1, <1>4, <2>5 DEF Effect
<1>5. ASSUME NEW w \in Works, NEW q \in Queues, NEW d \in Delays, k_work_schedule(x, c, w, q, d)
      PROVE  Effect(x, w)
  <2>1. /\ May(x, "schedule") /\ ~Delayed(flags, w) /\ UNCHANGED superseded
        /\ schedule_for_queue_locked(x, State, active, w, q, d)
    BY <1>5 DEF k_work_schedule, Delayed
  <2>2. call[x].pc # "retry"
    BY <1>3, <2>1
  <2>3. \A y \in Callers : y # x => call'[y] = call[y]
    BY <1>0, <2>1 DEF schedule_for_queue_locked, Returns, WInv, CallInv
  <2>4. PICK op : op = "reschedule"
    OBVIOUS
  <2> QED
    BY <1>4, <2>1, <2>2, <2>3, <2>4
<1>6. ASSUME NEW w \in Works, NEW q \in Queues \cup {None}, NEW d \in {"now", "later", "forever"},
             NEW op \in {"reschedule", "cancel", "cancel_sync", "flush"},
             Unscheduling(x, c, op, w, q, d)
      PROVE  Effect(x, w)
  <2>1. /\ call[x].pc \notin {"wait", "retry"}
        /\ op \in {"cancel_sync", "flush"} => x \in Threads
    BY <1>3, <1>6 DEF Unscheduling
  <2>2. CASE ~Delayed(flags, w)
    <3>1. Rest(x, op, w, q, d, State, active, FALSE) /\ UNCHANGED superseded
      BY <1>6, <2>2 DEF Unscheduling, Delayed
    <3>2. PICK s, claimed : s = State /\ claimed = FALSE
      OBVIOUS
    <3>3. Rest(x, op, w, q, d, s, active, claimed) /\ Kept(s) /\ active \in SUBSET Timeouts
      BY <1>0, <3>1, <3>2 DEF WInv, DispatchInv, DispatchTypeOK
    <3>4. \A y \in Callers : y # x => call'[y] = call[y]
      BY <1>0, <1>1, <2>1, <3>3, RestStep DEF CallStep
    <3> QED
      BY <1>4, <2>1, <2>2, <3>1, <3>4
  <2>3. CASE Delayed(flags, w)
    <3>1. PICK s : s = [State EXCEPT !.flags[w] = @ \ {"DELAYED"}]
      OBVIOUS
    <3>2. TryUnschedule(x, c, op, w, q, d, s) /\ RunsOn(x, c)
      BY <1>6, <2>3, <3>1 DEF Unscheduling, Delayed
    <3>3. Kept(s)
      BY <1>0, <3>1
    <3>4. s.flags = [flags EXCEPT ![w] = @ \ {"DELAYED"}]
      BY <3>1 DEF State
    <3>5. flags \in [Works -> SUBSET {"QUEUED", "RUNNING", "CANCELING", "DELAYED"}]
      BY <1>0 DEF WInv, Coherent, State, StateType
    <3>6. ClaimedIn(s.flags, w)
      BY <3>4, <3>5 DEF Delayed, ClaimedIn
    <3> QED
      BY <1>0, <1>1, <2>1, <2>3, <3>2, <3>3, <3>6, TryEffect
  <2> QED
    BY <2>2, <2>3
<1>7. ASSUME unschedule_locked(x, c)
      PROVE  \E u \in Works : Effect(x, u)
  <2>1. PICK s, op, w, q, d : /\ s = State /\ op = call[x].op /\ w = call[x].work
                              /\ q = call[x].queue /\ d = call[x].delay
    OBVIOUS
  <2>2. /\ call[x].pc = "retry" /\ Retrying(x, w) /\ RunsOn(x, c)
        /\ TryUnschedule(x, c, op, w, q, d, s)
    BY <1>7, <2>1 DEF unschedule_locked, Retrying
  <2>3. /\ w \in Works /\ op \in {"reschedule", "cancel", "cancel_sync", "flush"}
        /\ op \in {"cancel_sync", "flush"} => x \in Threads
    BY <1>0, <2>1, <2>2 DEF WInv, CallInv, RetryOK
  <2>4. q \in Queues \cup {None} /\ d \in {"now", "later", "forever"}
    BY <1>0, <2>1 DEF WInv, CallInv, CallRec
  <2>5. Kept(s) /\ s.flags = flags
    BY <1>0, <2>1 DEF State
  <2>6. ClaimedIn(s.flags, w)
    <3>1. w \notin raced => ~Delayed(flags, w)
      BY <2>2, <2>3 DEF ArmInv, Orderly, RetryOwns
    <3> QED
      BY <2>5, <3>1 DEF ClaimedIn
  <2>7. Effect(x, w)
    BY <1>0, <1>1, <2>1, <2>2, <2>3, <2>4, <2>5, <2>6, TryEffect
  <2> QED
    BY <2>3, <2>7
<1>8. Delays \subseteq {"now", "later", "forever"}
  BY WorkAssumption
<1>9. ASSUME NEW w \in Works,
             \/ \E q \in Queues, d \in Delays : k_work_reschedule(x, c, w, q, d)
             \/ k_work_cancel(x, c, w)
             \/ k_work_cancel_sync(x, c, w)
             \/ k_work_flush(x, c, w)
      PROVE  \E q \in Queues \cup {None}, d \in {"now", "later", "forever"},
                op \in {"reschedule", "cancel", "cancel_sync", "flush"} :
                  Unscheduling(x, c, op, w, q, d)
  BY <1>8, <1>9 DEF k_work_reschedule, k_work_cancel, k_work_cancel_sync, k_work_flush
<1> QED
  BY <1>5, <1>6, <1>7, <1>9 DEF ItemCall

\* What ArmInv says apart from WInv, whose step is WorkStep.
Armed ==
    /\ RacedType
    /\ \A w \in Works \ raced : Orderly(w)
    /\ assert_failed => raced # {}
    /\ call[Isr].pc # "retry"
    /\ inflight_timeout # None => announcing_cpu # None

(***************************************************************************)
(* The step is in order if it leaves in order every item that the history  *)
(* does not take note of.                                                  *)
(***************************************************************************)
LEMMA ArmedWhen ==
    ASSUME NEW x, TrackRace(x), (inflight_timeout # None => announcing_cpu # None)',
           \A w \in Works : w \notin raced /\ NotOvertaken(x, w) => Orderly(w)',
           call'[Isr].pc # "retry", assert_failed' => raced' # {}
    PROVE  Armed'
<1>1. RacedType'
  BY DEF RacedType, TrackRace
<1>2. ASSUME NEW w \in Works, w \notin raced' PROVE Orderly(w)'
  <2>1. NotOvertaken(x, w) /\ (w \notin raced \/ Calm(w)')
    BY <1>2, RaceRule
  <2>2. Calm(w)' => Orderly(w)'
    BY DEF Calm, Orderly, TimeoutMatches, HandlerOwns, RetryOwns, Delayed
  <2> QED
    BY <2>1, <2>2
<1> QED
  BY <1>1, <1>2 DEF Armed

(***************************************************************************)
(* The item of an operation.                                               *)
(***************************************************************************)
LEMMA EffectOwn ==
    ASSUME ArmInv, NEW x \in Callers, NEW u \in Works, Effect(x, u),
           u \notin raced, NotOvertaken(x, u)
    PROVE  Orderly(u)'
<1>1. TimeoutMatches(u) /\ HandlerOwns(u) /\ RetryOwns(u) /\ call[Isr].pc # "retry"
  BY DEF ArmInv, Orderly
<1>2. HandlerComing(u)' <=> HandlerComing(u)
  BY DEF Effect, HandlerComing
<1>3. \A y \in Callers : y # x => (Retrying(y, u)' <=> Retrying(y, u))
  BY DEF Effect, Retrying
<1>4. CASE Retries(x, u)
  <2>1. ~Delayed(flags', u) /\ u \notin active' /\ Retrying(x, u)'
    BY <1>4 DEF Retries, ClaimedIn
  <2>2. TimeoutMatches(u)'
    BY <2>1 DEF TimeoutMatches, Delayed
  <2>3. HandlerOwns(u)' /\ RetryOwns(u)'
    BY <2>1 DEF HandlerOwns, RetryOwns
  <2> QED
    BY <2>2, <2>3 DEF Orderly
<1>5. ASSUME ~Retrying(x, u)', ~HandlerComing(u),
             \/ u \notin active' /\ ~Delayed(flags', u)
             \/ /\ u \in active' /\ u \notin forever' /\ Delayed(flags', u)
                /\ \A y \in Callers : ~Retrying(y, u)'
             \/ /\ u \notin active' /\ u \in forever' /\ Delayed(flags', u)
                /\ \A y \in Callers : ~Retrying(y, u)'
      PROVE  Orderly(u)'
  <2>1. TimeoutMatches(u)'
    BY <1>5 DEF TimeoutMatches, Delayed
  <2>2. HandlerOwns(u)'
    BY <1>2, <1>5 DEF HandlerOwns
  <2>3. RetryOwns(u)'
    BY <1>5 DEF RetryOwns
  <2> QED
    BY <2>1, <2>2, <2>3 DEF Orderly
<1>6. CASE Claimed(x, u)
  <2>1. PICK f : /\ ClaimedIn(f, u) /\ Rearmed(x, u, f, active \ {u})
                 /\ inflight_timeout = u => u \in active \/ x = Isr
                 /\ superseded' = (superseded \/ inflight_timeout = u)
                 /\ Delayed(flags, u) \/ Retrying(x, u)
    BY <1>6 DEF Claimed
  <2>2. ~HandlerComing(u)
    <3>1. SUFFICES ASSUME HandlerComing(u) PROVE FALSE
      OBVIOUS
    <3>2. x = Isr /\ inflight_timeout = u
      BY <1>1, <2>1, <3>1 DEF HandlerOwns, HandlerComing
    <3>3. Delayed(flags, u)
      BY <1>1, <2>1, <3>2 DEF Retrying
    <3>4. ~superseded /\ superseded'
      BY <1>1, <2>1, <3>1, <3>2, <3>3 DEF HandlerOwns
    <3> QED
      BY <3>1, <3>2, <3>4 DEF NotOvertaken
  <2>3. PICK how \in {"not", "later", "forever"} :
          /\ active' = (active \ {u}) \cup (IF how = "later" THEN {u} ELSE {})
          /\ Delayed(flags', u) <=> how # "not"
          /\ how = "later" => u \notin forever'
          /\ how = "forever" => u \in forever'
          /\ call'[x].pc # "retry"
    BY <2>1 DEF Rearmed, ClaimedIn
  <2>4. ~Retrying(x, u)'
    BY <2>3 DEF Retrying
  <2>5. Delayed(flags', u) => \A y \in Callers : ~Retrying(y, u)'
    <3>1. CASE Delayed(flags, u)
      BY <1>1, <1>3, <2>4, <3>1 DEF RetryOwns
    <3>2. CASE ~Delayed(flags, u)
      BY <3>2 DEF NotOvertaken
    <3> QED
      BY <3>1, <3>2
  <2> QED
    BY <1>5, <2>2, <2>3, <2>4, <2>5
<1>7. CASE Unclaimed(x, u)
  <2>1. /\ ~Delayed(flags, u) /\ Rearmed(x, u, flags, active)
        /\ call[x].pc # "retry" /\ UNCHANGED superseded
    BY <1>7 DEF Unclaimed
  <2>2. u \notin active
    BY <1>1, <2>1 DEF TimeoutMatches, Delayed
  <2>3. PICK how \in {"not", "later", "forever"} :
          /\ active' = active \cup (IF how = "later" THEN {u} ELSE {})
          /\ Delayed(flags', u) <=> how # "not"
          /\ how = "later" => u \notin forever'
          /\ how = "forever" => u \in forever'
          /\ call'[x].pc # "retry"
    BY <2>1 DEF Rearmed
  <2>4. ~Retrying(x, u)' /\ ~Retrying(x, u)
    BY <2>1, <2>3 DEF Retrying
  <2>5. CASE how # "not"
    <3>1. \A y \in Callers : ~Retrying(y, u)'
      BY <2>1, <2>3, <2>5 DEF NotOvertaken
    <3>2. ~HandlerComing(u)
      BY <1>1, <1>3, <2>1, <2>4, <3>1 DEF HandlerOwns
    <3> QED
      BY <1>5, <2>2, <2>3, <2>4, <2>5, <3>1, <3>2
  <2>6. CASE how = "not"
    <3>1. u \notin active' /\ ~Delayed(flags', u)
      BY <2>2, <2>3, <2>6
    <3>2. TimeoutMatches(u)'
      BY <3>1 DEF TimeoutMatches, Delayed
    <3>3. HandlerOwns(u)'
      BY <1>1, <1>2, <1>3, <2>1, <2>4, <3>1 DEF HandlerOwns
    <3>4. RetryOwns(u)'
      BY <3>1 DEF RetryOwns
    <3> QED
      BY <3>2, <3>3, <3>4 DEF Orderly
  <2> QED
    BY <2>5, <2>6
<1> QED
  BY <1>4, <1>6, <1>7 DEF Effect

(***************************************************************************)
(* The other items.                                                        *)
(***************************************************************************)
LEMMA EffectOther ==
    ASSUME ArmInv, NEW x \in Callers, NEW u \in Works, Effect(x, u),
           NEW v \in Works, v # u, v \notin raced
    PROVE  Orderly(v)'
<1>0. superseded \in BOOLEAN /\ call \in [Callers -> CallRec]
  BY DEF ArmInv, WInv, DispatchInv, DispatchTypeOK, CallInv
<1>1. /\ Delayed(flags', v) <=> Delayed(flags, v)
      /\ v \in active' <=> v \in active
      /\ v \in forever' <=> v \in forever
  <2>1. CASE Retries(x, u)
    BY <2>1 DEF Retries, ClaimedIn
  <2>2. CASE Claimed(x, u)
    <3>1. PICK f : ClaimedIn(f, u) /\ Rearmed(x, u, f, active \ {u})
      BY <2>2 DEF Claimed
    <3> QED
      BY <3>1 DEF ClaimedIn, Rearmed
  <2>3. CASE Unclaimed(x, u)
    BY <2>3 DEF Unclaimed, Rearmed
  <2> QED
    BY <2>1, <2>2, <2>3 DEF Effect
<1>2. HandlerComing(v)' <=> HandlerComing(v)
  BY DEF Effect, HandlerComing
<1>3. HandlerComing(v) => superseded' = superseded
  <2>1. SUFFICES ASSUME inflight_timeout = v PROVE superseded' = superseded
    BY DEF HandlerComing
  <2>2. CASE Claimed(x, u)
    <3>1. superseded' = (superseded \/ inflight_timeout = u)
      BY <2>2 DEF Claimed
    <3> QED
      BY <1>0, <2>1, <3>1
  <2> QED
    BY <2>1, <2>2 DEF Effect, Retries, Unclaimed
<1>4. ASSUME NEW y \in Callers PROVE Retrying(y, v)' <=> Retrying(y, v)
  <2>1. CASE y # x
    BY <2>1 DEF Effect, Retrying
  <2>2. CASE y = x
    <3>1. ~Retrying(x, v)
      BY DEF Effect, Retrying
    <3>2. ~Retrying(x, v)'
      BY DEF Effect, Retries, Claimed, Unclaimed, Rearmed, Retrying
    <3> QED
      BY <2>2, <3>1, <3>2
  <2> QED
    BY <2>1, <2>2
<1>5. Orderly(v)
  BY DEF ArmInv
<1> QED
  BY <1>1, <1>2, <1>3, <1>4, <1>5, OrderlyKept

(***************************************************************************)
(* The operations on items.                                                *)
(***************************************************************************)
LEMMA ItemArms ==
    ASSUME ArmInv, ~assert_failed, NEW x \in Callers, NEW c \in Cpus,
           ItemCall(x, c) \/ unschedule_locked(x, c), TrackRace(x)
    PROVE  Armed'
<1>1. PICK u \in Works : Effect(x, u)
  BY ItemEffect
<1>2. \A w \in Works : w \notin raced /\ NotOvertaken(x, w) => Orderly(w)'
  BY <1>1, EffectOwn, EffectOther
<1>3. call'[Isr].pc # "retry"
  <2>1. CASE x # Isr
    BY <1>1, <2>1 DEF ArmInv, Effect, Callers
  <2>2. CASE x = Isr
    BY <1>1, <2>2 DEF Effect, Retries, Claimed, Unclaimed, Rearmed
  <2> QED
    BY <2>1, <2>2
<1>4. assert_failed' => raced' # {}
  <2> SUFFICES ASSUME assert_failed' PROVE raced' # {}
    OBVIOUS
  <2>1. ~Retries(x, u)
    BY DEF Retries
  <2>2. ~Claimed(x, u)
    BY DEF Claimed, Rearmed
  <2>3. /\ ~Delayed(flags, u) /\ u \in active /\ u \in active'
    BY <1>1, <2>1, <2>2 DEF Effect, Unclaimed, Rearmed
  <2>4. u \in raced
    BY <2>3 DEF ArmInv, Orderly, TimeoutMatches, Delayed
  <2>5. ~Calm(u)'
    BY <2>3 DEF Calm
  <2>6. u \in raced'
    BY <2>4, <2>5, RaceRule
  <2> QED
    BY <2>6
<1>5. (inflight_timeout # None => announcing_cpu # None)'
  BY <1>1 DEF ArmInv, Effect
<1> QED
  BY <1>2, <1>3, <1>4, <1>5, ArmedWhen

(***************************************************************************)
(* Steps that leave the timeouts and DELAYED alone, and make nobody try    *)
(* again.                                                                  *)
(***************************************************************************)
LEMMA ArmKept ==
    ASSUME ArmInv, SameDelayed(flags, flags'),
           \A x \in Callers : (call'[x].pc = "retry" \/ call[x].pc = "retry") => call'[x] = call[x],
           UNCHANGED <<active, inflight_timeout, superseded, handler, forever>>
    PROVE  call'[Isr].pc # "retry" /\ \A w \in Works : w \notin raced => Orderly(w)'
<1>1. call'[Isr].pc # "retry"
  BY DEF ArmInv, Callers
<1>2. ASSUME NEW w \in Works, w \notin raced PROVE Orderly(w)'
  <2>1. Orderly(w)
    BY <1>2 DEF ArmInv
  <2>2. HandlerComing(w)' <=> HandlerComing(w)
    BY DEF HandlerComing
  <2>3. \A y \in Callers : Retrying(y, w)' <=> Retrying(y, w)
    BY DEF Retrying
  <2>4. Delayed(flags', w) <=> Delayed(flags, w)
    BY DEF SameDelayed
  <2> QED
    BY <2>1, <2>2, <2>3, <2>4, OrderlyKept
<1> QED
  BY <1>1, <1>2

(***************************************************************************)
(* The queue threads and the operations on queues.                         *)
(***************************************************************************)
LEMMA QueueArms ==
    ASSUME ArmInv, ~assert_failed, NEW z, TrackRace(z),
           \/ \E x \in Callers : (\E q \in Queues : QueueCall(x, q)) \/ StopReturns(x)
           \/ \E q \in Queues : WorkerStep(q)
    PROVE  Armed'
<1>0. /\ WInv /\ Idle.pc = "idle"
      /\ flags \in [Works -> SUBSET {"QUEUED", "RUNNING", "CANCELING", "DELAYED"}]
      /\ call \in [Callers -> CallRec]
  BY DEF ArmInv, WInv, CallInv, Coherent, State, StateType, Idle
<1>1. UNCHANGED <<dispatchVars, handler, assert_failed, forever>>
  BY DEF QueueCall, k_work_queue_drain, k_work_queue_unplug, k_work_queue_stop, StopReturns,
         WorkerStep, WorkerTakes, WorkerIdles, WorkHandlerReturns
<1>2. SameDelayed(flags, flags')
  <2>1. CASE \E x \in Callers : (\E q \in Queues : QueueCall(x, q)) \/ StopReturns(x)
    <3>1. UNCHANGED flags
      BY <2>1 DEF QueueCall, k_work_queue_drain, k_work_queue_unplug, k_work_queue_stop,
                  StopReturns, Commit, State, notify_queue_locked
    <3> QED
      BY <3>1 DEF SameDelayed
  <2>2. ASSUME NEW q \in Queues, WorkerStep(q) PROVE SameDelayed(flags, flags')
    <3>1. CASE WorkerTakes(q)
      BY <1>0, <3>1 DEF WorkerTakes, SameDelayed, Delayed
    <3>2. CASE WorkerIdles(q)
      BY <3>2 DEF WorkerIdles, SameDelayed
    <3>3. CASE WorkHandlerReturns(q)
      <4>1. flags' = flags \/ flags' = [flags EXCEPT ![current[q]] = @ \ {"RUNNING", "CANCELING"}]
        BY <3>3 DEF WorkHandlerReturns, finalize_cancel_locked, finalize_flush_locked
      <4> QED
        BY <1>0, <4>1 DEF SameDelayed, Delayed
    <3> QED
      BY <2>2, <3>1, <3>2, <3>3 DEF WorkerStep
  <2> QED
    BY <2>1, <2>2
<1>3. ASSUME NEW x \in Callers, call'[x] # call[x]
      PROVE  call'[x].pc # "retry" /\ call[x].pc # "retry"
  <2>1. ASSUME NEW y \in Callers, y = x, NEW q \in Queues, QueueCall(y, q)
        PROVE  call'[x].pc # "retry" /\ call[x].pc # "retry"
    <3>1. call[x] = Idle /\ (Waits(x, "drain", None, q) \/ Waits(x, "stop", None, q))
      BY <1>3, <2>1 DEF QueueCall, k_work_queue_drain, k_work_queue_unplug, k_work_queue_stop, May
    <3>2. None \in Works \cup {None} /\ q \in Queues \cup {None}
      OBVIOUS
    <3>3. PICK o \in {"cancel_sync", "flush", "drain", "stop"}, w \in Works \cup {None} :
            Waits(x, o, w, q)
      BY <3>1, <3>2
    <3>4. PICK c \in CallRec : c.pc = "wait" /\ call' = [call EXCEPT ![x] = c]
      BY <3>2, <3>3, WaitRecord
    <3> QED
      BY <1>0, <3>1, <3>4
  <2>2. ASSUME NEW y \in Callers, y # x, (\E q \in Queues : QueueCall(y, q)) \/ StopReturns(y)
        PROVE  FALSE
    <3>1. \/ call' = call \/ Returns(y)
          \/ \E q \in Queues : Waits(y, "drain", None, q) \/ Waits(y, "stop", None, q)
      BY <2>2 DEF QueueCall, k_work_queue_drain, k_work_queue_unplug, k_work_queue_stop, StopReturns
    <3>2. call' = call \/ \E r : call' = [call EXCEPT ![y] = r]
      BY <3>1, Zenon DEF Returns, Waits
    <3>3. call'[x] = call[x]
      BY <1>0, <2>2, <3>2
    <3> QED
      BY <1>3, <3>3
  <2>3. CASE StopReturns(x)
    <3>1. call[x].op = "stop" /\ call'[x] = Idle
      BY <1>0, <2>3 DEF StopReturns, Returns
    <3>2. call[x].pc # "retry"
      BY <1>0, <3>1 DEF WInv, CallInv, RetryOK
    <3> QED
      BY <1>0, <3>1, <3>2
  <2>4. ASSUME NEW q \in Queues, WorkerStep(q)
        PROVE  call'[x].pc # "retry" /\ call[x].pc # "retry"
    <3>1. CASE WorkerTakes(q)
      BY <1>3, <3>1 DEF WorkerTakes
    <3>2. CASE WorkerIdles(q)
      <4>1. call[x].op = "drain" /\ call'[x] = Idle
        BY <1>3, <3>2 DEF WorkerIdles
      <4> QED
        BY <1>0, <4>1 DEF WInv, CallInv, RetryOK
    <3>3. CASE WorkHandlerReturns(q)
      <4>1. PICK y \in Threads : Returns(y) /\ call[y].pc = "wait"
        <5>1. CASE current[q] \in Works
          <6>1. PICK w : w = current[q]
            OBVIOUS
          <6>2. FirstCanceller(w) # 0 /\ Returns(pending_cancels[FirstCanceller(w)])
            BY <1>3, <3>3, <5>1, <6>1 DEF WorkHandlerReturns, finalize_cancel_locked
          <6>3. PICK k \in 1..Len(pending_cancels) : k = FirstCanceller(w)
            BY <1>0, <6>2, FirstCancellerFound DEF WInv
          <6>4. pending_cancels[k] \in Threads /\ call[pending_cancels[k]].pc = "wait"
            BY <1>0 DEF WInv, CancelInv, WaitsFor, ToSet
          <6> QED
            BY <6>2, <6>3, <6>4
        <5>2. CASE current[q] \notin Works
          <6>1. Returns(current[q]) /\ worker[q] = "handler"
            BY <3>3, <5>2 DEF WorkHandlerReturns, finalize_flush_locked
          <6>2. current[q] # None
            BY <1>0, <6>1 DEF WInv, Coherent, HandlerHasItem, State
          <6>3. current[q] \in Threads
            BY <1>0, <5>2, <6>2 DEF WInv, DataType, Entries
          <6> QED
            BY <1>0, <6>1, <6>3 DEF WInv, FlushInv, WaitsFor
        <5> QED
          BY <5>1, <5>2
      <4>2. y \in Callers
        BY DEF Callers
      <4>3. x = y /\ call'[x] = Idle
        BY <1>0, <1>3, <4>1, <4>2 DEF Returns
      <4> QED
        BY <1>0, <4>1, <4>3
    <3> QED
      BY <2>4, <3>1, <3>2, <3>3 DEF WorkerStep
  <2> QED
    BY <2>1, <2>2, <2>3, <2>4
<1>4. UNCHANGED <<active, inflight_timeout, superseded, announcing_cpu>>
  BY <1>1 DEF dispatchVars
<1>5. \A x \in Callers : (call'[x].pc = "retry" \/ call[x].pc = "retry") => call'[x] = call[x]
  BY <1>3
<1>6. call'[Isr].pc # "retry" /\ \A w \in Works : w \notin raced => Orderly(w)'
  BY <1>1, <1>2, <1>4, <1>5, ArmKept
<1>7. (inflight_timeout # None => announcing_cpu # None)' /\ ~assert_failed'
  BY <1>1, <1>4 DEF ArmInv
<1> QED
  BY <1>6, <1>7, ArmedWhen

(***************************************************************************)
(* The announce loop pops a timeout, whose item is scheduled unless it was *)
(* overtaken.                                                              *)
(***************************************************************************)
LEMMA PopArms ==
    ASSUME ArmInv, ~assert_failed, NEW c \in Cpus, TimeoutPopped(c), NEW z, TrackRace(z)
    PROVE  Armed'
<1>0. None \notin Cpus /\ None \notin Works /\ Works = Timeouts /\ active \subseteq Works
  BY DispatchAssumption DEF Works, ArmInv, WInv, DispatchInv, DispatchTypeOK
<1>1. \A v \in Works : ~HandlerComing(v)
  BY <1>0 DEF TimeoutPopped, Announce, HandlerComing, ArmInv
<1>2. /\ UNCHANGED <<flags, call, assert_failed, forever>>
      /\ handler' = IF inflight_timeout' = None THEN "idle" ELSE "entered"
      /\ StopFiring \/ \E t \in active : Fire(c, t)
  BY DEF TimeoutPopped, Announce, HandlerReturn
<1>3. ~superseded' /\ (inflight_timeout # None => announcing_cpu # None)'
  BY <1>0, <1>2 DEF StopFiring, Fire
<1>4. \A v \in Works : (v \in active' \/ HandlerComing(v)') <=> v \in active
  BY <1>0, <1>2 DEF StopFiring, Fire, HandlerComing
<1>5. \A v \in Works : HandlerComing(v)' => v \notin active' /\ v \in active
  BY <1>0, <1>2 DEF StopFiring, Fire, HandlerComing
<1>6. ASSUME NEW w \in Works, w \notin raced PROVE Orderly(w)'
  <2>1. TimeoutMatches(w) /\ RetryOwns(w) /\ ~HandlerComing(w)
    BY <1>1, <1>6 DEF ArmInv, Orderly
  <2>2. w \in active <=> Delayed(flags, w) /\ w \notin forever
    BY <2>1 DEF TimeoutMatches, Delayed
  <2>3. TimeoutMatches(w)'
    BY <1>2, <1>4, <2>2 DEF TimeoutMatches, Delayed
  <2>4. HandlerOwns(w)'
    BY <1>2, <1>3, <1>5, <2>2 DEF HandlerOwns
  <2>5. RetryOwns(w)'
    BY <1>2, <2>1 DEF RetryOwns, Retrying, Delayed
  <2> QED
    BY <2>3, <2>4, <2>5 DEF Orderly
<1>7. call'[Isr].pc # "retry" /\ ~assert_failed'
  BY <1>2 DEF ArmInv
<1> QED
  BY <1>3, <1>6, <1>7, ArmedWhen

(***************************************************************************)
(* work_timeout() of an item that is still scheduled, or was claimed.      *)
(***************************************************************************)
LEMMA HandlerArms ==
    ASSUME ArmInv, ~assert_failed, work_timeout, NEW z, TrackRace(z)
    PROVE  Armed'
<1>1. PICK u : u = inflight_timeout
  OBVIOUS
<1>2. /\ u \in Works /\ HandlerComing(u)
      /\ flags \in [Works -> SUBSET {"QUEUED", "RUNNING", "CANCELING", "DELAYED"}]
  BY <1>1 DEF work_timeout, ArmInv, WInv, DispatchInv, HandlerComing, Coherent, State, StateType
<1>3. /\ UNCHANGED <<active, inflight_timeout, superseded, announcing_cpu, call, assert_failed,
                     forever>>
      /\ handler' = "done"
  BY DEF work_timeout, dispatchVars
<1>4. ~Delayed(flags', u) /\ \A v \in Works : v # u => (Delayed(flags', v) <=> Delayed(flags, v))
  <2>1. CASE ~Delayed(flags, u)
    <3>1. flags' = flags
      BY <1>1, <2>1 DEF work_timeout, Commit, State, Delayed
    <3> QED
      BY <2>1, <3>1
  <2>2. CASE Delayed(flags, u)
    <3>1. PICK s, x, q : /\ s = [State EXCEPT !.flags[u] = @ \ {"DELAYED"}]
                         /\ x = None /\ q = delay_queue[u]
      OBVIOUS
    <3>2. s \in StateType
      BY <1>2, <3>1, StateKept DEF ArmInv, Kept, Coherent
    <3>3. flags' = submit_to_queue_locked(x, s, u, q).flags
      BY <1>1, <2>2, <3>1 DEF work_timeout, Commit, Delayed
    <3>4. SameDelayed(s.flags, flags')
      BY <1>2, <3>2, <3>3, SubmitDelayed
    <3>5. s.flags = [flags EXCEPT ![u] = @ \ {"DELAYED"}]
      BY <3>1 DEF State
    <3> QED
      BY <1>2, <3>4, <3>5 DEF SameDelayed, Delayed
  <2> QED
    BY <2>1, <2>2
<1>5. \A v \in Works : ~HandlerComing(v)' /\ (v # u => ~HandlerComing(v))
  BY <1>1, <1>3 DEF HandlerComing
<1>6. ASSUME NEW w \in Works, w \notin raced PROVE Orderly(w)'
  <2>1. TimeoutMatches(w) /\ HandlerOwns(w) /\ RetryOwns(w)
    BY <1>6 DEF ArmInv, Orderly
  <2>2. CASE w = u
    <3>1. u \notin active' /\ ~Delayed(flags', u)
      BY <1>2, <1>3, <1>4, <2>1, <2>2 DEF HandlerOwns
    <3> QED
      BY <1>5, <2>2, <3>1 DEF Orderly, TimeoutMatches, HandlerOwns, RetryOwns, Delayed
  <2>3. CASE w # u
    <3>1. ~HandlerComing(w) /\ ~HandlerComing(w)'
      BY <1>5, <2>3
    <3>2. Delayed(flags', w) <=> Delayed(flags, w)
      BY <1>4, <2>3
    <3>3. \A y \in Callers : Retrying(y, w)' <=> Retrying(y, w)
      BY <1>3 DEF Retrying
    <3>4. Orderly(w)
      BY <2>1 DEF Orderly
    <3> QED
      BY <1>3, <3>1, <3>2, <3>3, <3>4, OrderlyKept
  <2> QED
    BY <2>2, <2>3
<1>7. /\ call'[Isr].pc # "retry" /\ ~assert_failed'
      /\ (inflight_timeout # None => announcing_cpu # None)'
  BY <1>3 DEF ArmInv
<1> QED
  BY <1>6, <1>7, ArmedWhen

(***************************************************************************)
(* The initial state.                                                      *)
(***************************************************************************)
LEMMA ArmInit ==
    ASSUME Init
    PROVE  ArmInv
<1>1. WInv
  BY WorkInit
<1>2. /\ flags = [w \in Works |-> {}] /\ active = {} /\ inflight_timeout = None
      /\ handler = "idle" /\ raced = {} /\ assert_failed = FALSE
      /\ \A x \in Callers : call[x].pc = "idle"
  BY DEF Init, DispatchInit, Idle
<1>3. \A w \in Works : Orderly(w)
  BY <1>2 DEF Orderly, TimeoutMatches, HandlerOwns, RetryOwns, HandlerComing, Retrying, Delayed
<1> QED
  BY <1>1, <1>2, <1>3 DEF ArmInv, RacedType, Callers

(***************************************************************************)
(* Every step.                                                             *)
(***************************************************************************)
LEMMA ArmStep ==
    ASSUME ArmInv, [Next]_vars
    PROVE  ArmInv'
<1>0. WInv'
  BY WorkStep DEF ArmInv, StepOK
<1>1. CASE UNCHANGED vars
  <2>1. UNCHANGED <<active, inflight_timeout, superseded, announcing_cpu, handler, assert_failed,
                    forever, raced, flags, call>>
    BY <1>1 DEF vars, workVars, dispatchVars
  <2>2. call'[Isr].pc # "retry" /\ \A w \in Works : w \notin raced => Orderly(w)'
    BY <2>1, ArmKept DEF SameDelayed
  <2> QED
    BY <1>0, <2>1, <2>2 DEF ArmInv, RacedType
<1>2. ASSUME NEW x \in Callers, NEW c \in Cpus, ItemCall(x, c) \/ unschedule_locked(x, c),
             TrackRace(x), ~assert_failed
      PROVE  Armed'
  BY <1>2, ItemArms
<1>3. ASSUME NEW z, TrackRace(z), ~assert_failed,
             \/ \E x \in Callers : (\E q \in Queues : QueueCall(x, q)) \/ StopReturns(x)
             \/ \E q \in Queues : WorkerStep(q)
      PROVE  Armed'
  BY <1>3, QueueArms
<1>4. ASSUME NEW c \in Cpus, NEW z, TimeoutPopped(c), TrackRace(z), ~assert_failed PROVE Armed'
  BY <1>4, PopArms
<1>5. ASSUME NEW z, work_timeout, TrackRace(z), ~assert_failed PROVE Armed'
  BY <1>5, HandlerArms
<1>6. Next => Armed'
  BY <1>2, <1>3, <1>4, <1>5 DEF Next, CallerStep, History
<1> QED
  BY <1>0, <1>1, <1>6 DEF ArmInv, Armed

(***************************************************************************)
(* Whoever calls and whenever, also while unschedule_locked() has dropped  *)
(* the lock: every scheduled item that has not been overtaken has a        *)
(* timeout in the queue or a handler on its way, or is scheduled for ever, *)
(* the timeout of any other is free, and z_add_timeout() is given one that *)
(* is linked only when some item has been overtaken.                       *)
(***************************************************************************)
THEOREM WorkDelayedArmed == Spec => [](DelayedArmed /\ (raced = {} => TimeoutFreeWhenAdded))
<1>1. Init => ArmInv
  BY ArmInit
<1>2. ArmInv /\ [Next]_vars => ArmInv'
  BY ArmStep
<1>3. ArmInv => DelayedArmed /\ (raced = {} => TimeoutFreeWhenAdded)
  BY DEF ArmInv, DelayedArmed, Orderly, TimeoutFreeWhenAdded
<1> QED
  BY <1>1, <1>2, <1>3, PTL DEF Spec

-----------------------------------------------------------------------------
(* The request to stop, when one caller drains and stops the queues.       *)

OnlyDrainer(y) ==
    \A x \in Callers : x # y => Ops[x] \cap {"drain", "stop"} = {}

\* The queue threads of r are those of s, but for some that are woken.
OnlyWakes(s, r) ==
    \A q \in Queues : r.worker[q] = s.worker[q]
                      \/ (s.worker[q] = "waiting" /\ r.worker[q] = "ready")

(***************************************************************************)
(* notify_queue_locked().                                                  *)
(***************************************************************************)
LEMMA NotifyWakes ==
    ASSUME NEW s, NEW a, a.worker = s.worker, NEW q,
           DOMAIN a = {"flags", "queue", "pending", "worker"}, s.worker \in [Queues -> WorkerStates]
    PROVE  OnlyWakes(s, notify_queue_locked(a, q))
<1>1. notify_queue_locked(a, q).worker
        = [s.worker EXCEPT ![q] = IF @ = "waiting" THEN "ready" ELSE @]
  BY DEF notify_queue_locked
<1> QED
  BY <1>1 DEF OnlyWakes

(***************************************************************************)
(* Submitting, cancelling and flushing change a queue thread only to wake  *)
(* it.                                                                     *)
(***************************************************************************)
LEMMA LockedWakes ==
    ASSUME NEW s \in StateType, NEW x, NEW w, NEW q
    PROVE  /\ OnlyWakes(s, submit_to_queue_locked(x, s, w, q))
           /\ OnlyWakes(s, cancel_async_locked(s, w))
           /\ OnlyWakes(s, work_flush_locked(s, w, x))
           /\ OnlyWakes(s, [s EXCEPT !.flags[w] = @ \cup {"DELAYED"}])
<1>0. s.worker \in [Queues -> WorkerStates] /\ OnlyWakes(s, s)
  BY DEF StateType, OnlyWakes
<1>1. OnlyWakes(s, submit_to_queue_locked(x, s, w, q))
  <2>1. PICK to : to = SubmitQueue(s, w, q)
    OBVIOUS
  <2>2. PICK a : a = [s EXCEPT !.flags[w] = @ \cup {"QUEUED"}, !.queue[w] = to,
                               !.pending[to] = Append(@, w)]
    OBVIOUS
  <2>3. submit_to_queue_locked(x, s, w, q) \in {s, notify_queue_locked(a, to)}
    BY <2>1, <2>2 DEF submit_to_queue_locked
  <2>4. a.worker = s.worker /\ DOMAIN a = {"flags", "queue", "pending", "worker"}
    BY <2>2 DEF StateType
  <2>5. OnlyWakes(s, notify_queue_locked(a, to))
    BY <1>0, <2>4, NotifyWakes
  <2> QED
    BY <1>0, <2>3, <2>5
<1>2. OnlyWakes(s, cancel_async_locked(s, w))
  <2>1. PICK a : a = IF "CANCELING" \in s.flags[w] THEN s ELSE queue_remove_locked(s, w)
    OBVIOUS
  <2>2. a.worker = s.worker /\ DOMAIN a = {"flags", "queue", "pending", "worker"}
    BY <2>1 DEF queue_remove_locked, StateType
  <2>3. PICK b : b = [a EXCEPT !.flags[w] = @ \cup {"CANCELING"}]
    OBVIOUS
  <2>4. b.worker = s.worker
    BY <2>2, <2>3
  <2>5. cancel_async_locked(s, w) \in {a, b}
    BY <2>1, <2>3 DEF cancel_async_locked
  <2> QED
    BY <2>2, <2>4, <2>5 DEF OnlyWakes
<1>3. OnlyWakes(s, work_flush_locked(s, w, x))
  <2>1. PICK a : a = queue_flusher_locked(s, w, x)
    OBVIOUS
  <2>2. a.worker = s.worker /\ DOMAIN a = {"flags", "queue", "pending", "worker"}
    BY <2>1 DEF StateType, queue_flusher_locked
  <2>3. work_flush_locked(s, w, x) \in {s, notify_queue_locked(a, s.queue[w])}
    BY <2>1 DEF work_flush_locked
  <2>4. OnlyWakes(s, notify_queue_locked(a, s.queue[w]))
    BY <1>0, <2>2, NotifyWakes
  <2> QED
    BY <1>0, <2>3, <2>4
<1>4. OnlyWakes(s, [s EXCEPT !.flags[w] = @ \cup {"DELAYED"}])
  <2>1. [s EXCEPT !.flags[w] = @ \cup {"DELAYED"}].worker = s.worker
    BY DEF StateType
  <2> QED
    BY <2>1 DEF OnlyWakes
<1> QED
  BY <1>1, <1>2, <1>3, <1>4

\* The ways in which an operation of x on item w ends, from s in the state r.
EndsSubmit(x, w, q, s, r) ==
    /\ r = submit_to_queue_locked(x, s, w, q)
    /\ Returns(x) /\ UNCHANGED pending_cancels

EndsDelayed(x, w, s, r) ==
    /\ r = [s EXCEPT !.flags[w] = @ \cup {"DELAYED"}]
    /\ Returns(x) /\ UNCHANGED pending_cancels

EndsCancel(x, op, w, s, r) ==
    /\ r = cancel_async_locked(s, w)
    /\ \/ /\ op = "cancel_sync" => "CANCELING" \notin r.flags[w]
          /\ Returns(x) /\ UNCHANGED pending_cancels
       \/ /\ op = "cancel_sync" /\ "CANCELING" \in r.flags[w]
          /\ Waits(x, "cancel_sync", w, None)
          /\ pending_cancels' = Append(pending_cancels, x)

EndsFlush(x, op, w, s, claimed, r) ==
    \E u :
        /\ u = IF claimed THEN submit_to_queue_locked(x, s, w, delay_queue[w]) ELSE s
        /\ r = work_flush_locked(u, w, x)
        /\ op = "flush" /\ UNCHANGED pending_cancels
        /\ IF NeedsFlush(u, w) THEN Waits(x, "flush", w, None) ELSE Returns(x)

Ends(x, op, w, q, s, claimed, r) ==
    /\ Commit(r)
    /\ \/ EndsSubmit(x, w, q, s, r)
       \/ EndsDelayed(x, w, s, r)
       \/ EndsCancel(x, op, w, s, r)
       \/ EndsFlush(x, op, w, s, claimed, r)

(***************************************************************************)
(* An operation on an item ends in one of these ways.                      *)
(***************************************************************************)
LEMMA RestEnds ==
    ASSUME NEW x, NEW op, NEW w, NEW q, NEW delay, NEW s, NEW act, NEW claimed,
           \/ Rest(x, op, w, q, delay, s, act, claimed)
           \/ op = "schedule" /\ schedule_for_queue_locked(x, s, act, w, q, delay)
    PROVE  \E r : Ends(x, op, w, q, s, claimed, r)
<1>1. CASE schedule_for_queue_locked(x, s, act, w, q, delay)
  <2>1. CASE delay = "now"
    <3>1. PICK r : r = submit_to_queue_locked(x, s, w, q)
      OBVIOUS
    <3>2. Commit(r) /\ EndsSubmit(x, w, q, s, r)
      BY <1>1, <2>1, <3>1 DEF schedule_for_queue_locked, EndsSubmit
    <3> QED
      BY <3>2 DEF Ends
  <2>2. CASE delay # "now"
    <3>1. PICK r : r = [s EXCEPT !.flags[w] = @ \cup {"DELAYED"}]
      OBVIOUS
    <3>2. Commit(r) /\ EndsDelayed(x, w, s, r)
      BY <1>1, <2>2, <3>1 DEF schedule_for_queue_locked, EndsDelayed
    <3> QED
      BY <3>2 DEF Ends
  <2> QED
    BY <2>1, <2>2
<1>2. CASE (op = "cancel" /\ CancelRest(x, s, act, w))
           \/ (op = "cancel_sync" /\ CancelSyncRest(x, s, act, w))
  <2>1. PICK r : r = cancel_async_locked(s, w)
    OBVIOUS
  <2>2. Commit(r) /\ EndsCancel(x, op, w, s, r)
    BY <1>2, <2>1 DEF CancelRest, CancelSyncRest, EndsCancel
  <2> QED
    BY <2>2 DEF Ends
<1>3. CASE op = "flush" /\ FlushRest(x, s, act, w, claimed)
  <2>1. PICK u : u = IF claimed THEN submit_to_queue_locked(x, s, w, delay_queue[w]) ELSE s
    OBVIOUS
  <2>2. PICK r : r = work_flush_locked(u, w, x)
    OBVIOUS
  <2>3. Commit(r) /\ EndsFlush(x, op, w, s, claimed, r)
    BY <1>3, <2>1, <2>2 DEF FlushRest, EndsFlush
  <2> QED
    BY <2>3 DEF Ends
<1> QED
  BY <1>1, <1>2, <1>3 DEF Rest

\* The record is the state, but that DELAYED may have been cleared.
Claims(s) ==
    /\ Kept(s) /\ s.queue = queue /\ s.pending = pending /\ s.worker = worker
    /\ \A v \in Works, f \in {"QUEUED", "RUNNING", "CANCELING"} :
         f \in s.flags[v] <=> f \in flags[v]

\* What a step of caller x on an item is: it begins an operation or goes on with
\* one, on a state in which it has claimed the item; it drops the lock to try
\* again or goes through.
Shape(x, w, op, q, d, s, act, claimed) ==
    /\ Claims(s)
    /\ \/ call[x] = Idle /\ op \in Ops[x] /\ "DELAYED" \notin s.flags[w]
       \/ call[x].pc = "retry" /\ call[x].op = op /\ call[x].work = w /\ s.flags = flags
    /\ op \in {"schedule", "reschedule", "cancel", "cancel_sync", "flush"}
    /\ op \in {"cancel_sync", "flush"} => x \in Threads
    /\ \/ Rest(x, op, w, q, d, s, act, claimed)
       \/ op = "schedule" /\ schedule_for_queue_locked(x, s, act, w, q, d)
       \/ /\ Commit(s) /\ UNCHANGED pending_cancels
          /\ op \in {"reschedule", "cancel", "cancel_sync", "flush"}
          /\ call' = [call EXCEPT ![x] = [op |-> op, pc |-> "retry", work |-> w,
                                          queue |-> q, delay |-> d]]

ItemShape(x) ==
    \E w \in Works, q \in Queues \cup {None}, d \in {"now", "later", "forever"} :
      \E op, s, act, claimed : Shape(x, w, op, q, d, s, act, claimed)

(***************************************************************************)
(* The state, and the state after DELAYED is cleared.                      *)
(***************************************************************************)
LEMMA ClaimsState ==
    ASSUME WInv
    PROVE  /\ Claims(State)
           /\ \A w \in Works : /\ Claims([State EXCEPT !.flags[w] = @ \ {"DELAYED"}])
                               /\ "DELAYED" \notin [State EXCEPT !.flags[w] = @ \ {"DELAYED"}].flags[w]
<1>0. /\ Kept(State) /\ \A w \in Works : Kept([State EXCEPT !.flags[w] = @ \ {"DELAYED"}])
      /\ flags \in [Works -> SUBSET {"QUEUED", "RUNNING", "CANCELING", "DELAYED"}]
  BY StateKept DEF WInv, Coherent, State, StateType
<1>1. Claims(State)
  BY <1>0 DEF Claims, State
<1>2. ASSUME NEW w \in Works
      PROVE  /\ Claims([State EXCEPT !.flags[w] = @ \ {"DELAYED"}])
             /\ "DELAYED" \notin [State EXCEPT !.flags[w] = @ \ {"DELAYED"}].flags[w]
  <2>1. PICK s : s = [State EXCEPT !.flags[w] = @ \ {"DELAYED"}]
    OBVIOUS
  <2>2. /\ s.flags = [flags EXCEPT ![w] = @ \ {"DELAYED"}]
        /\ s.queue = queue /\ s.pending = pending /\ s.worker = worker
    BY <2>1 DEF State
  <2>3. "DELAYED" \notin s.flags[w]
    BY <1>0, <2>2
  <2>4. \A v \in Works, f \in {"QUEUED", "RUNNING", "CANCELING"} :
          f \in s.flags[v] <=> f \in flags[v]
    BY <1>0, <2>2
  <2>5. Claims(s)
    BY <1>0, <2>1, <2>2, <2>4 DEF Claims
  <2> QED
    BY <2>1, <2>3, <2>5
<1> QED
  BY <1>1, <1>2

(***************************************************************************)
(* unschedule_locked() drops the lock or goes through.                     *)
(***************************************************************************)
LEMMA TryShape ==
    ASSUME NEW x \in Callers, NEW c, NEW w \in Works, NEW q \in Queues \cup {None},
           NEW d \in {"now", "later", "forever"}, NEW s, Claims(s),
           NEW op \in {"reschedule", "cancel", "cancel_sync", "flush"},
           op \in {"cancel_sync", "flush"} => x \in Threads,
           \/ call[x] = Idle /\ op \in Ops[x] /\ "DELAYED" \notin s.flags[w]
           \/ call[x].pc = "retry" /\ call[x].op = op /\ call[x].work = w /\ s.flags = flags,
           TryUnschedule(x, c, op, w, q, d, s)
    PROVE  ItemShape(x)
<1>1. PICK act, claimed : act = active \ {w} /\ claimed = TRUE
  OBVIOUS
<1>2. \/ Rest(x, op, w, q, d, s, act, claimed)
      \/ /\ Commit(s) /\ UNCHANGED pending_cancels
         /\ call' = [call EXCEPT ![x] = [op |-> op, pc |-> "retry", work |-> w,
                                         queue |-> q, delay |-> d]]
  BY <1>1 DEF TryUnschedule
<1>3. op \in {"schedule", "reschedule", "cancel", "cancel_sync", "flush"}
  OBVIOUS
<1>4. Shape(x, w, op, q, d, s, act, claimed)
  BY <1>2, <1>3 DEF Shape
<1> QED
  BY <1>4 DEF ItemShape

(***************************************************************************)
(* Every step of an operation on an item has this shape.                   *)
(***************************************************************************)
LEMMA ItemHasShape ==
    ASSUME WInv, NEW x \in Callers, NEW c, ItemCall(x, c) \/ unschedule_locked(x, c)
    PROVE  ItemShape(x) /\ UNCHANGED <<qflags, current>>
<1>0. /\ Claims(State)
      /\ \A w \in Works : /\ Claims([State EXCEPT !.flags[w] = @ \ {"DELAYED"}])
                          /\ "DELAYED" \notin [State EXCEPT !.flags[w] = @ \ {"DELAYED"}].flags[w]
  BY ClaimsState
<1>1. UNCHANGED <<qflags, current>>
  BY DEF ItemCall, k_work_schedule, k_work_reschedule, k_work_cancel, k_work_cancel_sync,
         k_work_flush, Unscheduling, unschedule_locked
<1>2. Delays \subseteq {"now", "later", "forever"}
  BY WorkAssumption
<1>3. ASSUME NEW w \in Works, NEW q \in Queues, NEW d \in Delays, k_work_schedule(x, c, w, q, d)
      PROVE  ItemShape(x)
  <2>1. PICK s, act, op, claimed : s = State /\ act = active /\ op = "schedule" /\ claimed = FALSE
    OBVIOUS
  <2>2. /\ op \in Ops[x] /\ call[x] = Idle /\ flags[w] \subseteq {"RUNNING"}
        /\ op = "schedule" /\ schedule_for_queue_locked(x, s, act, w, q, d)
    BY <1>3, <2>1 DEF k_work_schedule, May
  <2>3. Claims(s) /\ "DELAYED" \notin s.flags[w]
    BY <1>0, <2>1, <2>2 DEF State
  <2>4. q \in Queues \cup {None} /\ d \in {"now", "later", "forever"}
    BY <1>2
  <2>5. Shape(x, w, op, q, d, s, act, claimed)
    BY <2>2, <2>3 DEF Shape
  <2> QED
    BY <2>4, <2>5 DEF ItemShape
<1>4. ASSUME NEW w \in Works, NEW q \in Queues \cup {None}, NEW d \in {"now", "later", "forever"},
             NEW op \in {"reschedule", "cancel", "cancel_sync", "flush"},
             Unscheduling(x, c, op, w, q, d)
      PROVE  ItemShape(x)
  <2>1. call[x] = Idle /\ op \in Ops[x]
    BY <1>4 DEF Unscheduling, May
  <2>2. op \in {"cancel_sync", "flush"} => x \in Threads
    BY <2>1, WorkAssumption
  <2>3. CASE "DELAYED" \in flags[w]
    <3>1. PICK s : s = [State EXCEPT !.flags[w] = @ \ {"DELAYED"}]
      OBVIOUS
    <3>2. TryUnschedule(x, c, op, w, q, d, s)
      BY <1>4, <2>3, <3>1 DEF Unscheduling
    <3>3. Claims(s) /\ "DELAYED" \notin s.flags[w]
      BY <1>0, <3>1
    <3>4. \/ call[x] = Idle /\ op \in Ops[x] /\ "DELAYED" \notin s.flags[w]
          \/ call[x].pc = "retry" /\ call[x].op = op /\ call[x].work = w /\ s.flags = flags
      BY <2>1, <3>3
    <3> QED
      BY <2>2, <3>2, <3>3, <3>4, TryShape
  <2>4. CASE "DELAYED" \notin flags[w]
    <3>1. PICK s, act, claimed : s = State /\ act = active /\ claimed = FALSE
      OBVIOUS
    <3>2. Rest(x, op, w, q, d, s, act, claimed)
      BY <1>4, <2>4, <3>1 DEF Unscheduling
    <3>3. Claims(s) /\ "DELAYED" \notin s.flags[w]
      BY <1>0, <2>4, <3>1 DEF State
    <3>4. op \in {"schedule", "reschedule", "cancel", "cancel_sync", "flush"}
      OBVIOUS
    <3>5. Shape(x, w, op, q, d, s, act, claimed)
      BY <2>1, <2>2, <3>2, <3>3, <3>4 DEF Shape
    <3> QED
      BY <3>5 DEF ItemShape
  <2> QED
    BY <2>3, <2>4
<1>5. ASSUME unschedule_locked(x, c)
      PROVE  ItemShape(x)
  <2>1. PICK s, op, w, q, d : /\ s = State /\ op = call[x].op /\ w = call[x].work
                              /\ q = call[x].queue /\ d = call[x].delay
    OBVIOUS
  <2>2. call[x].pc = "retry" /\ TryUnschedule(x, c, op, w, q, d, s)
    BY <1>5, <2>1 DEF unschedule_locked
  <2>3. /\ w \in Works /\ op \in {"reschedule", "cancel", "cancel_sync", "flush"}
        /\ op \in {"cancel_sync", "flush"} => x \in Threads
    BY <2>1, <2>2 DEF WInv, CallInv, RetryOK
  <2>4. q \in Queues \cup {None} /\ d \in {"now", "later", "forever"}
    BY <2>1 DEF WInv, CallInv, CallRec
  <2>5. Claims(s) /\ s.flags = flags
    BY <1>0, <2>1 DEF State
  <2> QED
    BY <2>1, <2>2, <2>3, <2>4, <2>5, TryShape
<1>6. ASSUME NEW w \in Works,
             \/ \E q \in Queues, d \in Delays : k_work_reschedule(x, c, w, q, d)
             \/ k_work_cancel(x, c, w)
             \/ k_work_cancel_sync(x, c, w)
             \/ k_work_flush(x, c, w)
      PROVE  \E q \in Queues \cup {None}, d \in {"now", "later", "forever"},
                op \in {"reschedule", "cancel", "cancel_sync", "flush"} :
                  Unscheduling(x, c, op, w, q, d)
  BY <1>2, <1>6 DEF k_work_reschedule, k_work_cancel, k_work_cancel_sync, k_work_flush
<1> QED
  BY <1>1, <1>3, <1>4, <1>5, <1>6 DEF ItemCall

\* A caller is in an operation it makes.
OpsInv == \A x \in Callers : call[x].op \in Ops[x] \cup {"none"}

\* No queue thread changes but one that is woken.
Woken == \A q \in Queues : worker'[q] = worker[q] \/ (worker[q] = "waiting" /\ worker'[q] = "ready")

\* What a step of caller x on an item does to the calls.
CallMoves(x) ==
    /\ call[x].pc # "wait"
    /\ \A y \in Callers : y # x => call'[y] = call[y]
    /\ call'[x].op \in {"none", "reschedule", "cancel", "cancel_sync", "flush"}
    /\ call'[x].op \in Ops[x] \cup {"none"}

(***************************************************************************)
(* A step on an item records an operation on an item, and wakes queue      *)
(* threads at most.                                                        *)
(***************************************************************************)
LEMMA ShapeMoves ==
    ASSUME WInv, OpsInv, NEW x \in Callers, ItemShape(x)
    PROVE  CallMoves(x) /\ Woken
<1>a. PICK w \in Works, q \in Queues \cup {None}, d \in {"now", "later", "forever"} :
        \E op, s, act, claimed : Shape(x, w, op, q, d, s, act, claimed)
  BY DEF ItemShape
<1>0. PICK op, s, act, claimed : Shape(x, w, op, q, d, s, act, claimed)
  BY <1>a
<1>1. /\ Claims(s) /\ s \in StateType /\ s.worker = worker
      /\ call \in [Callers -> CallRec] /\ Idle.pc = "idle" /\ Idle.op = "none"
  BY <1>0 DEF Shape, Claims, Kept, Coherent, WInv, CallInv, Idle
<1>2. call[x].pc # "wait" /\ op \in Ops[x] \cup {"none"}
  BY <1>0, <1>1 DEF Shape, OpsInv
<1>3. Returns(x) => CallMoves(x)
  BY <1>1, <1>2 DEF Returns, CallMoves
<1>4. ASSUME NEW o \in {"cancel_sync", "flush"}, o = op, Waits(x, o, w, None)
      PROVE  CallMoves(x)
  <2>1. o \in {"cancel_sync", "flush", "drain", "stop"} /\ w \in Works \cup {None}
        /\ None \in Queues \cup {None}
    OBVIOUS
  <2>2. PICK c \in CallRec : c.op = o /\ call' = [call EXCEPT ![x] = c]
    BY <1>4, <2>1, WaitRecord
  <2> QED
    BY <1>1, <1>2, <1>4, <2>2 DEF CallMoves
<1>5. CASE \/ Rest(x, op, w, q, d, s, act, claimed)
           \/ op = "schedule" /\ schedule_for_queue_locked(x, s, act, w, q, d)
  <2>1. PICK r : Ends(x, op, w, q, s, claimed, r)
    BY <1>5, RestEnds
  <2>2. CallMoves(x)
    BY <1>3, <1>4, <2>1 DEF Ends, EndsSubmit, EndsDelayed, EndsCancel, EndsFlush
  <2>3. OnlyWakes(s, r)
    <3>1. CASE EndsFlush(x, op, w, s, claimed, r)
      <4>1. PICK k : k = delay_queue[w]
        OBVIOUS
      <4>2. PICK u : /\ u = IF claimed THEN submit_to_queue_locked(x, s, w, k) ELSE s
                     /\ r = work_flush_locked(u, w, x)
        BY <3>1, <4>1 DEF EndsFlush
      <4>3. k \in Queues \cup {None} /\ Coherent(s)
        BY <1>1, <4>1 DEF WInv, DataType, Claims, Kept
      <4>4. OnlyWakes(s, u) /\ u \in StateType
        <5>1. CASE claimed
          BY <1>1, <4>2, <4>3, <5>1, LockedWakes, SubmitCoherent DEF Coherent
        <5>2. CASE ~claimed
          BY <1>1, <4>2, <5>2 DEF OnlyWakes
        <5> QED
          BY <5>1, <5>2
      <4>5. OnlyWakes(u, r)
        BY <4>2, <4>4, LockedWakes
      <4> QED
        BY <4>4, <4>5 DEF OnlyWakes
    <3>2. CASE EndsSubmit(x, w, q, s, r)
      <4>1. r = submit_to_queue_locked(x, s, w, q)
        BY <3>2 DEF EndsSubmit
      <4> QED
        BY <1>1, <4>1, LockedWakes
    <3>3. CASE EndsDelayed(x, w, s, r)
      <4>1. r = [s EXCEPT !.flags[w] = @ \cup {"DELAYED"}]
        BY <3>3 DEF EndsDelayed
      <4>2. OnlyWakes(s, [s EXCEPT !.flags[w] = @ \cup {"DELAYED"}])
        BY <1>1, LockedWakes
      <4> QED
        BY <4>1, <4>2
    <3>4. CASE EndsCancel(x, op, w, s, r)
      <4>1. r = cancel_async_locked(s, w)
        BY <3>4 DEF EndsCancel
      <4> QED
        BY <1>1, <4>1, LockedWakes
    <3> QED
      BY <2>1, <3>1, <3>2, <3>3, <3>4 DEF Ends
  <2>4. Woken
    BY <1>1, <2>1, <2>3 DEF Woken, OnlyWakes, Ends, Commit
  <2> QED
    BY <2>2, <2>4
<1>6. CASE /\ Commit(s)
           /\ op \in {"reschedule", "cancel", "cancel_sync", "flush"}
           /\ call' = [call EXCEPT ![x] = [op |-> op, pc |-> "retry", work |-> w,
                                           queue |-> q, delay |-> d]]
  <2>1. Woken
    BY <1>1, <1>6 DEF Woken, Commit
  <2>2. call'[x].op = op /\ \A y \in Callers : y # x => call'[y] = call[y]
    BY <1>1, <1>6
  <2> QED
    BY <1>2, <1>6, <2>1, <2>2 DEF CallMoves
<1> QED
  BY <1>0, <1>5, <1>6 DEF Shape

\* The flags of a queue say what the one caller that drains and stops is doing,
\* and a queue thread that waits or has exited leaves no request to stop behind.
StopInv(y) ==
    \A q \in Queues :
        /\ "DRAIN" \in qflags[q] => call[y].op = "drain" /\ call[y].queue = q
        /\ "STOP" \in qflags[q] => call[y].op = "stop" /\ call[y].queue = q
        /\ worker[q] = "waiting" => "STOP" \notin qflags[q]
        /\ worker[q] = "exited" => {"STARTED", "STOP"} \cap qflags[q] = {}

\* No queue is asked to do more, or has its thread put to sleep.
NoNewRequest ==
    /\ Woken
    /\ \A q \in Queues, f \in {"STARTED", "DRAIN", "STOP"} : f \in qflags'[q] => f \in qflags[q]

(***************************************************************************)
(* A step that asks nothing of a queue while y is in the same call, or     *)
(* while y is not draining or stopping.                                    *)
(***************************************************************************)
LEMMA StopKept ==
    ASSUME NEW y, StopInv(y), NoNewRequest,
           call'[y] = call[y] \/ call[y].op \notin {"drain", "stop"}
    PROVE  StopInv(y)'
<1>1. ASSUME NEW q \in Queues
      PROVE  /\ "DRAIN" \in qflags'[q] => call'[y].op = "drain" /\ call'[y].queue = q
             /\ "STOP" \in qflags'[q] => call'[y].op = "stop" /\ call'[y].queue = q
  BY DEF StopInv, NoNewRequest
<1>2. ASSUME NEW q \in Queues
      PROVE  /\ worker'[q] = "waiting" => "STOP" \notin qflags'[q]
             /\ worker'[q] = "exited" => {"STARTED", "STOP"} \cap qflags'[q] = {}
  <2>1. worker'[q] \in {"waiting", "exited"} => worker'[q] = worker[q]
    BY DEF NoNewRequest, Woken
  <2>2. "STOP" \in qflags'[q] => "STOP" \in qflags[q]
    BY DEF NoNewRequest
  <2>3. "STARTED" \in qflags'[q] => "STARTED" \in qflags[q]
    BY DEF NoNewRequest
  <2> QED
    BY <2>1, <2>2, <2>3 DEF StopInv
<1> QED
  BY <1>1, <1>2 DEF StopInv

(***************************************************************************)
(* The operations on queues.                                               *)
(***************************************************************************)
LEMMA QueueCallStops ==
    ASSUME WInv, OpsInv, NEW y \in Callers, OnlyDrainer(y), StopInv(y),
           NEW x \in Callers, NEW q \in Queues, QueueCall(x, q)
    PROVE  StopInv(y)' /\ OpsInv'
<1>0. /\ call \in [Callers -> CallRec] /\ Idle.op = "none"
      /\ qflags \in [Queues -> SUBSET {"STARTED", "BUSY", "DRAIN", "PLUGGED", "STOP"}]
      /\ worker \in [Queues -> WorkerStates]
  BY DEF WInv, CallInv, DataType, Idle, Coherent, State, StateType
<1>1. CASE k_work_queue_unplug(x, q)
  <2>1. qflags' = [qflags EXCEPT ![q] = @ \ {"PLUGGED"}] /\ UNCHANGED <<worker, call>>
    BY <1>1 DEF k_work_queue_unplug
  <2>2. NoNewRequest
    BY <1>0, <2>1 DEF NoNewRequest, Woken
  <2> QED
    BY <2>1, <2>2, StopKept DEF OpsInv
<1>2. ASSUME NEW op \in {"drain", "stop"}, May(x, op), Waits(x, op, None, q)
      PROVE  /\ x = y /\ call[x] = Idle /\ OpsInv'
             /\ call'[y].op = op /\ call'[y].queue = q
  <2>1. op \in Ops[x] /\ call[x] = Idle
    BY <1>2 DEF May
  <2>2. x = y
    BY <2>1 DEF OnlyDrainer
  <2>3. PICK c : c = [Idle EXCEPT !.op = op, !.pc = "wait", !.work = None, !.queue = q]
    OBVIOUS
  <2>4. call' = [call EXCEPT ![x] = c] /\ c.op = op /\ c.queue = q
    BY <1>2, <2>3 DEF Waits, Idle
  <2>5. call'[x] = c /\ \A z \in Callers : z # x => call'[z] = call[z]
    BY <1>0, <2>4
  <2> QED
    BY <2>1, <2>2, <2>4, <2>5 DEF OpsInv
<1>3. ASSUME call[y] = Idle
      PROVE  \A k \in Queues : "DRAIN" \notin qflags[k] /\ "STOP" \notin qflags[k]
  BY <1>0, <1>3 DEF StopInv
<1>4. ASSUME Commit(notify_queue_locked(State, q))
      PROVE  Woken /\ worker'[q] # "waiting" /\ \A k \in Queues : k # q => worker'[k] = worker[k]
  <2>1. worker' = [worker EXCEPT ![q] = IF @ = "waiting" THEN "ready" ELSE @]
    BY <1>4 DEF Commit, notify_queue_locked, State
  <2> QED
    BY <1>0, <2>1 DEF Woken
<1>5. ASSUME NEW plug \in BOOLEAN, k_work_queue_drain(x, q, plug)
      PROVE  StopInv(y)' /\ OpsInv'
  <2>1. /\ May(x, "drain") /\ Waits(x, "drain", None, q)
        /\ Commit(notify_queue_locked(State, q))
        /\ qflags' = [qflags EXCEPT ![q] = @ \cup {"DRAIN"} \cup (IF plug THEN {"PLUGGED"} ELSE {})]
    BY <1>5 DEF k_work_queue_drain
  <2>2. call[y] = Idle /\ OpsInv' /\ call'[y].op = "drain" /\ call'[y].queue = q
    BY <1>2, <2>1
  <2>3. \A k \in Queues : "STOP" \notin qflags'[k] /\ ("DRAIN" \in qflags'[k] => k = q)
    BY <1>0, <1>3, <2>1, <2>2
  <2>4. \A k \in Queues : "STARTED" \in qflags'[k] => "STARTED" \in qflags[k]
    BY <1>0, <2>1
  <2>5. \A k \in Queues : worker'[k] = "exited" => worker[k] = "exited"
    BY <1>4, <2>1 DEF Woken
  <2>6. \A k \in Queues : worker'[k] = "exited" => {"STARTED", "STOP"} \cap qflags'[k] = {}
    BY <2>3, <2>4, <2>5 DEF StopInv
  <2> QED
    BY <2>2, <2>3, <2>6 DEF StopInv
<1>6. ASSUME k_work_queue_stop(x, q)
      PROVE  StopInv(y)' /\ OpsInv'
  <2>1. /\ May(x, "stop") /\ Waits(x, "stop", None, q)
        /\ Commit(notify_queue_locked(State, q))
        /\ "STARTED" \in qflags[q]
        /\ qflags' = [qflags EXCEPT ![q] = @ \cup {"STOP"}]
    BY <1>6 DEF k_work_queue_stop
  <2>2. call[y] = Idle /\ OpsInv' /\ call'[y].op = "stop" /\ call'[y].queue = q
    BY <1>2, <2>1
  <2>3. \A k \in Queues : "DRAIN" \notin qflags'[k] /\ ("STOP" \in qflags'[k] => k = q)
    BY <1>0, <1>3, <2>1, <2>2
  <2>4. worker'[q] # "waiting" /\ worker'[q] # "exited"
    <3>1. worker[q] # "exited"
      BY <2>1 DEF StopInv
    <3> QED
      BY <1>4, <2>1, <3>1 DEF Woken
  <2>5. \A k \in Queues : k # q => worker'[k] = worker[k] /\ qflags'[k] = qflags[k]
    BY <1>0, <1>4, <2>1
  <2>6. \A k \in Queues : /\ worker'[k] = "waiting" => "STOP" \notin qflags'[k]
                          /\ worker'[k] = "exited" => {"STARTED", "STOP"} \cap qflags'[k] = {}
    BY <2>4, <2>5 DEF StopInv
  <2> QED
    BY <2>2, <2>3, <2>6 DEF StopInv
<1> QED
  BY <1>1, <1>5, <1>6 DEF QueueCall

(***************************************************************************)
(* The end of k_work_queue_stop().                                         *)
(***************************************************************************)
LEMMA StopReturnsStops ==
    ASSUME WInv, OpsInv, NEW y \in Callers, OnlyDrainer(y), StopInv(y),
           NEW x \in Callers, StopReturns(x)
    PROVE  StopInv(y)' /\ OpsInv'
<1>0. /\ call \in [Callers -> CallRec] /\ Idle.op = "none"
      /\ qflags \in [Queues -> SUBSET {"STARTED", "BUSY", "DRAIN", "PLUGGED", "STOP"}]
  BY DEF WInv, CallInv, DataType, Idle
<1>1. x = y /\ call[y].op = "stop" /\ call' = [call EXCEPT ![x] = Idle] /\ UNCHANGED worker
  BY DEF StopReturns, OpsInv, OnlyDrainer, Returns
<1>2. OpsInv'
  BY <1>0, <1>1 DEF OpsInv
<1>3. PICK k : k = call[y].queue
  OBVIOUS
<1>4. \A q \in Queues : "DRAIN" \notin qflags[q] /\ ("STOP" \in qflags[q] => q = k)
  BY <1>1, <1>3 DEF StopInv
<1>5. \A q \in Queues : "DRAIN" \notin qflags'[q] /\ "STOP" \notin qflags'[q]
  <2>1. CASE worker[k] = "exited" /\ UNCHANGED qflags
    BY <1>4, <2>1 DEF StopInv
  <2>2. CASE qflags' = [qflags EXCEPT ![k] = @ \ {"STOP"}]
    BY <1>0, <1>4, <2>2
  <2> QED
    BY <1>1, <1>3, <2>1, <2>2 DEF StopReturns
<1>6. \A q \in Queues : "STARTED" \in qflags'[q] => "STARTED" \in qflags[q]
  BY <1>0 DEF StopReturns
<1> QED
  BY <1>1, <1>2, <1>5, <1>6 DEF StopInv

(***************************************************************************)
(* A queue thread finds nothing to do.  The end of a drain leaves no       *)
(* request to stop behind, as nobody else drains or stops.                 *)
(***************************************************************************)
LEMMA IdlesStops ==
    ASSUME WInv, OpsInv, NEW y \in Callers, StopInv(y), NEW q \in Queues, WorkerIdles(q)
    PROVE  StopInv(y)' /\ OpsInv'
<1>0. /\ call \in [Callers -> CallRec] /\ Idle.op = "none"
      /\ qflags \in [Queues -> SUBSET {"STARTED", "BUSY", "DRAIN", "PLUGGED", "STOP"}]
      /\ worker \in [Queues -> WorkerStates]
  BY DEF WInv, CallInv, DataType, Idle, Coherent, State, StateType
<1>1. OpsInv'
  <2>1. \A x \in Callers : call'[x] = call[x] \/ call'[x] = Idle
    BY DEF WorkerIdles
  <2> QED
    BY <1>0, <2>1 DEF OpsInv
<1>2. CASE "DRAIN" \in qflags[q]
  <2>1. /\ qflags' = [qflags EXCEPT ![q] = @ \ {"DRAIN"}]
        /\ worker' = [worker EXCEPT ![q] = "waiting"]
    BY <1>2 DEF WorkerIdles
  <2>2. call[y].op = "drain" /\ call[y].queue = q
    BY <1>2 DEF StopInv
  <2>3. \A k \in Queues : "STOP" \notin qflags[k] /\ ("DRAIN" \in qflags[k] => k = q)
    BY <2>2 DEF StopInv
  <2>4. \A k \in Queues : "STOP" \notin qflags'[k] /\ "DRAIN" \notin qflags'[k]
    BY <1>0, <2>1, <2>3
  <2>5. \A k \in Queues : worker'[k] = "exited" => {"STARTED", "STOP"} \cap qflags'[k] = {}
    BY <1>0, <2>1 DEF StopInv
  <2> QED
    BY <1>1, <2>4, <2>5 DEF StopInv
<1>3. CASE "DRAIN" \notin qflags[q] /\ "STOP" \in qflags[q]
  <2>1. /\ qflags' = [qflags EXCEPT ![q] = {}]
        /\ worker' = [worker EXCEPT ![q] = "exited"] /\ UNCHANGED call
    BY <1>3 DEF WorkerIdles
  <2>2. qflags'[q] = {} /\ worker'[q] = "exited"
        /\ \A k \in Queues : k # q => qflags'[k] = qflags[k] /\ worker'[k] = worker[k]
    BY <1>0, <2>1
  <2>3. ASSUME NEW k \in Queues
        PROVE  /\ "DRAIN" \in qflags'[k] => call'[y].op = "drain" /\ call'[y].queue = k
               /\ "STOP" \in qflags'[k] => call'[y].op = "stop" /\ call'[y].queue = k
               /\ worker'[k] = "waiting" => "STOP" \notin qflags'[k]
               /\ worker'[k] = "exited" => {"STARTED", "STOP"} \cap qflags'[k] = {}
    BY <2>1, <2>2 DEF StopInv
  <2> QED
    BY <1>1, <2>3 DEF StopInv
<1>4. CASE "DRAIN" \notin qflags[q] /\ "STOP" \notin qflags[q]
  <2>1. worker' = [worker EXCEPT ![q] = "waiting"] /\ UNCHANGED <<qflags, call>>
    BY <1>4 DEF WorkerIdles
  <2>2. worker'[q] = "waiting" /\ \A k \in Queues : k # q => worker'[k] = worker[k]
    BY <1>0, <2>1
  <2> QED
    BY <1>1, <1>4, <2>1, <2>2 DEF StopInv
<1> QED
  BY <1>2, <1>3, <1>4

(***************************************************************************)
(* A handler returned: the one that is released waits for an item.         *)
(***************************************************************************)
LEMMA ReturnCalls ==
    ASSUME WInv, NEW q \in Queues, WorkHandlerReturns(q)
    PROVE  \A x \in Callers : \/ call'[x] = call[x]
                              \/ /\ call'[x] = Idle /\ call[x].pc = "wait" /\ x \in Threads
                                 /\ call[x].op \in {"cancel_sync", "flush"}
                                 /\ call[x].op = "flush" => current[q] = x
<1>0. call \in [Callers -> CallRec] /\ Threads \subseteq Callers
  BY DEF WInv, CallInv, Callers
<1>1. CASE current[q] \in Works
  <2>1. PICK w : w = current[q]
    OBVIOUS
  <2>2. CASE UNCHANGED call
    BY <2>2
  <2>3. CASE call' # call
    <3>1. FirstCanceller(w) # 0 /\ Returns(pending_cancels[FirstCanceller(w)])
      BY <1>1, <2>1, <2>3 DEF WorkHandlerReturns, finalize_cancel_locked
    <3>2. PICK k \in 1..Len(pending_cancels) : k = FirstCanceller(w)
      BY <3>1, FirstCancellerFound DEF WInv
    <3>3. PICK z \in Threads : z = pending_cancels[k] /\ WaitsFor(z, "cancel_sync")
      BY DEF WInv, CancelInv, ToSet
    <3>4. call' = [call EXCEPT ![z] = Idle]
      BY <3>1, <3>2, <3>3 DEF Returns
    <3> QED
      BY <1>0, <3>3, <3>4 DEF WaitsFor
  <2> QED
    BY <2>2, <2>3
<1>2. CASE current[q] \notin Works
  <2>1. Returns(current[q]) /\ worker[q] = "handler"
    BY <1>2 DEF WorkHandlerReturns, finalize_flush_locked
  <2>2. current[q] # None
    BY <2>1 DEF WInv, Coherent, HandlerHasItem, State
  <2>3. PICK z \in Threads : z = current[q] /\ WaitsFor(z, "flush")
    BY <1>2, <2>2 DEF WInv, DataType, Entries, FlushInv
  <2>4. call' = [call EXCEPT ![z] = Idle]
    BY <2>1, <2>3 DEF Returns
  <2> QED
    BY <1>0, <2>3, <2>4 DEF WaitsFor
<1> QED
  BY <1>1, <1>2

(***************************************************************************)
(* Every step.                                                             *)
(***************************************************************************)
LEMMA StopStep ==
    ASSUME WInv, OpsInv, NEW y \in Callers, OnlyDrainer(y), StopInv(y), [Next]_vars
    PROVE  StopInv(y)' /\ OpsInv'
<1>0. /\ call \in [Callers -> CallRec] /\ Idle.op = "none"
      /\ qflags \in [Queues -> SUBSET {"STARTED", "BUSY", "DRAIN", "PLUGGED", "STOP"}]
      /\ worker \in [Queues -> WorkerStates]
  BY DEF WInv, CallInv, DataType, Idle, Coherent, State, StateType
<1>1. CASE UNCHANGED vars
  <2>1. UNCHANGED <<call, qflags, worker>>
    BY <1>1 DEF vars, workVars
  <2> QED
    BY <2>1 DEF StopInv, OpsInv
<1>2. ASSUME NEW x \in Callers, NEW c \in Cpus, ItemCall(x, c) \/ unschedule_locked(x, c)
      PROVE  StopInv(y)' /\ OpsInv'
  <2>1. ItemShape(x) /\ UNCHANGED qflags
    BY <1>2, ItemHasShape
  <2>2. CallMoves(x) /\ Woken
    BY <2>1, ShapeMoves
  <2>3. OpsInv'
    BY <2>2 DEF OpsInv, CallMoves
  <2>4. NoNewRequest
    BY <2>1, <2>2 DEF NoNewRequest
  <2>5. call'[y] = call[y] \/ call[y].op \notin {"drain", "stop"}
    <3>1. CASE x # y
      BY <2>2, <3>1 DEF CallMoves
    <3>2. CASE x = y
      <4>1. call[y] = Idle \/ call[y].pc = "retry"
        BY <2>1, <3>2 DEF ItemShape, Shape
      <4> QED
        BY <1>0, <4>1 DEF WInv, CallInv, RetryOK
    <3> QED
      BY <3>1, <3>2
  <2> QED
    BY <2>3, <2>4, <2>5, StopKept
<1>3. ASSUME NEW x \in Callers, (\E q \in Queues : QueueCall(x, q)) \/ StopReturns(x)
      PROVE  StopInv(y)' /\ OpsInv'
  BY <1>3, QueueCallStops, StopReturnsStops
<1>4. ASSUME NEW q \in Queues, WorkerTakes(q) \/ WorkHandlerReturns(q)
      PROVE  StopInv(y)' /\ OpsInv'
  <2>1. \A x \in Callers : \/ call'[x] = call[x]
                           \/ call'[x] = Idle /\ call[x].op \in {"cancel_sync", "flush"}
    BY <1>4, ReturnCalls DEF WorkerTakes
  <2>2. OpsInv'
    BY <1>0, <2>1 DEF OpsInv
  <2>3. PICK k \in {"handler", "ready"} : worker' = [worker EXCEPT ![q] = k]
    BY <1>4 DEF WorkerTakes, WorkHandlerReturns
  <2>4. \A k2 \in Queues, f \in {"STARTED", "DRAIN", "STOP"} : f \in qflags'[k2] <=> f \in qflags[k2]
    BY <1>0, <1>4 DEF WorkerTakes, WorkHandlerReturns
  <2>5. ASSUME NEW r \in Queues
        PROVE  /\ "DRAIN" \in qflags'[r] => call'[y].op = "drain" /\ call'[y].queue = r
               /\ "STOP" \in qflags'[r] => call'[y].op = "stop" /\ call'[y].queue = r
    BY <2>1, <2>4 DEF StopInv
  <2>6. ASSUME NEW r \in Queues
        PROVE  /\ worker'[r] = "waiting" => "STOP" \notin qflags'[r]
               /\ worker'[r] = "exited" => {"STARTED", "STOP"} \cap qflags'[r] = {}
    <3>1. worker'[r] \in {"waiting", "exited"} => worker'[r] = worker[r]
      BY <1>0, <2>3
    <3>2. "STOP" \in qflags'[r] <=> "STOP" \in qflags[r]
      BY <2>4
    <3>3. "STARTED" \in qflags'[r] <=> "STARTED" \in qflags[r]
      BY <2>4
    <3> QED
      BY <3>1, <3>2, <3>3 DEF StopInv
  <2> QED
    BY <2>2, <2>5, <2>6 DEF StopInv
<1>5. ASSUME NEW q \in Queues, WorkerIdles(q)
      PROVE  StopInv(y)' /\ OpsInv'
  BY <1>5, IdlesStops
<1>6. CASE (\E c \in Cpus : TimeoutPopped(c)) \/ work_timeout
  <2>1. UNCHANGED <<call, qflags>>
    BY <1>6 DEF TimeoutPopped, work_timeout
  <2>2. Woken
    <3>1. CASE \E c \in Cpus : TimeoutPopped(c)
      BY <3>1 DEF TimeoutPopped, Woken
    <3>2. CASE work_timeout /\ "DELAYED" \notin flags[inflight_timeout]
      BY <3>2 DEF work_timeout, Commit, State, Woken
    <3>3. CASE work_timeout /\ "DELAYED" \in flags[inflight_timeout]
      <4>1. PICK w, x : w = inflight_timeout /\ x = None
        OBVIOUS
      <4>2. PICK s, q : s = [State EXCEPT !.flags[w] = @ \ {"DELAYED"}] /\ q = delay_queue[w]
        OBVIOUS
      <4>3. w \in Works
        BY <3>3, <4>1 DEF WInv, DispatchInv, work_timeout
      <4>4. Commit(submit_to_queue_locked(x, s, w, q))
        BY <3>3, <4>1, <4>2 DEF work_timeout
      <4>5. s \in StateType /\ s.worker = worker
        BY <4>2, <4>3, ClaimsState DEF Claims, Kept, Coherent
      <4>6. OnlyWakes(s, submit_to_queue_locked(x, s, w, q))
        BY <4>5, LockedWakes
      <4> QED
        BY <4>4, <4>5, <4>6 DEF OnlyWakes, Commit, Woken
    <3> QED
      BY <1>6, <3>1, <3>2, <3>3
  <2>3. NoNewRequest
    BY <2>1, <2>2 DEF NoNewRequest
  <2> QED
    BY <2>1, <2>3, StopKept DEF OpsInv
<1> QED
  BY <1>1, <1>2, <1>3, <1>4, <1>5, <1>6 DEF Next, CallerStep, WorkerStep

(***************************************************************************)
(* When one caller drains and stops the queues, no queue thread sleeps on  *)
(* a request to stop: it is awake, handles an entry or has exited, so      *)
(* k_work_queue_stop() does not depend on a later wake-up.                 *)
(***************************************************************************)
THEOREM WorkAwakeForStop ==
    ASSUME NEW y \in Callers, OnlyDrainer(y)
    PROVE  Spec => []AwakeForStop
<1>1. Init => WInv /\ OpsInv /\ StopInv(y)
  <2> SUFFICES ASSUME Init PROVE WInv /\ OpsInv /\ StopInv(y)
    OBVIOUS
  <2>1. OpsInv
    BY DEF Init, OpsInv, Idle
  <2>2. StopInv(y)
    BY DEF Init, StopInv
  <2> QED
    BY <2>1, <2>2, WorkInit
<1>2. WInv /\ OpsInv /\ StopInv(y) /\ [Next]_vars => (WInv /\ OpsInv /\ StopInv(y))'
  BY WorkStep, StopStep DEF StepOK
<1>3. StopInv(y) => AwakeForStop
  BY DEF StopInv, AwakeForStop
<1> QED
  BY <1>1, <1>2, <1>3, PTL DEF Spec

-----------------------------------------------------------------------------
(* Cancellations that are waited for, when one thread waits for them.      *)

OnlyCanceller(y) == \A x \in Callers : x # y => "cancel_sync" \notin Ops[x]

\* A running item stays running and one that is being cancelled stays so; an item
\* on which a cancellation begins is running, unless it was overtaken.
Marks(f, g) ==
    \A v \in Works :
        /\ "RUNNING" \in g[v] <=> "RUNNING" \in f[v]
        /\ "CANCELING" \in f[v] => "CANCELING" \in g[v]
        /\ "CANCELING" \in g[v] => "CANCELING" \in f[v] \/ "RUNNING" \in f[v] \/ v \in raced

(***************************************************************************)
(* Submitting leaves both flags alone.                                     *)
(***************************************************************************)
LEMMA SubmitMarks ==
    ASSUME NEW s \in StateType, NEW x, NEW w \in Works, NEW q
    PROVE  Marks(s.flags, submit_to_queue_locked(x, s, w, q).flags)
<1>1. PICK to : to = SubmitQueue(s, w, q)
  OBVIOUS
<1>2. PICK a : a = [s EXCEPT !.flags[w] = @ \cup {"QUEUED"}, !.queue[w] = to,
                             !.pending[to] = Append(@, w)]
  OBVIOUS
<1>3. PICK b : b = notify_queue_locked(a, to)
  OBVIOUS
<1>4. submit_to_queue_locked(x, s, w, q) \in {s, b}
  BY <1>1, <1>2, <1>3 DEF submit_to_queue_locked
<1>5. a.flags = [s.flags EXCEPT ![w] = @ \cup {"QUEUED"}] /\ b.flags = a.flags
  BY <1>2, <1>3 DEF StateType, notify_queue_locked
<1>6. Marks(s.flags, b.flags) /\ Marks(s.flags, s.flags)
  BY <1>5 DEF StateType, Marks
<1> QED
  BY <1>4, <1>6

(***************************************************************************)
(* cancel_async_locked() of an item that is not scheduled marks it only    *)
(* when it is running.                                                     *)
(***************************************************************************)
LEMMA CancelMarks ==
    ASSUME NEW s \in StateType, NEW w \in Works,
           w \notin raced => "DELAYED" \notin s.flags[w]
    PROVE  Marks(s.flags, cancel_async_locked(s, w).flags)
<1>1. PICK a : a = IF "CANCELING" \in s.flags[w] THEN s ELSE queue_remove_locked(s, w)
  OBVIOUS
<1>2. PICK b : b = [a EXCEPT !.flags[w] = @ \cup {"CANCELING"}]
  OBVIOUS
<1>3. cancel_async_locked(s, w) = IF a.flags[w] = {} THEN a ELSE b
  BY <1>1, <1>2 DEF cancel_async_locked
<1>4. s.flags \in [Works -> SUBSET {"QUEUED", "RUNNING", "CANCELING", "DELAYED"}]
  BY DEF StateType
<1>5. /\ a.flags \in [Works -> SUBSET {"QUEUED", "RUNNING", "CANCELING", "DELAYED"}]
      /\ b.flags = [a.flags EXCEPT ![w] = @ \cup {"CANCELING"}]
      /\ a.flags[w] = IF "CANCELING" \in s.flags[w] THEN s.flags[w] ELSE s.flags[w] \ {"QUEUED"}
      /\ \A v \in Works : v # w => a.flags[v] = s.flags[v]
  <2>1. CASE a = s /\ ("CANCELING" \in s.flags[w] \/ "QUEUED" \notin s.flags[w])
    <3>1. s.flags[w] = IF "CANCELING" \in s.flags[w] THEN s.flags[w] ELSE s.flags[w] \ {"QUEUED"}
      BY <2>1
    <3> QED
      BY <1>2, <1>4, <2>1, <3>1 DEF StateType
  <2>2. CASE /\ "CANCELING" \notin s.flags[w]
             /\ a = [s EXCEPT !.flags[w] = @ \ {"QUEUED"},
                              !.pending[s.queue[w]] = RemoveFirst(@, w)]
    <3>1. a.flags = [s.flags EXCEPT ![w] = @ \ {"QUEUED"}]
          /\ b.flags = [a.flags EXCEPT ![w] = @ \cup {"CANCELING"}]
      BY <1>2, <2>2 DEF StateType
    <3> QED
      BY <1>4, <2>2, <3>1
  <2> QED
    BY <1>1, <2>1, <2>2 DEF queue_remove_locked
<1>6. \A v \in Works : v # w => b.flags[v] = s.flags[v]
  BY <1>5
<1>7. CASE a.flags[w] = {}
  <2>1. "CANCELING" \notin s.flags[w] /\ "RUNNING" \notin s.flags[w]
    BY <1>5, <1>7
  <2> QED
    BY <1>3, <1>5, <1>7, <2>1 DEF Marks
<1>8. CASE a.flags[w] # {}
  <2>1. "RUNNING" \in b.flags[w] <=> "RUNNING" \in s.flags[w]
    BY <1>5
  <2>2. "CANCELING" \in b.flags[w]
    BY <1>5
  <2>3. "CANCELING" \in s.flags[w] \/ "RUNNING" \in s.flags[w] \/ w \in raced
    BY <1>4, <1>5, <1>8
  <2> QED
    BY <1>3, <1>6, <1>8, <2>1, <2>2, <2>3 DEF Marks
<1> QED
  BY <1>7, <1>8

\* The one who waits for a cancellation is in the list, and its item is marked.
Listed ==
    \A x \in Threads : WaitsFor(x, "cancel_sync") =>
        /\ call[x].work \in Works /\ "CANCELING" \in flags[call[x].work]
        /\ x \in ToSet(pending_cancels)

\* A cancellation waits for a handler.
StrandInv ==
    /\ \A w \in Works \ raced : "CANCELING" \in flags[w] => "RUNNING" \in flags[w]
    /\ Listed

\* What a step does, apart from the history.
Strands ==
    /\ \A w \in Works : w \notin raced /\ "CANCELING" \in flags'[w] => "RUNNING" \in flags'[w]
    /\ Listed'

(***************************************************************************)
(* A step that cancels only running items, and in which whoever waits for  *)
(* a cancellation did so before.                                           *)
(***************************************************************************)
LEMMA StrandKept ==
    ASSUME StrandInv, Marks(flags, flags'), UNCHANGED pending_cancels,
           \A x \in Threads : WaitsFor(x, "cancel_sync")' => call'[x] = call[x]
    PROVE  Strands
<1>1. \A w \in Works : w \notin raced /\ "CANCELING" \in flags'[w] => "RUNNING" \in flags'[w]
  BY DEF StrandInv, Marks
<1>2. ASSUME NEW x \in Threads, WaitsFor(x, "cancel_sync")'
      PROVE  /\ call'[x].work \in Works /\ "CANCELING" \in flags'[call'[x].work]
             /\ x \in ToSet(pending_cancels')
  <2>1. call'[x] = call[x] /\ WaitsFor(x, "cancel_sync")
    BY <1>2 DEF WaitsFor
  <2> QED
    BY <2>1 DEF StrandInv, Listed, Marks
<1> QED
  BY <1>1, <1>2 DEF Strands, Listed

(***************************************************************************)
(* The operations on items.                                                *)
(***************************************************************************)
LEMMA ItemStrands ==
    ASSUME ArmInv, OpsInv, StrandInv, NEW x \in Callers, ItemShape(x)
    PROVE  Strands
<1>a. PICK w \in Works, q \in Queues \cup {None}, d \in {"now", "later", "forever"} :
        \E op, s, act, claimed : Shape(x, w, op, q, d, s, act, claimed)
  BY DEF ItemShape
<1>0. PICK op, s, act, claimed : Shape(x, w, op, q, d, s, act, claimed)
  BY <1>a
<1>1. /\ WInv /\ s \in StateType /\ Coherent(s) /\ call \in [Callers -> CallRec]
      /\ Idle.pc = "idle" /\ \A y \in Callers : y # x => call'[y] = call[y]
  <2>1. CallMoves(x)
    BY ShapeMoves DEF ArmInv
  <2> QED
    BY <1>0, <2>1 DEF Shape, Claims, Kept, Coherent, ArmInv, WInv, CallInv, Idle, CallMoves
<1>2. w \notin raced => "DELAYED" \notin s.flags[w]
  <2>1. w \notin raced => RetryOwns(w)
    BY DEF ArmInv, Orderly
  <2> QED
    BY <1>0, <2>1 DEF Shape, RetryOwns, Retrying, Delayed
<1>3. \A v \in Works : /\ "RUNNING" \in s.flags[v] <=> "RUNNING" \in flags[v]
                       /\ "CANCELING" \in s.flags[v] <=> "CANCELING" \in flags[v]
  BY <1>0 DEF Shape, Claims
<1>4. ASSUME NEW r, Commit(r), Marks(s.flags, r.flags) PROVE Marks(flags, flags')
  <2>1. flags' = r.flags
    BY <1>4 DEF Commit
  <2> QED
    BY <1>3, <1>4, <2>1 DEF Marks
<1>5. ASSUME call'[x].pc # "wait" \/ call'[x].op # "cancel_sync"
      PROVE  \A z \in Threads : WaitsFor(z, "cancel_sync")' => call'[z] = call[z]
  BY <1>1, <1>5 DEF WaitsFor, Callers
<1>6. Returns(x) => call'[x].pc # "wait"
  BY <1>1 DEF Returns
<1>7. CASE \/ Rest(x, op, w, q, d, s, act, claimed)
           \/ op = "schedule" /\ schedule_for_queue_locked(x, s, act, w, q, d)
  <2>1. PICK r : Ends(x, op, w, q, s, claimed, r)
    BY <1>7, RestEnds
  <2>2. Commit(r)
    BY <2>1 DEF Ends
  <2>3. CASE EndsSubmit(x, w, q, s, r)
    <3>1. r = submit_to_queue_locked(x, s, w, q) /\ Returns(x) /\ UNCHANGED pending_cancels
      BY <2>3 DEF EndsSubmit
    <3>2. Marks(flags, flags')
      BY <1>1, <1>4, <2>2, <3>1, SubmitMarks
    <3> QED
      BY <1>5, <1>6, <3>1, <3>2, StrandKept
  <2>4. CASE EndsDelayed(x, w, s, r)
    <3>1. /\ r = [s EXCEPT !.flags[w] = @ \cup {"DELAYED"}]
          /\ Returns(x) /\ UNCHANGED pending_cancels
      BY <2>4 DEF EndsDelayed
    <3>2. r.flags = [s.flags EXCEPT ![w] = @ \cup {"DELAYED"}]
      BY <1>1, <3>1 DEF StateType
    <3>3. Marks(s.flags, r.flags)
      BY <1>1, <3>2 DEF StateType, Marks
    <3>4. Marks(flags, flags')
      BY <1>4, <2>2, <3>3
    <3> QED
      BY <1>5, <1>6, <3>1, <3>4, StrandKept
  <2>5. CASE EndsFlush(x, op, w, s, claimed, r)
    <3>1. PICK k : k = delay_queue[w]
      OBVIOUS
    <3>2. PICK u : /\ u = IF claimed THEN submit_to_queue_locked(x, s, w, k) ELSE s
                   /\ r = work_flush_locked(u, w, x)
                   /\ UNCHANGED pending_cancels
                   /\ Waits(x, "flush", w, None) \/ Returns(x)
      BY <2>5, <3>1 DEF EndsFlush
    <3>3. k \in Queues \cup {None}
      BY <1>1, <3>1 DEF WInv, DataType
    <3>4. Marks(s.flags, u.flags) /\ u \in StateType
      <4>1. CASE claimed
        BY <1>1, <3>2, <3>3, <4>1, SubmitMarks, SubmitCoherent DEF Coherent
      <4>2. CASE ~claimed
        BY <1>1, <3>2, <4>2 DEF Marks
      <4> QED
        BY <4>1, <4>2
    <3>5. r.flags = u.flags
      BY <3>2, <3>4, FlushDelayed
    <3>6. Marks(flags, flags')
      BY <1>4, <2>2, <3>4, <3>5
    <3>7. call'[x].pc # "wait" \/ call'[x].op # "cancel_sync"
      <4>1. ASSUME Waits(x, "flush", w, None) PROVE call'[x].op = "flush"
        <5>1. "flush" \in {"cancel_sync", "flush", "drain", "stop"} /\ w \in Works \cup {None}
              /\ None \in Queues \cup {None}
          OBVIOUS
        <5>2. PICK c \in CallRec : c.op = "flush" /\ call' = [call EXCEPT ![x] = c]
          BY <4>1, <5>1, WaitRecord
        <5> QED
          BY <1>1, <5>2
      <4> QED
        BY <1>6, <3>2, <4>1
    <3> QED
      BY <1>5, <3>2, <3>6, <3>7, StrandKept
  <2>6. CASE EndsCancel(x, op, w, s, r)
    <3>1. r = cancel_async_locked(s, w)
      BY <2>6 DEF EndsCancel
    <3>2. Marks(flags, flags')
      BY <1>1, <1>2, <1>4, <2>2, <3>1, CancelMarks
    <3>3. CASE Returns(x) /\ UNCHANGED pending_cancels
      BY <1>5, <1>6, <3>2, <3>3, StrandKept
    <3>4. CASE /\ op = "cancel_sync" /\ "CANCELING" \in r.flags[w]
               /\ Waits(x, "cancel_sync", w, None)
               /\ pending_cancels' = Append(pending_cancels, x)
      <4>1. /\ "CANCELING" \in flags'[w] /\ x \in Threads /\ pending_cancels \in Seq(Threads)
        BY <1>0, <1>1, <2>2, <3>4 DEF Commit, Shape, WInv, CancelInv
      <4>2. call'[x].work = w
        <5>1. PICK c : c = [Idle EXCEPT !.op = "cancel_sync", !.pc = "wait", !.work = w, !.queue = None]
          OBVIOUS
        <5>2. call' = [call EXCEPT ![x] = c] /\ c.work = w
          BY <3>4, <5>1 DEF Waits, Idle
        <5> QED
          BY <1>1, <5>2
      <4>3. x \in ToSet(pending_cancels') /\ ToSet(pending_cancels) \subseteq ToSet(pending_cancels')
        <5>1. /\ Len(pending_cancels') = Len(pending_cancels) + 1
              /\ pending_cancels'[Len(pending_cancels) + 1] = x
              /\ \A i \in 1..Len(pending_cancels) : pending_cancels'[i] = pending_cancels[i]
              /\ Len(pending_cancels) \in Nat
              /\ pending_cancels' \in Seq(Threads)
          BY <3>4, <4>1
        <5>2. /\ DOMAIN pending_cancels' = 1..(Len(pending_cancels) + 1)
              /\ DOMAIN pending_cancels = 1..Len(pending_cancels)
          BY <4>1, <5>1
        <5> QED
          BY <5>1, <5>2 DEF ToSet
      <4>4. \A v \in Works : v \notin raced /\ "CANCELING" \in flags'[v] => "RUNNING" \in flags'[v]
        BY <3>2 DEF StrandInv, Marks
      <4>5. ASSUME NEW z \in Threads, WaitsFor(z, "cancel_sync")'
            PROVE  /\ call'[z].work \in Works /\ "CANCELING" \in flags'[call'[z].work]
                   /\ z \in ToSet(pending_cancels')
        <5>1. CASE z = x
          BY <4>1, <4>2, <4>3, <5>1
        <5>2. CASE z # x
          <6>1. call'[z] = call[z] /\ WaitsFor(z, "cancel_sync")
            BY <1>1, <4>5, <5>2 DEF WaitsFor, Callers
          <6> QED
            BY <3>2, <4>3, <6>1 DEF StrandInv, Listed, Marks
        <5> QED
          BY <5>1, <5>2
      <4> QED
        BY <4>4, <4>5 DEF Strands, Listed
    <3> QED
      BY <2>6, <3>3, <3>4 DEF EndsCancel
  <2> QED
    BY <2>1, <2>3, <2>4, <2>5, <2>6 DEF Ends
<1>8. CASE /\ Commit(s) /\ UNCHANGED pending_cancels
           /\ call' = [call EXCEPT ![x] = [op |-> op, pc |-> "retry", work |-> w,
                                           queue |-> q, delay |-> d]]
  <2>1. Marks(flags, flags')
    BY <1>4, <1>8 DEF Marks
  <2>2. call'[x].pc # "wait"
    BY <1>1, <1>8
  <2> QED
    BY <1>5, <1>8, <2>1, <2>2, StrandKept
<1> QED
  BY <1>0, <1>7, <1>8 DEF Shape

(***************************************************************************)
(* finalize_cancel_locked() finds a thread that waits for the item.        *)
(***************************************************************************)
LEMMA FirstCancellerFinds ==
    ASSUME CancelInv, NEW w, NEW x \in ToSet(pending_cancels), call[x].work = w
    PROVE  FirstCanceller(w) # 0
<1> DEFINE I == {i \in 1..Len(pending_cancels) : call[pending_cancels[i]].work = w}
<1>1. FirstCanceller(w) = IF I = {} THEN 0 ELSE Min(I)
  BY DEF FirstCanceller, SelectInSeq
<1>2. PICK i \in 1..Len(pending_cancels) : pending_cancels[i] = x
  BY DEF ToSet, CancelInv
<1>3. I # {} /\ I \in SUBSET Nat /\ 0 \notin I
  BY <1>2 DEF CancelInv
<1>4. Min(I) \in I
  <2> HIDE DEF I
  <2> QED
    BY <1>3, MinIsLeast
<1> QED
  BY <1>1, <1>3, <1>4

(***************************************************************************)
(* A handler returned: if a thread waits for the cancellation of the item  *)
(* it is the one that is released, as no other waits for a cancellation.   *)
(***************************************************************************)
LEMMA ReturnStrands ==
    ASSUME WInv, OpsInv, StrandInv, NEW y \in Callers, OnlyCanceller(y),
           NEW q \in Queues, WorkHandlerReturns(q)
    PROVE  Strands
<1>0. /\ call \in [Callers -> CallRec] /\ Threads \subseteq Callers /\ Idle.pc = "idle"
      /\ flags \in [Works -> SUBSET {"QUEUED", "RUNNING", "CANCELING", "DELAYED"}]
  BY DEF WInv, CallInv, Callers, Idle, Coherent, State, StateType
<1>1. \A x \in Threads : WaitsFor(x, "cancel_sync") => x = y
  BY <1>0 DEF WaitsFor, OpsInv, OnlyCanceller
<1>2. \A x \in Threads : WaitsFor(x, "cancel_sync")' => call'[x] = call[x]
  BY <1>0, ReturnCalls DEF WaitsFor
<1>3. CASE current[q] \notin Works
  <2>1. UNCHANGED <<flags, pending_cancels>>
    BY <1>3 DEF WorkHandlerReturns, finalize_flush_locked
  <2>2. Marks(flags, flags')
    BY <2>1 DEF Marks
  <2> QED
    BY <1>2, <2>1, <2>2, StrandKept
<1>4. CASE current[q] \in Works
  <2>1. PICK w \in Works : w = current[q]
    BY <1>4
  <2>2. finalize_cancel_locked(q, w)
    BY <2>1 DEF WorkHandlerReturns
  <2>3. flags' = [flags EXCEPT ![w] = @ \ {"RUNNING", "CANCELING"}]
    BY <2>2 DEF finalize_cancel_locked
  <2>4. "CANCELING" \notin flags'[w] /\ \A v \in Works : v # w => flags'[v] = flags[v]
    BY <1>0, <2>3
  <2>5. \A v \in Works : v \notin raced /\ "CANCELING" \in flags'[v] => "RUNNING" \in flags'[v]
    BY <2>4 DEF StrandInv
  <2>6. CASE "CANCELING" \in flags[w] /\ FirstCanceller(w) # 0
    <3>1. Returns(pending_cancels[FirstCanceller(w)])
      BY <2>2, <2>6 DEF finalize_cancel_locked
    <3>2. PICK k \in 1..Len(pending_cancels) : k = FirstCanceller(w)
      BY <2>6, FirstCancellerFound DEF WInv
    <3>3. PICK z \in Threads : z = pending_cancels[k] /\ WaitsFor(z, "cancel_sync")
      BY DEF WInv, CancelInv, ToSet
    <3>4. call'[z] = Idle
      BY <1>0, <3>1, <3>2, <3>3 DEF Returns
    <3>5. ASSUME NEW x \in Threads, WaitsFor(x, "cancel_sync")' PROVE FALSE
      <4>1. WaitsFor(x, "cancel_sync") /\ x # z
        BY <1>0, <1>2, <3>4, <3>5 DEF WaitsFor
      <4> QED
        BY <1>1, <3>3, <4>1
    <3> QED
      BY <2>5, <3>5 DEF Strands, Listed
  <2>7. CASE ~("CANCELING" \in flags[w] /\ FirstCanceller(w) # 0)
    <3>1. UNCHANGED pending_cancels
      BY <2>2, <2>7 DEF finalize_cancel_locked
    <3>2. ASSUME NEW x \in Threads, WaitsFor(x, "cancel_sync")'
          PROVE  /\ call'[x].work \in Works /\ "CANCELING" \in flags'[call'[x].work]
                 /\ x \in ToSet(pending_cancels')
      <4>1. call'[x] = call[x] /\ WaitsFor(x, "cancel_sync")
        BY <1>2, <3>2 DEF WaitsFor
      <4>2. /\ call[x].work \in Works /\ "CANCELING" \in flags[call[x].work]
            /\ x \in ToSet(pending_cancels)
        BY <4>1 DEF StrandInv, Listed
      <4>3. call[x].work # w
        BY <2>7, <4>2, FirstCancellerFinds DEF WInv
      <4> QED
        BY <2>4, <3>1, <4>1, <4>2, <4>3
    <3> QED
      BY <2>5, <3>2 DEF Strands, Listed
  <2> QED
    BY <2>6, <2>7
<1> QED
  BY <1>3, <1>4

(***************************************************************************)
(* The other steps: nobody begins to wait for a cancellation.              *)
(***************************************************************************)
LEMMA QueueCallsWait ==
    ASSUME WInv, NEW x \in Callers,
           (\E q \in Queues : QueueCall(x, q)) \/ StopReturns(x)
    PROVE  /\ \A z \in Callers : \/ call'[z] = call[z]
                                 \/ call'[z].op \in ({"drain", "stop"} \cap Ops[z]) \cup {"none"}
           /\ UNCHANGED <<flags, pending_cancels>>
<1> DEFINE Moved == \A z \in Callers :
                       \/ call'[z] = call[z]
                       \/ call'[z].op \in ({"drain", "stop"} \cap Ops[z]) \cup {"none"}
<1>0. call \in [Callers -> CallRec] /\ Idle.op = "none"
  BY DEF WInv, CallInv, Idle
<1>1. UNCHANGED <<flags, pending_cancels>>
  BY DEF QueueCall, k_work_queue_drain, k_work_queue_unplug, k_work_queue_stop,
         StopReturns, Commit, State, notify_queue_locked
<1>2. \/ call' = call \/ Returns(x)
      \/ \E q \in Queues, op \in {"drain", "stop"} : op \in Ops[x] /\ Waits(x, op, None, q)
  BY DEF QueueCall, k_work_queue_drain, k_work_queue_unplug, k_work_queue_stop, StopReturns, May
<1>3. ASSUME NEW q \in Queues, NEW op \in {"drain", "stop"}, op \in Ops[x], Waits(x, op, None, q)
      PROVE  Moved
  <2>1. PICK n : n = None
    OBVIOUS
  <2>2. /\ op \in {"cancel_sync", "flush", "drain", "stop"} /\ n \in Works \cup {None}
        /\ q \in Queues \cup {None} /\ Waits(x, op, n, q)
    BY <1>3, <2>1
  <2>3. PICK c \in CallRec : c.op = op /\ call' = [call EXCEPT ![x] = c]
    BY <2>2, WaitRecord
  <2> QED
    BY <1>0, <1>3, <2>3
<1>4. Returns(x) => Moved
  BY <1>0 DEF Returns
<1> QED
  BY <1>1, <1>2, <1>3, <1>4

(***************************************************************************)
(* Every step.                                                             *)
(***************************************************************************)
LEMMA StrandStep ==
    ASSUME ArmInv, OpsInv, StrandInv, NEW y \in Callers, OnlyCanceller(y), [Next]_vars
    PROVE  StrandInv' /\ OpsInv'
<1>0. /\ WInv /\ Threads \subseteq Callers /\ Idle.op = "none"
      /\ call \in [Callers -> CallRec]
      /\ flags \in [Works -> SUBSET {"QUEUED", "RUNNING", "CANCELING", "DELAYED"}]
  BY DEF ArmInv, WInv, CallInv, Callers, Idle, Coherent, State, StateType
<1>1. CASE UNCHANGED vars
  <2>1. UNCHANGED <<call, flags, pending_cancels, raced>>
    BY <1>1 DEF vars, workVars
  <2> QED
    BY <2>1 DEF StrandInv, Listed, OpsInv, WaitsFor
<1>2. ASSUME NEW x \in Callers, NEW c \in Cpus, ItemCall(x, c) \/ unschedule_locked(x, c)
      PROVE  Strands /\ OpsInv'
  <2>1. ItemShape(x)
    BY <1>0, <1>2, ItemHasShape
  <2>2. CallMoves(x)
    BY <1>0, <2>1, ShapeMoves
  <2>3. OpsInv'
    BY <2>2 DEF OpsInv, CallMoves
  <2> QED
    BY <2>1, <2>3, ItemStrands
<1>3. ASSUME NEW x \in Callers, (\E q \in Queues : QueueCall(x, q)) \/ StopReturns(x)
      PROVE  Strands /\ OpsInv'
  <2>1. /\ \A z \in Callers : \/ call'[z] = call[z]
                              \/ call'[z].op \in ({"drain", "stop"} \cap Ops[z]) \cup {"none"}
        /\ UNCHANGED <<flags, pending_cancels>>
    BY <1>0, <1>3, QueueCallsWait
  <2>2. Marks(flags, flags')
    BY <2>1 DEF Marks
  <2>3. Strands
    BY <1>0, <2>1, <2>2, StrandKept DEF WaitsFor
  <2>4. OpsInv'
    BY <2>1 DEF OpsInv
  <2> QED
    BY <2>3, <2>4
<1>4. ASSUME NEW q \in Queues, WorkerTakes(q)
      PROVE  Strands /\ OpsInv'
  <2>1. UNCHANGED <<call, pending_cancels>>
    BY <1>4 DEF WorkerTakes
  <2>2. \A w \in Works, f \in {"CANCELING"} : f \in flags'[w] <=> f \in flags[w]
    BY <1>0, <1>4 DEF WorkerTakes
  <2>3. \A w \in Works : "RUNNING" \in flags[w] => "RUNNING" \in flags'[w]
    BY <1>0, <1>4 DEF WorkerTakes
  <2> QED
    BY <2>1, <2>2, <2>3 DEF StrandInv, Strands, Listed, OpsInv, WaitsFor
<1>5. ASSUME NEW q \in Queues, WorkerIdles(q)
      PROVE  Strands /\ OpsInv'
  <2>1. /\ \A x \in Callers : call'[x] = call[x] \/ call'[x] = Idle
        /\ UNCHANGED <<flags, pending_cancels>>
    BY <1>5 DEF WorkerIdles
  <2>2. Marks(flags, flags')
    BY <2>1 DEF Marks
  <2>3. OpsInv'
    BY <1>0, <2>1 DEF OpsInv
  <2> QED
    BY <1>0, <2>1, <2>2, <2>3, StrandKept DEF WaitsFor
<1>6. ASSUME NEW q \in Queues, WorkHandlerReturns(q)
      PROVE  Strands /\ OpsInv'
  <2>1. OpsInv'
    BY <1>0, <1>6, ReturnCalls DEF OpsInv
  <2> QED
    BY <1>0, <1>6, <2>1, ReturnStrands
<1>7. ASSUME (\E c \in Cpus : TimeoutPopped(c)) \/ work_timeout
      PROVE  Strands /\ OpsInv'
  <2>1. UNCHANGED <<call, pending_cancels>>
    BY <1>7 DEF TimeoutPopped, work_timeout
  <2>2. Marks(flags, flags')
    <3>1. CASE \E c \in Cpus : TimeoutPopped(c)
      BY <3>1 DEF TimeoutPopped, Marks
    <3>2. CASE work_timeout /\ "DELAYED" \notin flags[inflight_timeout]
      BY <3>2 DEF work_timeout, Commit, State, Marks
    <3>3. CASE work_timeout /\ "DELAYED" \in flags[inflight_timeout]
      <4>1. PICK w, x : w = inflight_timeout /\ x = None
        OBVIOUS
      <4>2. PICK s, q : s = [State EXCEPT !.flags[w] = @ \ {"DELAYED"}] /\ q = delay_queue[w]
        OBVIOUS
      <4>3. w \in Works
        BY <1>0, <3>3, <4>1 DEF WInv, DispatchInv, work_timeout
      <4>4. Commit(submit_to_queue_locked(x, s, w, q))
        BY <3>3, <4>1, <4>2 DEF work_timeout
      <4>5. Claims(s) /\ s \in StateType
        BY <1>0, <4>2, <4>3, ClaimsState DEF Claims, Kept, Coherent
      <4>6. \A v \in Works : /\ "RUNNING" \in s.flags[v] <=> "RUNNING" \in flags[v]
                             /\ "CANCELING" \in s.flags[v] <=> "CANCELING" \in flags[v]
        BY <4>5 DEF Claims
      <4>7. Marks(s.flags, submit_to_queue_locked(x, s, w, q).flags)
        BY <4>3, <4>5, SubmitMarks
      <4> QED
        BY <4>4, <4>6, <4>7 DEF Commit, Marks
    <3> QED
      BY <1>7, <3>1, <3>2, <3>3
  <2> QED
    BY <2>1, <2>2, StrandKept DEF OpsInv
<1>8. Next => Strands /\ OpsInv'
  BY <1>2, <1>3, <1>4, <1>5, <1>6, <1>7 DEF Next, CallerStep, WorkerStep
<1>9. ASSUME NEW z, TrackRace(z), Strands PROVE StrandInv'
  <2>1. ASSUME NEW w \in Works, w \notin raced', "CANCELING" \in flags'[w]
        PROVE  "RUNNING" \in flags'[w]
    <3>1. w \notin raced \/ Calm(w)'
      BY <1>9, <2>1, RaceRule
    <3>2. w \notin raced
      BY <2>1, <3>1 DEF Calm
    <3> QED
      BY <1>9, <2>1, <3>2 DEF Strands
  <2> QED
    BY <1>9, <2>1 DEF Strands, StrandInv
<1>10. Next => \E z : TrackRace(z)
  BY DEF Next, History
<1> QED
  BY <1>1, <1>8, <1>9, <1>10

(***************************************************************************)
(* When one thread cancels synchronously, it waits only while a handler    *)
(* runs whose return releases it, whoever schedules, cancels and flushes   *)
(* in between, unless its item was overtaken.                              *)
(***************************************************************************)
THEOREM WorkNoStrandedCanceller ==
    ASSUME NEW y \in Callers, OnlyCanceller(y)
    PROVE  Spec => []NoStrandedCanceller
<1>1. Init => ArmInv /\ OpsInv /\ StrandInv
  <2> SUFFICES ASSUME Init PROVE ArmInv /\ OpsInv /\ StrandInv
    OBVIOUS
  <2>1. OpsInv
    BY DEF Init, OpsInv, Idle
  <2>2. StrandInv
    BY DEF Init, StrandInv, Listed, WaitsFor, Idle, Callers
  <2> QED
    BY <2>1, <2>2, ArmInit
<1>2. ArmInv /\ OpsInv /\ StrandInv /\ [Next]_vars => (ArmInv /\ OpsInv /\ StrandInv)'
  BY ArmStep, StrandStep
<1>3. StrandInv => NoStrandedCanceller
  BY DEF StrandInv, Listed, NoStrandedCanceller, WaitsFor
<1> QED
  BY <1>1, <1>2, <1>3, PTL DEF Spec

-----------------------------------------------------------------------------
(* The order of the lists: a flusher stays behind the item it waits for.   *)

Before(p, a, b) == \E i, j \in DOMAIN p : i < j /\ p[i] = a /\ p[j] = b

(***************************************************************************)
(* Putting an entry last, or anywhere, keeps the order of the others.      *)
(***************************************************************************)
LEMMA AppendOrder ==
    ASSUME NEW S, NEW p \in Seq(S), NEW e \in S, NEW a, NEW b, Before(p, a, b)
    PROVE  Before(Append(p, e), a, b)
<1>1. PICK r : r = Append(p, e)
  OBVIOUS
<1>2. /\ Len(p) \in Nat /\ DOMAIN p = 1..Len(p) /\ DOMAIN r = 1..(Len(p) + 1)
      /\ \A i \in 1..Len(p) : r[i] = p[i]
  BY <1>1
<1>3. PICK i \in 1..Len(p), j \in 1..Len(p) : i < j /\ p[i] = a /\ p[j] = b
  BY <1>2 DEF Before
<1>4. i \in DOMAIN r /\ j \in DOMAIN r
  BY <1>2
<1>5. Before(r, a, b)
  BY <1>2, <1>3, <1>4 DEF Before
<1> QED
  BY <1>1, <1>5

(***************************************************************************)
(* Inserting.                                                              *)
(***************************************************************************)
LEMMA InsertOrder ==
    ASSUME NEW S, NEW p \in Seq(S), NEW e \in S, NEW k \in 1..(Len(p) + 1),
           NEW a, NEW b, Before(p, a, b)
    PROVE  Before(InsertAt(p, k, e), a, b)
<1>1. PICK r : r = InsertAt(p, k, e)
  OBVIOUS
<1>2. /\ Len(p) \in Nat /\ DOMAIN p = 1..Len(p) /\ DOMAIN r = 1..(Len(p) + 1)
      /\ \A i \in 1..(k - 1) : r[i] = p[i]
      /\ \A i \in (k + 1)..(Len(p) + 1) : r[i] = p[i - 1]
  <2>1. Inserted(p, k, e, r)
    BY <1>1, InsertPositions
  <2> QED
    BY <2>1 DEF Inserted
<1>3. PICK i \in 1..Len(p), j \in 1..Len(p) : i < j /\ p[i] = a /\ p[j] = b
  BY <1>2 DEF Before
<1> DEFINE moved(n) == IF n < k THEN n ELSE n + 1
<1>4. ASSUME NEW n \in 1..Len(p) PROVE moved(n) \in 1..(Len(p) + 1) /\ r[moved(n)] = p[n]
  <2>1. CASE n < k
    <3>1. moved(n) = n /\ n \in 1..(k - 1) /\ n \in 1..(Len(p) + 1)
      BY <1>2, <2>1
    <3> HIDE DEF moved
    <3> QED
      BY <1>2, <3>1
  <2>2. CASE ~(n < k)
    <3>1. /\ moved(n) = n + 1 /\ n + 1 \in (k + 1)..(Len(p) + 1)
          /\ n + 1 \in 1..(Len(p) + 1) /\ (n + 1) - 1 = n
      BY <1>2, <2>2
    <3>2. r[n + 1] = p[(n + 1) - 1]
      BY <1>2, <3>1
    <3> HIDE DEF moved
    <3> QED
      BY <3>1, <3>2
  <2> QED
    BY <2>1, <2>2
<1>5. moved(i) < moved(j)
  BY <1>2, <1>3
<1>6. PICK m, n : m = moved(i) /\ n = moved(j)
  OBVIOUS
<1> HIDE DEF moved
<1>7. m \in DOMAIN r /\ n \in DOMAIN r /\ m < n /\ r[m] = a /\ r[n] = b
  BY <1>2, <1>3, <1>4, <1>5, <1>6
<1>8. Before(r, a, b)
  BY <1>7 DEF Before
<1> QED
  BY <1>1, <1>8

(***************************************************************************)
(* What is inserted right behind an element is behind it.                  *)
(***************************************************************************)
LEMMA InsertBehind ==
    ASSUME NEW S, NEW p \in Seq(S), NEW e \in S, NEW j \in 1..Len(p)
    PROVE  Before(InsertAt(p, j + 1, e), p[j], e)
<1>1. PICK k \in 1..(Len(p) + 1) : k = j + 1
  OBVIOUS
<1>2. PICK r : r = InsertAt(p, k, e)
  OBVIOUS
<1>3. /\ Len(p) \in Nat /\ DOMAIN r = 1..(Len(p) + 1) /\ r[k] = e
      /\ \A i \in 1..(k - 1) : r[i] = p[i]
  <2>1. Inserted(p, k, e, r)
    BY <1>2, InsertPositions
  <2> QED
    BY <2>1 DEF Inserted
<1>4. j \in 1..(k - 1) /\ j \in 1..(Len(p) + 1) /\ j < k
  BY <1>1, <1>3
<1>5. r[j] = p[j]
  BY <1>3, <1>4
<1>6. Before(r, p[j], e)
  BY <1>3, <1>4, <1>5 DEF Before
<1> QED
  BY <1>1, <1>2, <1>6

(***************************************************************************)
(* Removing an element keeps the order of the others.                      *)
(***************************************************************************)
LEMMA RemoveOrder ==
    ASSUME NEW S, NEW p \in Seq(S), NEW e \in ToSet(p), NEW a, NEW b, a # e, b # e,
           Before(p, a, b)
    PROVE  Before(RemoveFirst(p, e), a, b)
<1>1. PICK k \in 1..Len(p) : k = SelectInSeq(p, LAMBDA i : i = e) /\ p[k] = e
  BY PositionFound
<1>2. PICK r : r = RemoveAt(p, k)
  OBVIOUS
<1>3. RemoveFirst(p, e) = r
  <2>1. \E i \in 1..Len(p) : p[i] = e
    BY <1>1
  <2> QED
    BY <1>1, <1>2, <2>1 DEF RemoveFirst
<1>4. /\ Len(p) \in Nat /\ DOMAIN p = 1..Len(p) /\ DOMAIN r = 1..(Len(p) - 1)
      /\ \A i \in 1..(k - 1) : r[i] = p[i]
      /\ \A i \in k..(Len(p) - 1) : r[i] = p[i + 1]
  <2>1. Removed(p, k, r)
    BY <1>2, RemovePositions
  <2> QED
    BY <2>1 DEF Removed
<1>5. PICK i \in 1..Len(p), j \in 1..Len(p) : i < j /\ p[i] = a /\ p[j] = b
  BY <1>4 DEF Before
<1>6. i # k /\ j # k
  BY <1>1, <1>5
<1> DEFINE moved(n) == IF n < k THEN n ELSE n - 1
<1>7. ASSUME NEW n \in 1..Len(p), n # k PROVE moved(n) \in 1..(Len(p) - 1) /\ r[moved(n)] = p[n]
  <2>1. CASE n < k
    <3>1. moved(n) = n /\ n \in 1..(k - 1) /\ n \in 1..(Len(p) - 1)
      BY <1>4, <2>1
    <3> HIDE DEF moved
    <3> QED
      BY <1>4, <3>1
  <2>2. CASE ~(n < k)
    <3>1. /\ moved(n) = n - 1 /\ n - 1 \in k..(Len(p) - 1)
          /\ n - 1 \in 1..(Len(p) - 1) /\ (n - 1) + 1 = n
      BY <1>4, <1>7, <2>2
    <3>2. r[n - 1] = p[(n - 1) + 1]
      BY <1>4, <3>1
    <3> HIDE DEF moved
    <3> QED
      BY <3>1, <3>2
  <2> QED
    BY <2>1, <2>2
<1>8. moved(i) < moved(j)
  BY <1>4, <1>5, <1>6
<1>9. PICK m, n : m = moved(i) /\ n = moved(j)
  OBVIOUS
<1> HIDE DEF moved
<1>10. m \in DOMAIN r /\ n \in DOMAIN r /\ m < n /\ r[m] = a /\ r[n] = b
  BY <1>4, <1>5, <1>6, <1>7, <1>8, <1>9
<1>11. Before(r, a, b)
  BY <1>10 DEF Before
<1> QED
  BY <1>3, <1>11

(***************************************************************************)
(* Taking the first element keeps the order of the others.                 *)
(***************************************************************************)
LEMMA TailOrder ==
    ASSUME NEW S, NEW p \in Seq(S), p # <<>>, NEW a, NEW b, a # Head(p), Before(p, a, b)
    PROVE  Before(Tail(p), a, b)
<1>1. PICK r : r = Tail(p)
  OBVIOUS
<1>2. /\ Len(p) \in Nat /\ DOMAIN p = 1..Len(p) /\ DOMAIN r = 1..(Len(p) - 1)
      /\ Head(p) = p[1] /\ \A i \in 1..(Len(p) - 1) : r[i] = p[i + 1]
  BY <1>1
<1>3. PICK i \in 1..Len(p), j \in 1..Len(p) : i < j /\ p[i] = a /\ p[j] = b
  BY <1>2 DEF Before
<1>4. i # 1
  BY <1>2, <1>3
<1>5. PICK m, n : m = i - 1 /\ n = j - 1
  OBVIOUS
<1>6. m \in 1..(Len(p) - 1) /\ n \in 1..(Len(p) - 1) /\ m < n /\ m + 1 = i /\ n + 1 = j
  BY <1>2, <1>3, <1>4, <1>5
<1>7. r[m] = p[i] /\ r[n] = p[j]
  BY <1>2, <1>6
<1>8. Before(r, a, b)
  BY <1>2, <1>3, <1>6, <1>7 DEF Before
<1> QED
  BY <1>1, <1>8

\* The flusher of z waits behind item v, which is queued, or which is running.
QueuedBefore(s, v, z) ==
    /\ "QUEUED" \in s.flags[v] /\ s.queue[v] \in Queues
    /\ Before(s.pending[s.queue[v]], v, z)

RunsBefore(s, v, z) ==
    /\ "RUNNING" \in s.flags[v] /\ s.queue[v] \in Queues
    /\ z \in ToSet(s.pending[s.queue[v]])

\* A flusher stays behind an item as long as the item is queued, or running,
\* and no item begins to run.
SameOrder(s, r) ==
    \A v \in Works, z \in Threads :
        /\ QueuedBefore(s, v, z) /\ "QUEUED" \in r.flags[v] => QueuedBefore(r, v, z)
        /\ RunsBefore(s, v, z) /\ "RUNNING" \in r.flags[v] => RunsBefore(r, v, z)
        /\ "RUNNING" \in r.flags[v] => "RUNNING" \in s.flags[v]

(***************************************************************************)
(* A change that leaves the lists and the queues of items alone.           *)
(***************************************************************************)
LEMMA FlagsOrder ==
    ASSUME NEW s, NEW r, r.queue = s.queue, r.pending = s.pending,
           \A v \in Works : "RUNNING" \in r.flags[v] => "RUNNING" \in s.flags[v]
    PROVE  SameOrder(s, r)
  BY DEF SameOrder, QueuedBefore, RunsBefore

(***************************************************************************)
(* submit_to_queue_locked().                                               *)
(***************************************************************************)
LEMMA SubmitOrder ==
    ASSUME NEW s, Coherent(s), NEW x, NEW w \in Works, NEW q \in Queues \cup {None}
    PROVE  /\ SameOrder(s, submit_to_queue_locked(x, s, w, q))
           /\ \A v \in Works : "QUEUED" \in s.flags[v]
                                 => "QUEUED" \in submit_to_queue_locked(x, s, w, q).flags[v]
<1>0. s \in StateType /\ Matches(s)
  BY DEF Coherent
<1>1. PICK to : to = SubmitQueue(s, w, q)
  OBVIOUS
<1>2. CASE ~({"CANCELING", "QUEUED"} \cap s.flags[w] = {} /\ queue_submit_locked(x, to))
  <2>1. submit_to_queue_locked(x, s, w, q) = s
    BY <1>1, <1>2 DEF submit_to_queue_locked
  <2> QED
    BY <2>1, FlagsOrder
<1>3. CASE {"CANCELING", "QUEUED"} \cap s.flags[w] = {} /\ queue_submit_locked(x, to)
  <2>1. /\ to \in Queues /\ "QUEUED" \notin s.flags[w]
        /\ "RUNNING" \in s.flags[w] => to = s.queue[w]
    <3>1. to \in Queues \cup {None}
      BY <1>0, <1>1 DEF SubmitQueue, StateType
    <3>2. to # None
      BY <1>3 DEF queue_submit_locked
    <3> QED
      BY <1>1, <1>3, <3>1, <3>2 DEF SubmitQueue
  <2>2. PICK a : /\ a = [s EXCEPT !.flags[w] = @ \cup {"QUEUED"},
                                  !.queue[w] = to,
                                  !.pending[to] = Append(@, w)]
                 /\ submit_to_queue_locked(x, s, w, q) = notify_queue_locked(a, to)
    BY <1>1, <1>3 DEF submit_to_queue_locked
  <2>3. a = [flags |-> [s.flags EXCEPT ![w] = @ \cup {"QUEUED"}],
             queue |-> [s.queue EXCEPT ![w] = to],
             pending |-> [s.pending EXCEPT ![to] = Append(@, w)],
             worker |-> s.worker]
    BY <1>0, <2>2 DEF StateType
  <2>4. PICK r : r = notify_queue_locked(a, to)
    OBVIOUS
  <2>5. r.flags = a.flags /\ r.queue = a.queue /\ r.pending = a.pending
    BY <2>3, <2>4 DEF notify_queue_locked
  <2>6. /\ r.flags[w] = s.flags[w] \cup {"QUEUED"} /\ r.queue[w] = to
        /\ \A v \in Works : v # w => r.flags[v] = s.flags[v] /\ r.queue[v] = s.queue[v]
        /\ r.pending[to] = Append(s.pending[to], w)
        /\ \A k \in Queues : k # to => r.pending[k] = s.pending[k]
    BY <1>0, <2>1, <2>3, <2>5 DEF StateType
  <2>7. s.pending[to] \in Seq(Entries) /\ w \in Entries
    BY <1>0, <2>1 DEF StateType, Entries
  <2>8. \A v \in Works : "RUNNING" \in r.flags[v] <=> "RUNNING" \in s.flags[v]
    BY <2>6
  <2>9. ASSUME NEW v \in Works, NEW z \in Threads, QueuedBefore(s, v, z)
        PROVE  QueuedBefore(r, v, z)
    <3>1. PICK k \in Queues : k = s.queue[v] /\ Before(s.pending[k], v, z)
      BY <2>9 DEF QueuedBefore
    <3>2. v # w /\ "QUEUED" \in r.flags[v] /\ r.queue[v] = k
      BY <2>1, <2>6, <2>9, <3>1 DEF QueuedBefore
    <3>3. Before(r.pending[k], v, z)
      <4>1. CASE k = to
        <5>1. PICK p \in Seq(Entries) : p = s.pending[to]
          BY <2>7
        <5>2. Before(p, v, z)
          BY <3>1, <4>1, <5>1
        <5>3. Before(Append(p, w), v, z)
          BY <2>7, <5>2, AppendOrder
        <5> QED
          BY <2>6, <4>1, <5>1, <5>3
      <4>2. CASE k # to
        BY <2>6, <3>1, <4>2
      <4> QED
        BY <4>1, <4>2
    <3> QED
      BY <3>2, <3>3 DEF QueuedBefore
  <2>10. SameFlushers(s, r)
    BY <2>2, <2>4, SubmitCoherent
  <2>11. ASSUME NEW v \in Works, NEW z \in Threads, RunsBefore(s, v, z)
         PROVE  RunsBefore(r, v, z)
    <3>1. r.queue[v] = s.queue[v]
      BY <2>1, <2>6, <2>11 DEF RunsBefore
    <3> QED
      BY <2>8, <2>10, <2>11, <3>1 DEF RunsBefore, SameFlushers
  <2>12. SameOrder(s, r)
    BY <2>8, <2>9, <2>11 DEF SameOrder
  <2>13. \A v \in Works : "QUEUED" \in s.flags[v] => "QUEUED" \in r.flags[v]
    BY <2>6
  <2> QED
    BY <2>2, <2>4, <2>12, <2>13
<1> QED
  BY <1>2, <1>3

(***************************************************************************)
(* cancel_async_locked(): the item leaves its list.                        *)
(***************************************************************************)
LEMMA CancelOrder ==
    ASSUME NEW s, Coherent(s), NEW w \in Works
    PROVE  SameOrder(s, cancel_async_locked(s, w))
<1>0. s \in StateType /\ Matches(s) /\ CancelsKeptOut(s)
  BY DEF Coherent
<1>1. PICK a : a = IF "CANCELING" \in s.flags[w] THEN s ELSE queue_remove_locked(s, w)
  OBVIOUS
<1>2. PICK b : b = [a EXCEPT !.flags[w] = @ \cup {"CANCELING"}]
  OBVIOUS
<1>3. cancel_async_locked(s, w) \in {a, b}
  BY <1>1, <1>2 DEF cancel_async_locked
<1>4. PICK r : r = cancel_async_locked(s, w)
  OBVIOUS
<1>5. CASE "QUEUED" \notin s.flags[w]
  <2>1. a = s
    BY <1>1, <1>5 DEF queue_remove_locked
  <2>2. /\ b.queue = s.queue /\ b.pending = s.pending
        /\ b.flags = [s.flags EXCEPT ![w] = @ \cup {"CANCELING"}]
    BY <1>0, <1>2, <2>1 DEF StateType
  <2>3. \A v \in Works : "RUNNING" \in b.flags[v] => "RUNNING" \in s.flags[v]
    BY <1>0, <2>2 DEF StateType
  <2>4. SameOrder(s, s) /\ SameOrder(s, b)
    BY <2>2, <2>3, FlagsOrder
  <2> QED
    BY <1>3, <2>1, <2>4
<1>6. CASE "QUEUED" \in s.flags[w]
  <2>1. PICK from \in Queues : from = s.queue[w] /\ w \in ToSet(s.pending[from])
    <3>1. s.queue[w] # None
      BY <1>0, <1>6 DEF Matches
    <3>2. s.queue[w] \in Queues
      BY <1>0, <3>1 DEF StateType
    <3> QED
      BY <1>0, <1>6, <3>2 DEF Matches
  <2>2. a = [s EXCEPT !.flags[w] = @ \ {"QUEUED"}, !.pending[from] = RemoveFirst(@, w)]
    BY <1>0, <1>1, <1>6, <2>1 DEF queue_remove_locked, CancelsKeptOut
  <2>3. a = [flags |-> [s.flags EXCEPT ![w] = @ \ {"QUEUED"}], queue |-> s.queue,
             pending |-> [s.pending EXCEPT ![from] = RemoveFirst(@, w)], worker |-> s.worker]
    BY <1>0, <2>2 DEF StateType
  <2>4. /\ b.queue = a.queue /\ b.pending = a.pending
        /\ b.flags = [a.flags EXCEPT ![w] = @ \cup {"CANCELING"}]
    BY <1>2, <2>3
  <2>5. /\ \A v \in Works : v # w => a.flags[v] = s.flags[v] /\ b.flags[v] = s.flags[v]
        /\ a.flags[w] = s.flags[w] \ {"QUEUED"}
        /\ b.flags[w] = (s.flags[w] \ {"QUEUED"}) \cup {"CANCELING"}
    BY <1>0, <2>3, <2>4 DEF StateType
  <2>6. r.queue = s.queue /\ r.pending = [s.pending EXCEPT ![from] = RemoveFirst(@, w)]
    BY <1>3, <1>4, <2>3, <2>4
  <2>7. /\ \A v \in Works : v # w => r.flags[v] = s.flags[v]
        /\ "QUEUED" \notin r.flags[w]
        /\ "RUNNING" \in r.flags[w] <=> "RUNNING" \in s.flags[w]
    BY <1>3, <1>4, <2>5
  <2>8. /\ r.pending[from] = RemoveFirst(s.pending[from], w)
        /\ \A k \in Queues : k # from => r.pending[k] = s.pending[k]
    BY <1>0, <2>1, <2>6 DEF StateType
  <2>9. ASSUME NEW v \in Works, NEW z \in Threads, QueuedBefore(s, v, z), "QUEUED" \in r.flags[v]
        PROVE  QueuedBefore(r, v, z)
    <3>1. PICK k \in Queues : k = s.queue[v] /\ Before(s.pending[k], v, z)
      BY <2>9 DEF QueuedBefore
    <3>2. v # w /\ z # w
      BY <2>7, <2>9, WorkAssumption DEF Callers
    <3>3. Before(r.pending[k], v, z)
      <4>1. CASE k = from
        <5>1. PICK p \in Seq(Entries) : p = s.pending[from]
          BY <1>0, <2>1 DEF StateType
        <5>2. Before(p, v, z) /\ w \in ToSet(p)
          BY <2>1, <3>1, <4>1, <5>1
        <5>3. Before(RemoveFirst(p, w), v, z)
          BY <3>2, <5>2, RemoveOrder
        <5> QED
          BY <2>8, <4>1, <5>1, <5>3
      <4>2. CASE k # from
        BY <2>8, <3>1, <4>2
      <4> QED
        BY <4>1, <4>2
    <3> QED
      BY <2>6, <2>9, <3>1, <3>3 DEF QueuedBefore
  <2>10. SameFlushers(s, r)
    BY <1>4, CancelCoherent
  <2>11. ASSUME NEW v \in Works, NEW z \in Threads, RunsBefore(s, v, z), "RUNNING" \in r.flags[v]
         PROVE  RunsBefore(r, v, z)
    BY <2>6, <2>10, <2>11 DEF RunsBefore, SameFlushers
  <2>12. SameOrder(s, r)
    BY <2>7, <2>9, <2>11 DEF SameOrder
  <2> QED
    BY <1>4, <2>12
<1> QED
  BY <1>5, <1>6

(***************************************************************************)
(* work_flush_locked(): the new flusher is behind the item, and the others *)
(* stay where they were.                                                   *)
(***************************************************************************)
LEMMA FlushOrder ==
    ASSUME NEW s, Coherent(s), NEW w \in Works, NEW x \in Threads, NeedsFlush(s, w),
           NEW r, r = work_flush_locked(s, w, x)
    PROVE  /\ SameOrder(s, r) /\ r.flags = s.flags
           /\ "QUEUED" \in s.flags[w] => QueuedBefore(r, w, x)
           /\ "QUEUED" \notin s.flags[w] => RunsBefore(r, w, x)
<1>0. s \in StateType /\ Matches(s)
  BY DEF Coherent
<1>1. PICK to, p, k : to = s.queue[w] /\ p = s.pending[to] /\ k = FlusherPlace(s, w, p)
  OBVIOUS
<1>2. /\ to \in Queues /\ p \in Seq(Entries) /\ Len(p) \in Nat
      /\ k \in 1..(Len(p) + 1)
      /\ "QUEUED" \in s.flags[w] => \E j \in 1..Len(p) : k = j + 1 /\ p[j] = w
      /\ queue_flusher_locked(s, w, x) = [s EXCEPT !.pending[to] = InsertAt(p, k, x)]
  BY <1>1, FlusherPlaced
<1>3. PICK n : n = InsertAt(p, k, x)
  OBVIOUS
<1>4. PICK a : a = [s EXCEPT !.pending[to] = n]
  OBVIOUS
<1>5. r = notify_queue_locked(a, to)
  BY <1>1, <1>2, <1>3, <1>4 DEF work_flush_locked
<1>6. a = [flags |-> s.flags, queue |-> s.queue, pending |-> [s.pending EXCEPT ![to] = n],
           worker |-> s.worker]
  BY <1>0, <1>4 DEF StateType
<1>7. r.flags = s.flags /\ r.queue = s.queue /\ r.pending = [s.pending EXCEPT ![to] = n]
  BY <1>5, <1>6 DEF notify_queue_locked
<1>8. r.pending[to] = n /\ \A m \in Queues : m # to => r.pending[m] = s.pending[m]
  BY <1>0, <1>2, <1>7 DEF StateType
<1>9. x \in Entries
  BY DEF Entries
<1>10. ASSUME NEW e \in ToSet(p) \cup {x} PROVE e \in ToSet(n)
  <2>1. /\ DOMAIN p = 1..Len(p) /\ DOMAIN n = 1..(Len(p) + 1) /\ n[k] = x
        /\ \A i \in 1..(k - 1) : n[i] = p[i]
        /\ \A i \in (k + 1)..(Len(p) + 1) : n[i] = p[i - 1]
    <3>1. Inserted(p, k, x, n)
      BY <1>2, <1>3, <1>9, InsertPositions
    <3> QED
      BY <3>1 DEF Inserted
  <2>2. CASE e = x
    BY <1>2, <2>1, <2>2 DEF ToSet
  <2>3. ASSUME NEW i \in 1..Len(p), p[i] = e PROVE e \in ToSet(n)
    <3>1. CASE i < k
      <4>1. i \in 1..(k - 1) /\ i \in 1..(Len(p) + 1)
        BY <1>2, <3>1
      <4> QED
        BY <2>1, <2>3, <4>1 DEF ToSet
    <3>2. CASE ~(i < k)
      <4>1. i + 1 \in (k + 1)..(Len(p) + 1) /\ i + 1 \in 1..(Len(p) + 1) /\ (i + 1) - 1 = i
        BY <1>2, <3>2
      <4>2. n[i + 1] = p[i]
        BY <2>1, <4>1
      <4> QED
        BY <2>1, <2>3, <4>1, <4>2 DEF ToSet
    <3> QED
      BY <3>1, <3>2
  <2> QED
    BY <1>10, <2>1, <2>2, <2>3 DEF ToSet
<1>11. ASSUME NEW v \in Works, NEW z \in Threads, QueuedBefore(s, v, z)
       PROVE  QueuedBefore(r, v, z)
  <2>1. PICK m \in Queues : m = s.queue[v] /\ Before(s.pending[m], v, z)
    BY <1>11 DEF QueuedBefore
  <2>2. Before(r.pending[m], v, z)
    <3>1. CASE m = to
      <4>1. Before(p, v, z)
        BY <1>1, <2>1, <3>1
      <4>2. Before(n, v, z)
        BY <1>2, <1>3, <1>9, <4>1, InsertOrder
      <4> QED
        BY <1>8, <3>1, <4>2
    <3>2. CASE m # to
      BY <1>8, <2>1, <3>2
    <3> QED
      BY <3>1, <3>2
  <2> QED
    BY <1>7, <1>11, <2>1, <2>2 DEF QueuedBefore
<1>12. ASSUME NEW v \in Works, NEW z \in Threads, RunsBefore(s, v, z)
       PROVE  RunsBefore(r, v, z)
  <2>1. PICK m \in Queues : m = s.queue[v] /\ z \in ToSet(s.pending[m])
    BY <1>12 DEF RunsBefore
  <2>2. z \in ToSet(r.pending[m])
    BY <1>1, <1>8, <1>10, <2>1
  <2> QED
    BY <1>7, <1>12, <2>1, <2>2 DEF RunsBefore
<1>13. SameOrder(s, r)
  BY <1>7, <1>11, <1>12 DEF SameOrder
<1>14. ASSUME "QUEUED" \in s.flags[w] PROVE QueuedBefore(r, w, x)
  <2>1. PICK j \in 1..Len(p) : k = j + 1 /\ p[j] = w
    BY <1>2, <1>14
  <2>2. Before(InsertAt(p, j + 1, x), p[j], x)
    BY <1>2, <1>9, InsertBehind
  <2>3. Before(n, w, x)
    BY <1>3, <2>1, <2>2
  <2> QED
    BY <1>1, <1>2, <1>7, <1>8, <1>14, <2>3 DEF QueuedBefore
<1>15. ASSUME "QUEUED" \notin s.flags[w] PROVE RunsBefore(r, w, x)
  <2>1. "RUNNING" \in s.flags[w]
    BY <1>15 DEF NeedsFlush
  <2>2. x \in ToSet(n)
    BY <1>10
  <2> QED
    BY <1>1, <1>2, <1>7, <1>8, <2>1, <2>2 DEF RunsBefore
<1> QED
  BY <1>7, <1>13, <1>14, <1>15

-----------------------------------------------------------------------------
(* What a flushing thread is owed is ahead of its flusher.                 *)

OwedBehind(o, s, c, z) ==
    o # "no" => /\ c.op = "flush" /\ c.pc = "wait" /\ c.work \in Works
                /\ o = "queued" => QueuedBefore(s, c.work, z)
                /\ o = "running" => RunsBefore(s, c.work, z)

OwedInv == \A z \in Threads : OwedBehind(owed[z], State, call[z], z)

(***************************************************************************)
(* How the history of a thread moves.                                      *)
(***************************************************************************)
LEMMA OwedMoves ==
    ASSUME OwedType, TrackFlush, NEW z \in Threads, NEW w, w = call'[z].work, owed'[z] # "no"
    PROVE  /\ call'[z].op = "flush" /\ call'[z].pc = "wait" /\ owed'[z] \in {"queued", "running"}
           /\ call[z].pc # "wait" =>
                /\ owed'[z] = "queued" => "QUEUED" \in flags'[w]
                /\ owed'[z] = "running" => "QUEUED" \notin flags'[w]
           /\ call[z].pc = "wait" =>
                /\ owed'[z] = "queued" => owed[z] = "queued" /\ "QUEUED" \in flags'[w]
                /\ owed'[z] = "running" =>
                     /\ "RUNNING" \in flags'[w]
                     /\ \/ owed[z] = "running"
                        \/ /\ owed[z] = "queued" /\ "QUEUED" \notin flags'[w]
                           /\ "RUNNING" \notin flags[w]
<1>1. PICK n, o : n = owed'[z] /\ o = owed[z]
  OBVIOUS
<1>2. PICK f, g : f = flags'[w] /\ g = flags[w]
  OBVIOUS
<1>3. n = IF call'[z].op # "flush" \/ call'[z].pc # "wait" THEN "no"
          ELSE IF call[z].pc # "wait" THEN IF "QUEUED" \in f THEN "queued" ELSE "running"
          ELSE IF o = "queued" /\ "QUEUED" \notin f
          THEN IF "RUNNING" \in f /\ "RUNNING" \notin g THEN "running" ELSE "no"
          ELSE IF o = "running" /\ "RUNNING" \notin f THEN "no" ELSE o
  BY <1>1, <1>2 DEF TrackFlush
<1>4. n # "no" /\ o \in {"no", "queued", "running"}
  BY <1>1 DEF OwedType
<1>5. /\ call'[z].op = "flush" /\ call'[z].pc = "wait" /\ n \in {"queued", "running"}
      /\ call[z].pc # "wait" =>
           (n = "queued" => "QUEUED" \in f) /\ (n = "running" => "QUEUED" \notin f)
      /\ call[z].pc = "wait" =>
           /\ n = "queued" => o = "queued" /\ "QUEUED" \in f
           /\ n = "running" => /\ "RUNNING" \in f
                               /\ \/ o = "running"
                                  \/ o = "queued" /\ "QUEUED" \notin f /\ "RUNNING" \notin g
  BY <1>3, <1>4
<1> QED
  BY <1>1, <1>2, <1>5

(***************************************************************************)
(* A thread that goes on waiting, while the lists keep their order.        *)
(***************************************************************************)
LEMMA OwedKept ==
    ASSUME OwedType, OwedInv, TrackFlush, NEW z \in Threads, SameOrder(State, State'),
           WaitsFor(z, "flush")' => call'[z] = call[z]
    PROVE  OwedBehind(owed'[z], State', call'[z], z)
<1>1. CASE owed'[z] = "no"
  BY <1>1 DEF OwedBehind
<1>2. CASE owed'[z] # "no"
  <2>1. PICK w, s, r : w = call'[z].work /\ s = State /\ r = State'
    OBVIOUS
  <2>2. s.flags = flags /\ r.flags = flags'
    BY <2>1 DEF State
  <2>3. call'[z].op = "flush" /\ call'[z].pc = "wait" /\ owed'[z] \in {"queued", "running"}
    BY <1>2, OwedMoves
  <2>4. call[z].pc = "wait" /\ call[z].work = w
    BY <2>1, <2>3 DEF WaitsFor
  <2>5. /\ owed'[z] = "queued" => owed[z] = "queued" /\ "QUEUED" \in flags'[w]
        /\ owed'[z] = "running" =>
             /\ "RUNNING" \in flags'[w]
             /\ \/ owed[z] = "running"
                \/ owed[z] = "queued" /\ "QUEUED" \notin flags'[w] /\ "RUNNING" \notin flags[w]
    BY <1>2, <2>1, <2>4, OwedMoves
  <2>6. owed[z] # "no"
    BY <2>3, <2>5
  <2>7. /\ w \in Works
        /\ owed[z] = "queued" => QueuedBefore(s, w, z)
        /\ owed[z] = "running" => RunsBefore(s, w, z)
    BY <2>1, <2>4, <2>6 DEF OwedInv, OwedBehind
  <2>8. /\ QueuedBefore(s, w, z) /\ "QUEUED" \in flags'[w] => QueuedBefore(r, w, z)
        /\ RunsBefore(s, w, z) /\ "RUNNING" \in flags'[w] => RunsBefore(r, w, z)
        /\ "RUNNING" \in flags'[w] => "RUNNING" \in flags[w]
    BY <2>1, <2>2, <2>7 DEF SameOrder
  <2>9. /\ owed'[z] = "queued" => QueuedBefore(r, w, z)
        /\ owed'[z] = "running" => RunsBefore(r, w, z)
    BY <2>5, <2>7, <2>8
  <2> QED
    BY <2>1, <2>3, <2>7, <2>9 DEF OwedBehind
<1> QED
  BY <1>1, <1>2

(***************************************************************************)
(* A record that only lost DELAYED.                                        *)
(***************************************************************************)
LEMMA ClaimsOrder ==
    ASSUME NEW s, Claims(s)
    PROVE  SameOrder(State, s)
<1>1. s.queue = State.queue /\ s.pending = State.pending
      /\ \A v \in Works : "RUNNING" \in s.flags[v] => "RUNNING" \in State.flags[v]
  BY DEF Claims, State
<1> QED
  BY <1>1, FlagsOrder

(***************************************************************************)
(* Two changes in a row, when no item leaves a list and comes back.        *)
(***************************************************************************)
LEMMA OrderAgain ==
    ASSUME NEW s, NEW u, NEW r, SameOrder(s, u), SameOrder(u, r),
           \A v \in Works : "QUEUED" \in s.flags[v] /\ "QUEUED" \in r.flags[v]
                               => "QUEUED" \in u.flags[v]
    PROVE  SameOrder(s, r)
  BY DEF SameOrder, QueuedBefore, RunsBefore

\* A thread that stops waiting for a flush is owed nothing.
FlushDone == \A z \in Threads : WaitsFor(z, "flush") /\ call'[z] # call[z] => owed[z] = "no"

(***************************************************************************)
(* The operations on items: one thread may begin to wait, and its flusher  *)
(* is put behind the item.                                                 *)
(***************************************************************************)
LEMMA ItemOwed ==
    ASSUME WInv, OwedType, OwedInv, TrackFlush, NEW x \in Callers, ItemShape(x)
    PROVE  OwedInv' /\ FlushDone
<1>a. PICK w \in Works, q \in Queues \cup {None}, d \in {"now", "later", "forever"} :
        \E op, s, act, claimed : Shape(x, w, op, q, d, s, act, claimed)
  BY DEF ItemShape
<1>0. PICK op, s, act, claimed : Shape(x, w, op, q, d, s, act, claimed)
  BY <1>a
<1>1. /\ Claims(s) /\ s \in StateType /\ Coherent(s) /\ call \in [Callers -> CallRec]
      /\ Idle.pc = "idle" /\ Threads \subseteq Callers
  BY <1>0 DEF Shape, Claims, Kept, Coherent, WInv, CallInv, Idle, Callers
<1>2. call[x].pc # "wait" /\ SameOrder(State, s)
  BY <1>0, <1>1, ClaimsOrder DEF Shape
<1>3. \A v \in Works : "QUEUED" \in s.flags[v] <=> "QUEUED" \in State.flags[v]
  BY <1>1 DEF Claims, State
<1>4. ASSUME NEW r, Commit(r), SameOrder(s, r) PROVE SameOrder(State, State')
  <2>1. SameOrder(State, r)
    BY <1>2, <1>3, <1>4, OrderAgain
  <2>2. State'.flags = r.flags /\ State'.queue = r.queue /\ State'.pending = r.pending
    BY <1>4 DEF Commit, State
  <2>3. \A v \in Works, z \in Threads :
          /\ QueuedBefore(State', v, z) <=> QueuedBefore(r, v, z)
          /\ RunsBefore(State', v, z) <=> RunsBefore(r, v, z)
    BY <2>2 DEF QueuedBefore, RunsBefore
  <2> QED
    BY <2>1, <2>2, <2>3 DEF SameOrder
<1>5. ASSUME NEW c, call' = [call EXCEPT ![x] = c]
      PROVE  call'[x] = c /\ FlushDone /\ \A z \in Callers : z # x => call'[z] = call[z]
  <2>1. call'[x] = c /\ \A z \in Callers : z # x => call'[z] = call[z]
    BY <1>1, <1>5
  <2> QED
    BY <1>1, <1>2, <2>1 DEF FlushDone, WaitsFor
<1>6. ASSUME NEW c, call' = [call EXCEPT ![x] = c], c.pc # "wait" \/ c.op # "flush",
             SameOrder(State, State')
      PROVE  OwedInv' /\ FlushDone
  <2>1. call'[x] = c /\ FlushDone /\ \A z \in Callers : z # x => call'[z] = call[z]
    BY <1>5, <1>6
  <2>2. \A z \in Threads : WaitsFor(z, "flush")' => call'[z] = call[z]
    BY <1>1, <1>6, <2>1 DEF WaitsFor
  <2>3. \A z \in Threads : OwedBehind(owed'[z], State', call'[z], z)
    BY <1>6, <2>2, OwedKept
  <2> QED
    BY <2>1, <2>3 DEF OwedInv
<1>7. ASSUME Returns(x), SameOrder(State, State') PROVE OwedInv' /\ FlushDone
  <2>1. call' = [call EXCEPT ![x] = Idle] /\ Idle.pc # "wait"
    BY <1>1, <1>7 DEF Returns
  <2> QED
    BY <1>6, <1>7, <2>1
<1>8. CASE \/ Rest(x, op, w, q, d, s, act, claimed)
           \/ op = "schedule" /\ schedule_for_queue_locked(x, s, act, w, q, d)
  <2>1. PICK r : Ends(x, op, w, q, s, claimed, r)
    BY <1>8, RestEnds
  <2>2. Commit(r)
    BY <2>1 DEF Ends
  <2>3. CASE EndsSubmit(x, w, q, s, r)
    <3>1. r = submit_to_queue_locked(x, s, w, q) /\ Returns(x)
      BY <2>3 DEF EndsSubmit
    <3>2. SameOrder(s, r)
      BY <1>1, <3>1, SubmitOrder
    <3> QED
      BY <1>4, <1>7, <2>2, <3>1, <3>2
  <2>4. CASE EndsDelayed(x, w, s, r)
    <3>1. r = [s EXCEPT !.flags[w] = @ \cup {"DELAYED"}] /\ Returns(x)
      BY <2>4 DEF EndsDelayed
    <3>2. /\ r.flags = [s.flags EXCEPT ![w] = @ \cup {"DELAYED"}]
          /\ r.queue = s.queue /\ r.pending = s.pending
      BY <1>1, <3>1 DEF StateType
    <3>3. \A v \in Works : "RUNNING" \in r.flags[v] => "RUNNING" \in s.flags[v]
      BY <1>1, <3>2 DEF StateType
    <3>4. SameOrder(s, r)
      BY <3>2, <3>3, FlagsOrder
    <3> QED
      BY <1>4, <1>7, <2>2, <3>1, <3>4
  <2>5. CASE EndsCancel(x, op, w, s, r)
    <3>1. /\ r = cancel_async_locked(s, w)
          /\ Returns(x) \/ Waits(x, "cancel_sync", w, None)
      BY <2>5 DEF EndsCancel
    <3>2. SameOrder(State, State')
      BY <1>1, <1>4, <2>2, <3>1, CancelOrder
    <3>3. ASSUME Waits(x, "cancel_sync", w, None) PROVE OwedInv' /\ FlushDone
      <4>1. PICK c : c = [Idle EXCEPT !.op = "cancel_sync", !.pc = "wait", !.work = w,
                                      !.queue = None]
        OBVIOUS
      <4>2. call' = [call EXCEPT ![x] = c] /\ c.op # "flush"
        BY <3>3, <4>1 DEF Waits, Idle
      <4> QED
        BY <1>6, <3>2, <4>2
    <3> QED
      BY <1>7, <3>1, <3>2, <3>3
  <2>6. CASE EndsFlush(x, op, w, s, claimed, r)
    <3>1. PICK k : k = delay_queue[w]
      OBVIOUS
    <3>2. PICK u : /\ u = IF claimed THEN submit_to_queue_locked(x, s, w, k) ELSE s
                   /\ r = work_flush_locked(u, w, x) /\ op = "flush"
                   /\ IF NeedsFlush(u, w) THEN Waits(x, "flush", w, None) ELSE Returns(x)
      BY <2>6, <3>1 DEF EndsFlush
    <3>3. k \in Queues \cup {None} /\ x \in Threads
      BY <1>0, <3>1, <3>2 DEF WInv, DataType, Shape
    <3>4. /\ SameOrder(s, u) /\ Coherent(u)
          /\ \A v \in Works : "QUEUED" \in s.flags[v] => "QUEUED" \in u.flags[v]
      <4>1. CASE claimed
        BY <1>1, <3>2, <3>3, <4>1, SubmitOrder, SubmitCoherent
      <4>2. CASE ~claimed
        <5>1. u = s /\ SameOrder(s, s)
          BY <3>2, <4>2, FlagsOrder
        <5> QED
          BY <1>1, <5>1
      <4> QED
        BY <4>1, <4>2
    <3>5. CASE ~NeedsFlush(u, w)
      <4>1. r = u /\ Returns(x)
        BY <3>2, <3>5 DEF work_flush_locked
      <4> QED
        BY <1>4, <1>7, <2>2, <3>4, <4>1
    <3>6. CASE NeedsFlush(u, w)
      <4>1. /\ SameOrder(u, r) /\ r.flags = u.flags
            /\ "QUEUED" \in u.flags[w] => QueuedBefore(r, w, x)
            /\ "QUEUED" \notin u.flags[w] => RunsBefore(r, w, x)
        BY <3>2, <3>3, <3>4, <3>6, FlushOrder
      <4>2. SameOrder(s, r)
        BY <3>4, <4>1, OrderAgain
      <4>3. SameOrder(State, State')
        BY <1>4, <2>2, <4>2
      <4>4. PICK c : c = [Idle EXCEPT !.op = "flush", !.pc = "wait", !.work = w, !.queue = None]
        OBVIOUS
      <4>5. call' = [call EXCEPT ![x] = c] /\ c.op = "flush" /\ c.pc = "wait" /\ c.work = w
        BY <3>2, <3>6, <4>4 DEF Waits, Idle
      <4>6. call'[x] = c /\ FlushDone /\ \A z \in Callers : z # x => call'[z] = call[z]
        BY <1>5, <4>5
      <4>7. State'.flags = r.flags /\ State'.queue = r.queue /\ State'.pending = r.pending
            /\ flags' = r.flags
        BY <2>2 DEF Commit, State
      <4>8. /\ "QUEUED" \in flags'[w] => QueuedBefore(State', w, x)
            /\ "QUEUED" \notin flags'[w] => RunsBefore(State', w, x)
        BY <4>1, <4>7 DEF QueuedBefore, RunsBefore
      <4>9. OwedBehind(owed'[x], State', call'[x], x)
        <5>1. CASE owed'[x] = "no"
          BY <5>1 DEF OwedBehind
        <5>2. CASE owed'[x] # "no"
          <6>1. /\ call'[x].op = "flush" /\ call'[x].pc = "wait"
                /\ owed'[x] = "queued" => "QUEUED" \in flags'[w]
                /\ owed'[x] = "running" => "QUEUED" \notin flags'[w]
            BY <1>2, <3>3, <4>5, <4>6, <5>2, OwedMoves
          <6> QED
            BY <4>5, <4>6, <4>8, <6>1 DEF OwedBehind
        <5> QED
          BY <5>1, <5>2
      <4>10. ASSUME NEW z \in Threads, z # x PROVE OwedBehind(owed'[z], State', call'[z], z)
        <5>1. call'[z] = call[z]
          BY <1>1, <4>6, <4>10
        <5> QED
          BY <4>3, <5>1, OwedKept
      <4> QED
        BY <4>6, <4>9, <4>10 DEF OwedInv
    <3> QED
      BY <3>5, <3>6
  <2> QED
    BY <2>1, <2>3, <2>4, <2>5, <2>6 DEF Ends
<1>9. CASE /\ Commit(s)
           /\ call' = [call EXCEPT ![x] = [op |-> op, pc |-> "retry", work |-> w,
                                           queue |-> q, delay |-> d]]
  <2>1. PICK c : c = [op |-> op, pc |-> "retry", work |-> w, queue |-> q, delay |-> d]
    OBVIOUS
  <2>2. call' = [call EXCEPT ![x] = c] /\ c.pc # "wait"
    BY <1>9, <2>1
  <2>3. SameOrder(State, State')
    BY <1>4, <1>9, FlagsOrder
  <2> QED
    BY <1>6, <2>2, <2>3
<1> QED
  BY <1>0, <1>8, <1>9 DEF Shape

(***************************************************************************)
(* A queue thread takes an entry: an item that was owed as queued is now   *)
(* owed as running, and its flusher is left in the list.                   *)
(***************************************************************************)
LEMMA TakeOwed ==
    ASSUME WInv, OwedType, OwedInv, TrackFlush, NEW q \in Queues, WorkerTakes(q)
    PROVE  OwedInv' /\ FlushDone
<1>0. /\ State \in StateType /\ Matches(State) /\ HandlerHasItem(State)
      /\ pending \in [Queues -> Seq(Entries)]
      /\ flags \in [Works -> SUBSET {"QUEUED", "RUNNING", "CANCELING", "DELAYED"}]
  BY DEF WInv, Coherent, State, StateType
<1>1. PICK p, i : p = pending[q] /\ i = Head(p)
  OBVIOUS
<1>2. /\ worker[q] = "ready" /\ p # <<>> /\ p \in Seq(Entries) /\ Distinct(p)
      /\ pending' = [pending EXCEPT ![q] = Tail(p)]
      /\ flags' = IF i \in Works
                  THEN [flags EXCEPT ![i] = (@ \cup {"RUNNING"}) \ {"QUEUED"}] ELSE flags
      /\ queue' = queue /\ call' = call
  BY <1>0, <1>1 DEF WorkerTakes, Matches, State
<1>3. i \in ToSet(p) /\ ToSet(Tail(p)) = ToSet(p) \ {i}
  BY <1>1, <1>2, TailDistinct
<1>4. pending'[q] = Tail(p) /\ \A k \in Queues : k # q => pending'[k] = pending[k]
  BY <1>0, <1>2
<1>5. /\ i \in Works => flags'[i] = (flags[i] \cup {"RUNNING"}) \ {"QUEUED"}
      /\ \A v \in Works : v # i => flags'[v] = flags[v]
  BY <1>0, <1>2
<1>6. PICK s, r : s = State /\ r = State'
  OBVIOUS
<1>7. /\ s.flags = flags /\ s.queue = queue /\ s.pending = pending /\ s.worker = worker
      /\ r.flags = flags' /\ r.queue = queue /\ r.pending = pending'
  BY <1>2, <1>6 DEF State
<1>8. ASSUME NEW v \in Works, NEW z \in Threads, QueuedBefore(s, v, z), "QUEUED" \in flags'[v]
      PROVE  QueuedBefore(r, v, z)
  <2>1. PICK k \in Queues : k = queue[v] /\ Before(pending[k], v, z)
    BY <1>7, <1>8 DEF QueuedBefore
  <2>2. v # i
    BY <1>5, <1>8
  <2>3. Before(pending'[k], v, z)
    <3>1. CASE k = q
      <4>1. Before(Tail(p), v, z)
        BY <1>1, <1>2, <2>1, <2>2, <3>1, TailOrder
      <4> QED
        BY <1>4, <3>1, <4>1
    <3>2. CASE k # q
      BY <1>4, <2>1, <3>2
    <3> QED
      BY <3>1, <3>2
  <2> QED
    BY <1>7, <1>8, <2>1, <2>3 DEF QueuedBefore
<1>9. ASSUME NEW v \in Works, NEW z \in Threads, RunsBefore(s, v, z), "RUNNING" \in flags'[v]
      PROVE  RunsBefore(r, v, z)
  <2>1. PICK k \in Queues : k = queue[v] /\ z \in ToSet(pending[k]) /\ "RUNNING" \in flags[v]
    BY <1>7, <1>9 DEF RunsBefore
  <2>2. current[k] = v
    BY <1>0, <2>1 DEF Matches, State
  <2>3. k # q
    BY <1>0, <1>2, <2>2, NotNone DEF HandlerHasItem, State
  <2> QED
    BY <1>4, <1>7, <1>9, <2>1, <2>3 DEF RunsBefore
<1>10. ASSUME NEW v \in Works, NEW z \in Threads, QueuedBefore(s, v, z), "QUEUED" \notin flags'[v],
              "RUNNING" \in flags'[v]
       PROVE  RunsBefore(r, v, z)
  <2>1. PICK k \in Queues : /\ k = queue[v] /\ Before(pending[k], v, z)
                            /\ "QUEUED" \in flags[v]
    BY <1>7, <1>10 DEF QueuedBefore
  <2>2. v = i
    BY <1>5, <1>10, <2>1
  <2>3. k = q
    <3>1. i \in ToSet(pending[q])
      BY <1>1, <1>3
    <3> QED
      BY <1>0, <2>1, <2>2, <3>1 DEF Matches, State
  <2>4. z \in ToSet(p) /\ z # i
    <3>1. z \in ToSet(p)
      BY <1>1, <2>1, <2>3 DEF Before, ToSet
    <3> QED
      BY <2>2, <3>1, WorkAssumption DEF Callers
  <2>5. z \in ToSet(pending'[k])
    BY <1>3, <1>4, <2>3, <2>4
  <2> QED
    BY <1>7, <1>10, <2>1, <2>5 DEF RunsBefore
<1>11. ASSUME NEW z \in Threads, owed'[z] # "no"
       PROVE  OwedBehind(owed'[z], r, call'[z], z)
  <2>1. PICK w : w = call[z].work
    OBVIOUS
  <2>2. w = call'[z].work
    BY <1>2, <2>1
  <2>3. call'[z].op = "flush" /\ call'[z].pc = "wait" /\ owed'[z] \in {"queued", "running"}
    BY <1>11, OwedMoves
  <2>4. call[z].pc = "wait"
    BY <1>2, <2>3
  <2>5. /\ owed'[z] = "queued" => owed[z] = "queued" /\ "QUEUED" \in flags'[w]
        /\ owed'[z] = "running" =>
             /\ "RUNNING" \in flags'[w]
             /\ owed[z] = "running" \/ (owed[z] = "queued" /\ "QUEUED" \notin flags'[w])
    BY <1>11, <2>2, <2>4, OwedMoves
  <2>6. /\ w \in Works
        /\ owed[z] = "queued" => QueuedBefore(s, w, z)
        /\ owed[z] = "running" => RunsBefore(s, w, z)
    BY <1>6, <2>1, <2>3, <2>5 DEF OwedInv, OwedBehind
  <2>7. /\ owed'[z] = "queued" => QueuedBefore(r, w, z)
        /\ owed'[z] = "running" => RunsBefore(r, w, z)
    BY <1>8, <1>9, <1>10, <2>5, <2>6
  <2> QED
    BY <2>2, <2>3, <2>6, <2>7 DEF OwedBehind
<1>12. OwedInv'
  BY <1>6, <1>11 DEF OwedInv, OwedBehind
<1> QED
  BY <1>2, <1>12 DEF FlushDone

(***************************************************************************)
(* A handler returned: a thread that is released from a flush is the one   *)
(* whose flusher was handled, so it is in no list and is owed nothing.     *)
(***************************************************************************)
LEMMA ReturnOwed ==
    ASSUME WInv, OwedType, OwedInv, TrackFlush, NEW q \in Queues, WorkHandlerReturns(q)
    PROVE  OwedInv' /\ FlushDone
<1>0. /\ flags \in [Works -> SUBSET {"QUEUED", "RUNNING", "CANCELING", "DELAYED"}]
      /\ Threads \subseteq Callers /\ Idle.pc = "idle"
  BY DEF WInv, Coherent, State, StateType, Callers, Idle
<1>1. \A x \in Callers : \/ call'[x] = call[x]
                         \/ /\ call'[x] = Idle
                            /\ call[x].op = "flush" => current[q] = x
  BY ReturnCalls
<1>2. \A v \in Works : "RUNNING" \in flags'[v] => "RUNNING" \in flags[v]
  <2>1. CASE current[q] \in Works
    <3>1. PICK w \in Works : w = current[q]
      BY <2>1
    <3>2. flags' = [flags EXCEPT ![w] = @ \ {"RUNNING", "CANCELING"}]
      BY <3>1 DEF WorkHandlerReturns, finalize_cancel_locked
    <3> QED
      BY <1>0, <3>2
  <2>2. CASE current[q] \notin Works
    BY <2>2 DEF WorkHandlerReturns, finalize_flush_locked
  <2> QED
    BY <2>1, <2>2
<1>3. SameOrder(State, State')
  <2>1. PICK s, r : s = State /\ r = State'
    OBVIOUS
  <2>2. r.queue = s.queue /\ r.pending = s.pending /\ s.flags = flags /\ r.flags = flags'
    BY <2>1 DEF State, WorkHandlerReturns
  <2>3. SameOrder(s, r)
    BY <1>2, <2>2, FlagsOrder
  <2> QED
    BY <2>1, <2>3
<1>4. \A z \in Threads : WaitsFor(z, "flush")' => call'[z] = call[z]
  BY <1>0, <1>1 DEF WaitsFor
<1>5. OwedInv'
  BY <1>3, <1>4, OwedKept DEF OwedInv
<1>6. ASSUME NEW z \in Threads, WaitsFor(z, "flush"), call'[z] # call[z], owed[z] # "no"
      PROVE  FALSE
  <2>1. current[q] = z
    BY <1>0, <1>1, <1>6 DEF WaitsFor
  <2>2. PICK w : w = call[z].work
    OBVIOUS
  <2>3. QueuedBefore(State, w, z) \/ RunsBefore(State, w, z)
    BY <1>6, <2>2 DEF OwedType, OwedInv, OwedBehind
  <2>4. queue[w] \in Queues /\ z \in ToSet(pending[queue[w]])
    BY <2>3 DEF QueuedBefore, RunsBefore, Before, ToSet, State
  <2> QED
    BY <2>1, <2>4 DEF WInv, FlushInv
<1> QED
  BY <1>5, <1>6 DEF FlushDone

(***************************************************************************)
(* The other steps leave the lists alone, but for a submission by          *)
(* work_timeout(), and release no thread from a flush.                     *)
(***************************************************************************)
LEMMA QueueCallsRelease ==
    ASSUME WInv, NEW x \in Callers,
           (\E q \in Queues : QueueCall(x, q)) \/ StopReturns(x)
    PROVE  /\ \A z \in Callers : call'[z] = call[z] \/ call[z].op \in {"none", "stop"}
           /\ UNCHANGED <<flags, queue, pending>>
<1>0. call \in [Callers -> CallRec] /\ Idle.op = "none"
  BY DEF WInv, CallInv, Idle
<1>1. UNCHANGED <<flags, queue, pending>>
  BY DEF QueueCall, k_work_queue_drain, k_work_queue_unplug, k_work_queue_stop,
         StopReturns, Commit, State, notify_queue_locked
<1>2. \/ call' = call
      \/ call[x].op \in {"none", "stop"} /\ \A z \in Callers : z # x => call'[z] = call[z]
  <2>1. CASE StopReturns(x)
    BY <1>0, <2>1 DEF StopReturns, Returns
  <2>2. ASSUME NEW q \in Queues, QueueCall(x, q)
        PROVE  \/ call' = call
               \/ call[x].op \in {"none", "stop"} /\ \A z \in Callers : z # x => call'[z] = call[z]
    <3>1. call' = call \/ (call[x] = Idle /\ \E op \in {"drain", "stop"} : Waits(x, op, None, q))
      BY <2>2 DEF QueueCall, k_work_queue_drain, k_work_queue_unplug, k_work_queue_stop, May
    <3>2. ASSUME NEW op, Waits(x, op, None, q)
          PROVE  \A z \in Callers : z # x => call'[z] = call[z]
      <4>1. PICK c : call' = [call EXCEPT ![x] = c]
        BY <3>2 DEF Waits
      <4> QED
        BY <1>0, <4>1
    <3> QED
      BY <1>0, <3>1, <3>2
  <2> QED
    BY <2>1, <2>2
<1>3. \A z \in Callers : call'[z] = call[z] \/ call[z].op \in {"none", "stop"}
  BY <1>0, <1>2
<1> QED
  BY <1>1, <1>3

(***************************************************************************)
(* Such a step.                                                            *)
(***************************************************************************)
LEMMA OtherOwed ==
    ASSUME WInv, OwedType, OwedInv, TrackFlush, SameOrder(State, State'),
           \A z \in Threads : WaitsFor(z, "flush") \/ WaitsFor(z, "flush")' => call'[z] = call[z]
    PROVE  OwedInv' /\ FlushDone
<1>1. OwedInv'
  BY OwedKept DEF OwedInv
<1> QED
  BY <1>1 DEF FlushDone

(***************************************************************************)
(* Every step.                                                             *)
(***************************************************************************)
LEMMA FlushWaitStep ==
    ASSUME WInv, OwedType, OwedInv, [Next]_vars
    PROVE  OwedInv' /\ FlushDone
<1>0. Idle.op = "none" /\ Idle.pc = "idle" /\ Threads \subseteq Callers
  BY DEF Idle, Callers
<1>1. CASE UNCHANGED vars
  <2>1. UNCHANGED <<call, owed, State>>
    BY <1>1 DEF vars, workVars, State
  <2> QED
    BY <2>1 DEF OwedInv, FlushDone
<1>2. ASSUME UNCHANGED <<flags, queue, pending>> PROVE SameOrder(State, State')
  <2>1. PICK s, r : s = State /\ r = State'
    OBVIOUS
  <2>2. r.flags = s.flags /\ r.queue = s.queue /\ r.pending = s.pending
    BY <1>2, <2>1 DEF State
  <2>3. SameOrder(s, r)
    BY <2>2, FlagsOrder
  <2> QED
    BY <2>1, <2>3
<1>3. ASSUME TrackFlush, NEW x \in Callers, NEW c \in Cpus, ItemCall(x, c) \/ unschedule_locked(x, c)
      PROVE  OwedInv' /\ FlushDone
  BY <1>3, ItemHasShape, ItemOwed
<1>4. ASSUME TrackFlush, NEW x \in Callers,
             (\E q \in Queues : QueueCall(x, q)) \/ StopReturns(x)
      PROVE  OwedInv' /\ FlushDone
  <2>1. /\ \A z \in Callers : call'[z] = call[z] \/ call[z].op \in {"none", "stop"}
        /\ UNCHANGED <<flags, queue, pending>>
    BY <1>4, QueueCallsRelease
  <2>2. \A z \in Callers : \/ call'[z] = call[z]
                           \/ call'[z].op \in ({"drain", "stop"} \cap Ops[z]) \cup {"none"}
    BY <1>4, QueueCallsWait
  <2>3. \A z \in Threads : WaitsFor(z, "flush") \/ WaitsFor(z, "flush")' => call'[z] = call[z]
    BY <1>0, <2>1, <2>2 DEF WaitsFor
  <2> QED
    BY <1>2, <1>4, <2>1, <2>3, OtherOwed
<1>5. ASSUME TrackFlush, NEW q \in Queues, WorkerStep(q) PROVE OwedInv' /\ FlushDone
  <2>1. CASE WorkerTakes(q)
    BY <1>5, <2>1, TakeOwed
  <2>2. CASE WorkHandlerReturns(q)
    BY <1>5, <2>2, ReturnOwed
  <2>3. CASE WorkerIdles(q)
    <3>1. /\ \A x \in Callers : call'[x] = call[x] \/ (call[x].op = "drain" /\ call'[x] = Idle)
          /\ UNCHANGED <<flags, queue, pending>>
      BY <2>3 DEF WorkerIdles
    <3>2. \A z \in Threads : WaitsFor(z, "flush") \/ WaitsFor(z, "flush")' => call'[z] = call[z]
      BY <1>0, <3>1 DEF WaitsFor
    <3> QED
      BY <1>2, <1>5, <3>1, <3>2, OtherOwed
  <2> QED
    BY <1>5, <2>1, <2>2, <2>3 DEF WorkerStep
<1>6. ASSUME TrackFlush, (\E c \in Cpus : TimeoutPopped(c)) \/ work_timeout
      PROVE  OwedInv' /\ FlushDone
  <2>1. UNCHANGED call
    BY <1>6 DEF TimeoutPopped, work_timeout
  <2>2. SameOrder(State, State')
    <3>1. CASE \E c \in Cpus : TimeoutPopped(c)
      BY <1>2, <3>1 DEF TimeoutPopped
    <3>2. CASE work_timeout /\ "DELAYED" \notin flags[inflight_timeout]
      BY <1>2, <3>2 DEF work_timeout, Commit, State
    <3>3. CASE work_timeout /\ "DELAYED" \in flags[inflight_timeout]
      <4>1. PICK w, x : w = inflight_timeout /\ x = None
        OBVIOUS
      <4>2. PICK s, q : s = [State EXCEPT !.flags[w] = @ \ {"DELAYED"}] /\ q = delay_queue[w]
        OBVIOUS
      <4>3. w \in Works /\ q \in Queues \cup {None}
        BY <3>3, <4>1, <4>2 DEF WInv, DispatchInv, DataType, work_timeout
      <4>4. PICK r : r = submit_to_queue_locked(x, s, w, q) /\ Commit(r)
        BY <3>3, <4>1, <4>2 DEF work_timeout
      <4>5. Claims(s) /\ Coherent(s)
        BY <4>2, <4>3, ClaimsState DEF Claims, Kept
      <4>6. SameOrder(State, s) /\ SameOrder(s, r)
        BY <4>3, <4>4, <4>5, ClaimsOrder, SubmitOrder
      <4>7. \A v \in Works : "QUEUED" \in State.flags[v] /\ "QUEUED" \in r.flags[v]
                               => "QUEUED" \in s.flags[v]
        BY <4>5 DEF Claims, State
      <4>8. SameOrder(State, r)
        BY <4>6, <4>7, OrderAgain
      <4>9. PICK n : n = State'
        OBVIOUS
      <4>10. n.flags = r.flags /\ n.queue = r.queue /\ n.pending = r.pending
        BY <4>4, <4>9 DEF Commit, State
      <4>11. SameOrder(State, n)
        BY <4>8, <4>10 DEF SameOrder, QueuedBefore, RunsBefore
      <4> QED
        BY <4>9, <4>11
    <3> QED
      BY <1>6, <3>1, <3>2, <3>3
  <2> QED
    BY <1>6, <2>1, <2>2, OtherOwed
<1> QED
  BY <1>1, <1>3, <1>4, <1>5, <1>6 DEF Next, CallerStep, History

(***************************************************************************)
(* k_work_flush() releases a thread only after the submission that was the *)
(* last when it called has been handled or cancelled: the flusher never    *)
(* overtakes the item, whoever resubmits, cancels or flushes meanwhile.    *)
(***************************************************************************)
THEOREM WorkFlushWaits == Spec => FlushWaits
<1>1. Init => WInv /\ OwedType /\ OwedInv
  <2> SUFFICES ASSUME Init PROVE WInv /\ OwedType /\ OwedInv
    OBVIOUS
  <2>1. OwedType /\ OwedInv
    BY DEF Init, OwedType, OwedInv, OwedBehind
  <2> QED
    BY <2>1, WorkInit
<1>2. WInv /\ OwedType /\ OwedInv /\ [Next]_vars => (WInv /\ OwedType /\ OwedInv)'
  BY WorkStep, OwedStep, FlushWaitStep DEF StepOK
<1>3. WInv /\ OwedType /\ OwedInv /\ [Next]_vars
        => [\A x \in Threads :
              call[x].op = "flush" /\ call[x].pc = "wait" /\ call'[x] = Idle
                => owed[x] = "no"]_vars
  <2> SUFFICES ASSUME WInv, OwedType, OwedInv, [Next]_vars, NEW x \in Threads,
                      call[x].op = "flush", call[x].pc = "wait", call'[x] = Idle
               PROVE  owed[x] = "no"
    OBVIOUS
  <2>1. call'[x] # call[x]
    BY DEF Idle
  <2> QED
    BY <2>1, FlushWaitStep DEF FlushDone, WaitsFor
<1> QED
  BY <1>1, <1>2, <1>3, PTL DEF Spec, FlushWaits

=============================================================================

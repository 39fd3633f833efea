-------------------------- MODULE TimerListProofs --------------------------
(* What holds of the timers of src/src/mnet_core.c for every number of       *)
(* channs, every height of a node and every interval: the skip list stays    *)
(* one, a timer does not outlive its chann, the cursor is not left on a      *)
(* freed node by the library itself, no timer is reported early, and the     *)
(* list with its cursor implements TimerService.                             *)
(*                                                                           *)
(* The first two parts are about lists: what removing and inserting do to    *)
(* the order of a list, and that the search of skiplist_insert() finds on    *)
(* every level the first node that is not earlier (EndAtIs).  Then come two  *)
(* inductive invariants, TimersOK, which does not depend on the order, and   *)
(* ListOK, which adds the shape of the list; what the cursor has yet to hand *)
(* out, in terms of that order; and one lemma per action for the refinement. *)
EXTENDS TimerList, FiniteSetTheorems, SequenceTheorems, TLAPS

-----------------------------------------------------------------------------
(* Lists *)

(* No element occurs twice *)
Once(s) == \A i, j \in DOMAIN s : s[i] = s[j] => i = j

(* The k-th of a set of places. *)
LEMMA NthIs ==
  ASSUME NEW D \in SUBSET Nat, IsFiniteSet(D), NEW k \in 1..Cardinality(D)
  PROVE  NthOf(D, k) \in D /\ Cardinality({j \in D : j <= NthOf(D, k)}) = k
  <1> DEFINE Up(i) == {j \in D : j <= i}
             f == [i \in D |-> Cardinality(Up(i))]
             m == Cardinality(D)
  <1>1. m \in Nat
    BY FS_CardinalityType
  <1>2. \A i \in D : Up(i) \in SUBSET D /\ i \in Up(i)
    OBVIOUS
  <1>3. ASSUME NEW i \in D
        PROVE  IsFiniteSet(Up(i)) /\ Cardinality(Up(i)) \in 1..m
    <2>1. IsFiniteSet(Up(i)) /\ Cardinality(Up(i)) <= m
      BY <1>2, FS_Subset
    <2>2. Cardinality(Up(i)) \in Nat /\ Cardinality(Up(i)) # 0
      BY <1>2, <2>1, FS_CardinalityType, FS_EmptySet
    <2> QED BY ONLY <1>1, <2>1, <2>2
  <1>4. ASSUME NEW i \in D, NEW j \in D, i <= j, Cardinality(Up(i)) = Cardinality(Up(j))
        PROVE  i = j
    <2>1. ASSUME NEW a \in D, a <= i PROVE a <= j
      <3>1. a \in Nat /\ i \in Nat /\ j \in Nat /\ i <= j
        BY <1>4
      <3> QED BY ONLY <2>1, <3>1
    <2>2. Up(i) \in SUBSET Up(j)
      BY <2>1
    <2>3. Up(i) = Up(j)
      BY ONLY <1>3, <1>4, <2>2, FS_Subset
    <2>4. j <= i
      BY <1>2, <2>3
    <2> QED BY ONLY <1>4, <2>4, D \in SUBSET Nat
  <1>5. f \in [D -> 1..m] /\ \A i \in D : f[i] = Cardinality(Up(i))
    BY <1>3
  <1>6. \A i, j \in D : i <= j \/ j <= i
    OBVIOUS
  <1> HIDE DEF f, Up
  <1>7. \A i, j \in D : f[i] = f[j] => i = j
    BY ONLY <1>4, <1>5, <1>6
  <1>8. f \in Injection(D, 1..m)
    BY ONLY <1>5, <1>7 DEF Injection, IsInjective
  <1>9. IsFiniteSet(1..m) /\ Cardinality(1..m) = m
    <2>1. 1 \in Int /\ m \in Int
      BY ONLY <1>1
    <2>2. IsFiniteSet(1..m) /\ Cardinality(1..m) = IF 1 > m THEN 0 ELSE m - 1 + 1
      BY ONLY <2>1, FS_Interval
    <2> QED BY ONLY <1>1, <2>2
  <1>10. f \in Surjection(D, 1..m)
    <2>1. Cardinality(D) = Cardinality(1..m)
      BY <1>9
    <2> QED BY ONLY <1>8, <1>9, <2>1, FS_Injection
  <1>11. \E i \in D : f[i] = k
    BY <1>10 DEF Surjection
  <1>12. \E i \in D : Cardinality(Up(i)) = k
    BY ONLY <1>5, <1>11
  <1>13. NthOf(D, k) = CHOOSE i \in D : Cardinality(Up(i)) = k
    BY DEF NthOf, Up
  <1>14. NthOf(D, k) \in D /\ Cardinality(Up(NthOf(D, k))) = k
    BY ONLY <1>12, <1>13
  <1> QED BY <1>14 DEF Up

(* skiplist_remove_skipnode(): what is left is a list, without the nodes of C *)
(* and with none twice.                                                      *)
LEMMA KeptIs ==
  ASSUME NEW S, NEW s \in Seq(S), Once(s), NEW C
  PROVE  Kept(s, C) \in Seq(S) /\ Once(Kept(s, C)) /\ ToSet(Kept(s, C)) \subseteq ToSet(s) \ C
  <1>1. PICK D : D = {i \in DOMAIN s : s[i] \notin C}
    OBVIOUS
  <1>2. D \in SUBSET (1..Len(s)) /\ Len(s) \in Nat /\ DOMAIN s = 1..Len(s)
    BY <1>1
  <1>3. D \in SUBSET Nat /\ IsFiniteSet(D)
    <2>1. IsFiniteSet(1..Len(s))
      BY <1>2, FS_Interval
    <2>2. IsFiniteSet(D)
      BY ONLY <1>2, <2>1, FS_Subset
    <2>3. D \in SUBSET Nat
      BY ONLY <1>2
    <2> QED BY ONLY <2>2, <2>3
  <1>4. Cardinality(D) \in Nat
    BY <1>3, FS_CardinalityType
  <1>5. PICK p : p = [k \in 1..Cardinality(D) |-> NthOf(D, k)]
    OBVIOUS
  <1>6. \A k \in 1..Cardinality(D) : p[k] \in D /\ Cardinality({j \in D : j <= p[k]}) = k
    BY ONLY <1>3, <1>5, NthIs
  <1>7. PICK r : r = Kept(s, C)
    OBVIOUS
  <1>8. r = [k \in 1..Cardinality(D) |-> s[p[k]]]
    BY ONLY <1>1, <1>5, <1>7 DEF Kept
  <1>9. \A k \in 1..Cardinality(D) : s[p[k]] \in S /\ p[k] \in 1..Len(s) /\ s[p[k]] \notin C
    <2>1. \A i \in D : s[i] \in S /\ i \in 1..Len(s) /\ s[i] \notin C
      BY <1>1, <1>2
    <2> QED BY ONLY <1>6, <2>1
  <1>10. r \in Seq(S) /\ Len(r) = Cardinality(D) /\ DOMAIN r = 1..Cardinality(D)
    BY ONLY <1>4, <1>8, <1>9
  <1>11. \A k \in 1..Cardinality(D) : r[k] = s[p[k]]
    BY ONLY <1>8
  <1>12. ASSUME NEW i \in 1..Cardinality(D), NEW j \in 1..Cardinality(D), r[i] = r[j]
         PROVE  i = j
    <2>1. s[p[i]] = s[p[j]] /\ p[i] \in DOMAIN s /\ p[j] \in DOMAIN s
      BY ONLY <1>2, <1>9, <1>11, <1>12
    <2>2. p[i] = p[j]
      BY <2>1 DEF Once
    <2>3. Cardinality({a \in D : a <= p[i]}) = i /\ Cardinality({a \in D : a <= p[j]}) = j
      BY ONLY <1>6, <1>12
    <2> QED BY ONLY <2>2, <2>3
  <1>13. Once(r)
    BY ONLY <1>10, <1>12 DEF Once
  <1>14. ToSet(r) \subseteq ToSet(s) \ C
    BY ONLY <1>2, <1>9, <1>10, <1>11 DEF ToSet
  <1> QED BY ONLY <1>7, <1>10, <1>13, <1>14

(* A place in a list, or the end of it. *)
LEMMA IndexIs ==
  ASSUME NEW S, NEW s \in Seq(S), NEW c
  PROVE  Index(s, c, Len(s) + 1) \in 1..(Len(s) + 1)
  <1>1. Len(s) \in Nat /\ DOMAIN s = 1..Len(s)
    OBVIOUS
  <1>2. CASE c \in ToSet(s)
    <2>1. \E i \in DOMAIN s : s[i] = c
      BY <1>2 DEF ToSet
    <2>2. Index(s, c, Len(s) + 1) \in DOMAIN s
      BY <1>2, <2>1 DEF Index
    <2> QED BY ONLY <1>1, <2>2
  <1>3. CASE c \notin ToSet(s)
    <2>1. Index(s, c, Len(s) + 1) = Len(s) + 1
      BY <1>3 DEF Index
    <2> QED BY ONLY <1>1, <2>1
  <1> QED BY ONLY <1>2, <1>3

(* r is list s with c at place i. *)
HasAt(r, s, i, c) ==
    /\ Len(r) = Len(s) + 1 /\ r[i] = c
    /\ \A k \in 1..(i - 1) : r[k] = s[k]
    /\ \A k \in (i + 1)..(Len(s) + 1) : r[k] = s[k - 1]

(* A node goes in somewhere. *)
LEMMA InsertIs ==
  ASSUME NEW S, NEW s \in Seq(S), NEW i \in 1..(Len(s) + 1), NEW c \in S
  PROVE  InsertAt(s, i, c) \in Seq(S) /\ HasAt(InsertAt(s, i, c), s, i, c)
  <1>0. Len(s) \in Nat /\ i \in 1..(Len(s) + 1) /\ \A k \in 1..Len(s) : s[k] \in S
    OBVIOUS
  <1>1. PICK a : a = SubSeq(s, 1, i - 1)
    OBVIOUS
  <1>2. a \in Seq(S) /\ Len(a) = i - 1 /\ \A k \in 1..(i - 1) : a[k] = s[k]
    <2>1. 1 \in Int /\ i - 1 \in Int /\ (i - 1) - 1 + 1 = i - 1
      BY ONLY <1>0
    <2>2. \A k \in 1..(i - 1) : s[k] \in S
      BY ONLY <1>0
    <2>3. /\ a \in Seq(S) /\ Len(a) = IF 1 <= i - 1 THEN (i - 1) - 1 + 1 ELSE 0
          /\ \A k \in 1..((i - 1) - 1 + 1) : a[k] = s[1 + k - 1]
      BY ONLY <1>1, <2>1, <2>2, SubSeqProperties
    <2>4. \A k \in 1..(i - 1) : 1 + k - 1 = k
      BY ONLY <1>0
    <2>5. Len(a) = i - 1
      BY ONLY <1>0, <2>3
    <2> QED BY ONLY <2>1, <2>3, <2>4, <2>5
  <1>3. PICK b : b = SubSeq(s, i, Len(s))
    OBVIOUS
  <1>4. b \in Seq(S) /\ Len(b) = Len(s) - i + 1 /\ \A k \in 1..(Len(s) - i + 1) : b[k] = s[i + k - 1]
    <2>1. i \in Int /\ Len(s) \in Int
      BY ONLY <1>0
    <2>2. \A k \in i..Len(s) : s[k] \in S
      BY ONLY <1>0
    <2>3. /\ b \in Seq(S) /\ Len(b) = IF i <= Len(s) THEN Len(s) - i + 1 ELSE 0
          /\ \A k \in 1..(Len(s) - i + 1) : b[k] = s[i + k - 1]
      BY ONLY <1>3, <2>1, <2>2, SubSeqProperties
    <2>4. Len(b) = Len(s) - i + 1
      BY ONLY <1>0, <2>3
    <2> QED BY ONLY <2>3, <2>4
  <1>5. PICK v : v = <<c>>
    OBVIOUS
  <1>6. v \in Seq(S) /\ Len(v) = 1 /\ v[1] = c
    BY <1>5
  <1>7. PICK w : w = a \o v
    OBVIOUS
  <1>8. /\ w \in Seq(S) /\ Len(w) = Len(a) + Len(v)
        /\ \A k \in 1..(Len(a) + Len(v)) : w[k] = IF k <= Len(a) THEN a[k] ELSE v[k - Len(a)]
    BY ONLY <1>2, <1>6, <1>7, ConcatProperties
  <1>9. PICK r : r = w \o b
    OBVIOUS
  <1>10. /\ r \in Seq(S) /\ Len(r) = Len(w) + Len(b)
         /\ \A k \in 1..(Len(w) + Len(b)) : r[k] = IF k <= Len(w) THEN w[k] ELSE b[k - Len(w)]
    <2>1. w \in Seq(S) /\ b \in Seq(S)
      BY ONLY <1>4, <1>8
    <2> QED BY ONLY <1>9, <2>1, ConcatProperties
  <1>11. InsertAt(s, i, c) = r
    BY ONLY <1>1, <1>3, <1>5, <1>7, <1>9 DEF InsertAt
  <1>12. Len(a) = i - 1 /\ Len(w) = i /\ Len(w) + Len(b) = Len(s) + 1 /\ Len(r) = Len(s) + 1
    BY ONLY <1>0, <1>2, <1>4, <1>6, <1>8, <1>10
  <1>13. \A k \in 1..i : w[k] = IF k <= i - 1 THEN a[k] ELSE v[k - (i - 1)]
    BY ONLY <1>8, <1>12, <1>6
  <1>14. \A k \in 1..(Len(s) + 1) : r[k] = IF k <= i THEN w[k] ELSE b[k - i]
    BY ONLY <1>10, <1>12
  <1>15. r[i] = c
    <2>1. i \in 1..i /\ i \in 1..(Len(s) + 1) /\ ~(i <= i - 1) /\ i - (i - 1) = 1 /\ i <= i
      BY ONLY <1>0
    <2> QED BY ONLY <1>6, <1>13, <1>14, <2>1
  <1>16. ASSUME NEW k \in 1..(i - 1)
         PROVE  r[k] = s[k]
    <2>1. k \in 1..i /\ k \in 1..(Len(s) + 1) /\ k <= i - 1 /\ k <= i
      BY ONLY <1>0, <1>16
    <2> QED BY ONLY <1>2, <1>13, <1>14, <1>16, <2>1
  <1>17. ASSUME NEW k \in (i + 1)..(Len(s) + 1)
         PROVE  r[k] = s[k - 1]
    <2>1. k \in 1..(Len(s) + 1) /\ ~(k <= i) /\ k - i \in 1..(Len(s) - i + 1) /\ i + (k - i) - 1 = k - 1
      BY ONLY <1>0, <1>17
    <2> QED BY ONLY <1>4, <1>14, <2>1
  <1>18. HasAt(r, s, i, c)
    BY ONLY <1>12, <1>15, <1>16, <1>17 DEF HasAt
  <1> QED BY ONLY <1>10, <1>11, <1>18

(* A node that is not on the list is on it once afterwards. *)
LEMMA InsertOnce ==
  ASSUME NEW S, NEW s \in Seq(S), NEW i \in 1..(Len(s) + 1), NEW c \in S, Once(s), c \notin ToSet(s)
  PROVE  Once(InsertAt(s, i, c)) /\ ToSet(InsertAt(s, i, c)) \subseteq ToSet(s) \cup {c}
  <1>1. PICK r : r = InsertAt(s, i, c)
    OBVIOUS
  <1>2. /\ r \in Seq(S) /\ Len(r) = Len(s) + 1 /\ r[i] = c
        /\ \A k \in 1..(i - 1) : r[k] = s[k]
        /\ \A k \in (i + 1)..(Len(s) + 1) : r[k] = s[k - 1]
    <2>1. s \in Seq(S) /\ i \in 1..(Len(s) + 1) /\ c \in S
      OBVIOUS
    <2>2. InsertAt(s, i, c) \in Seq(S) /\ HasAt(InsertAt(s, i, c), s, i, c)
      BY ONLY <2>1, InsertIs, Zenon
    <2>3. r \in Seq(S) /\ HasAt(r, s, i, c)
      BY ONLY <1>1, <2>2
    <2> QED BY ONLY <2>3 DEF HasAt
  <1>3. Len(s) \in Nat /\ i \in 1..(Len(s) + 1) /\ DOMAIN s = 1..Len(s) /\ DOMAIN r = 1..(Len(s) + 1)
    BY <1>2
  <1>4. PICK p : p = [k \in 1..(Len(s) + 1) |-> IF k < i THEN k ELSE k - 1]
    OBVIOUS
  <1>5. ASSUME NEW k \in 1..(Len(s) + 1), k # i
        PROVE  p[k] \in 1..Len(s) /\ r[k] = s[p[k]] /\ p[k] = IF k < i THEN k ELSE k - 1
    <2>1. CASE k < i
      <3>1. k \in 1..(i - 1) /\ k \in 1..Len(s)
        BY ONLY <1>3, <1>5, <2>1
      <3> QED BY ONLY <1>2, <1>4, <1>5, <2>1, <3>1
    <2>2. CASE ~(k < i)
      <3>1. k \in (i + 1)..(Len(s) + 1) /\ k - 1 \in 1..Len(s)
        BY ONLY <1>3, <1>5, <2>2
      <3>2. p[k] = k - 1
        BY ONLY <1>4, <1>5, <2>2
      <3>3. r[k] = s[k - 1]
        BY ONLY <1>2, <3>1
      <3> QED BY ONLY <2>2, <3>1, <3>2, <3>3
    <2> QED BY ONLY <2>1, <2>2
  <1>6. \A k \in 1..Len(s) : s[k] # c /\ s[k] \in ToSet(s)
    BY <1>3 DEF ToSet
  <1>7. ASSUME NEW a \in 1..(Len(s) + 1), NEW b \in 1..(Len(s) + 1), r[a] = r[b]
        PROVE  a = b
    <2>1. CASE a = i \/ b = i
      <3>1. \A k \in 1..(Len(s) + 1) : k # i => r[k] # c
        BY ONLY <1>5, <1>6
      <3> QED BY ONLY <1>2, <1>7, <2>1, <3>1
    <2>2. CASE a # i /\ b # i
      <3>1. p[a] = p[b]
        <4>1. s[p[a]] = s[p[b]] /\ p[a] \in DOMAIN s /\ p[b] \in DOMAIN s
          BY ONLY <1>3, <1>5, <1>7, <2>2
        <4> QED BY <4>1 DEF Once
      <3>2. p[a] = (IF a < i THEN a ELSE a - 1) /\ p[b] = (IF b < i THEN b ELSE b - 1)
        BY ONLY <1>5, <1>7, <2>2
      <3>3. i \in Nat /\ a \in Nat /\ b \in Nat
        BY ONLY <1>3, <1>7
      <3>4. CASE a < i
        <4>1. CASE b < i
          BY ONLY <3>1, <3>2, <3>4, <4>1
        <4>2. CASE ~(b < i)
          <5>1. a = b - 1
            BY ONLY <3>1, <3>2, <3>4, <4>2
          <5> QED BY ONLY <2>2, <3>3, <3>4, <4>2, <5>1
        <4> QED BY ONLY <4>1, <4>2
      <3>5. CASE ~(a < i)
        <4>1. CASE b < i
          <5>1. a - 1 = b
            BY ONLY <3>1, <3>2, <3>5, <4>1
          <5> QED BY ONLY <2>2, <3>3, <3>5, <4>1, <5>1
        <4>2. CASE ~(b < i)
          <5>1. a - 1 = b - 1
            BY ONLY <3>1, <3>2, <3>5, <4>2
          <5> QED BY ONLY <3>3, <5>1
        <4> QED BY ONLY <4>1, <4>2
      <3> QED BY ONLY <3>4, <3>5
    <2> QED BY ONLY <2>1, <2>2
  <1>8. Once(r)
    BY ONLY <1>3, <1>7 DEF Once
  <1>9. \A k \in 1..(Len(s) + 1) : r[k] \in ToSet(s) \cup {c}
    BY ONLY <1>2, <1>5, <1>6
  <1>10. ToSet(r) \subseteq ToSet(s) \cup {c}
    BY ONLY <1>3, <1>9 DEF ToSet
  <1> QED BY ONLY <1>1, <1>8, <1>10

-----------------------------------------------------------------------------
(* The order of a list *)

(* a is in front of b. *)
Before(s, a, b) == \E j, k \in DOMAIN s : j < k /\ s[j] = a /\ s[k] = b

(* The places of a set come in their order, and each has a number. *)
LEMMA NthOrder ==
  ASSUME NEW D \in SUBSET Nat, IsFiniteSet(D)
  PROVE  /\ \A j, k \in 1..Cardinality(D) : j < k <=> NthOf(D, j) < NthOf(D, k)
         /\ \A i \in D : \E k \in 1..Cardinality(D) : NthOf(D, k) = i
  <1> DEFINE Up(i) == {j \in D : j <= i}
             m == Cardinality(D)
  <1>1. m \in Nat
    BY FS_CardinalityType
  <1>2. ASSUME NEW i \in D
        PROVE  IsFiniteSet(Up(i)) /\ Cardinality(Up(i)) \in 1..m
    <2>1. Up(i) \in SUBSET D /\ i \in Up(i)
      OBVIOUS
    <2>2. IsFiniteSet(Up(i)) /\ Cardinality(Up(i)) <= m
      BY <2>1, FS_Subset
    <2>3. Cardinality(Up(i)) \in Nat /\ Cardinality(Up(i)) # 0
      BY <2>1, <2>2, FS_CardinalityType, FS_EmptySet
    <2> QED BY ONLY <1>1, <2>2, <2>3
  <1>3. ASSUME NEW i \in D, NEW j \in D, i < j
        PROVE  Cardinality(Up(i)) < Cardinality(Up(j))
    <2>0. i \in Nat /\ j \in Nat /\ D \in SUBSET Nat
      OBVIOUS
    <2>1. Up(i) \in SUBSET Up(j)
      <3>1. ASSUME NEW a \in D, a <= i PROVE a <= j
        <4>1. a \in Nat
          BY ONLY <2>0, <3>1
        <4> QED BY ONLY <1>3, <2>0, <3>1, <4>1
      <3> QED BY ONLY <3>1
    <2>2. Up(i) # Up(j)
      <3>1. j \in Up(j) /\ j \notin Up(i)
        BY ONLY <1>3, <2>0
      <3> QED BY ONLY <3>1
    <2>3. /\ Cardinality(Up(i)) <= Cardinality(Up(j))
          /\ Cardinality(Up(i)) = Cardinality(Up(j)) => Up(i) = Up(j)
      BY ONLY <1>2, <1>3, <2>1, FS_Subset
    <2>4. Cardinality(Up(i)) \in Int /\ Cardinality(Up(j)) \in Int
      BY ONLY <1>1, <1>2, <1>3
    <2> QED BY ONLY <2>2, <2>3, <2>4
  <1>4. \A k \in 1..m : NthOf(D, k) \in D /\ Cardinality(Up(NthOf(D, k))) = k
    BY NthIs
  <1>5. \A i, j \in D : i < j \/ j < i \/ i = j
    OBVIOUS
  <1>6. \A i, j \in D : ~(i < j /\ j < i) /\ ~(i < i)
    OBVIOUS
  <1> HIDE DEF Up
  <1>7. ASSUME NEW j \in 1..m, NEW k \in 1..m
        PROVE  j < k <=> NthOf(D, j) < NthOf(D, k)
    <2>1. PICK x, y : x = NthOf(D, j) /\ y = NthOf(D, k)
      OBVIOUS
    <2>2. x \in D /\ y \in D /\ Cardinality(Up(x)) = j /\ Cardinality(Up(y)) = k
      BY ONLY <1>4, <1>7, <2>1
    <2>3. (x < y => j < k) /\ (y < x => k < j) /\ (x = y => j = k)
      BY ONLY <1>3, <2>2
    <2>4. j \in Nat /\ k \in Nat
      BY ONLY <1>7, <1>1
    <2>5. x < y \/ y < x \/ x = y
      BY ONLY <1>5, <2>2
    <2>6. j < k <=> x < y
      BY ONLY <2>3, <2>4, <2>5
    <2> QED BY ONLY <2>1, <2>6
  <1>8. ASSUME NEW i \in D
        PROVE  \E k \in 1..m : NthOf(D, k) = i
    <2>1. PICK k \in 1..m : k = Cardinality(Up(i))
      BY ONLY <1>2, <1>8
    <2>2. PICK x : x = NthOf(D, k)
      OBVIOUS
    <2>3. x \in D /\ Cardinality(Up(x)) = Cardinality(Up(i))
      BY ONLY <1>4, <2>1, <2>2
    <2>4. ~(x < i) /\ ~(i < x)
      <3>1. Cardinality(Up(i)) \in Int
        BY ONLY <1>1, <1>2, <1>8
      <3> QED BY ONLY <1>3, <1>8, <2>3, <3>1
    <2>5. x = i
      BY ONLY <1>5, <1>8, <2>3, <2>4
    <2> QED BY ONLY <2>1, <2>2, <2>5
  <1> QED BY ONLY <1>7, <1>8

(* What is left of a list keeps its order. *)
LEMMA KeptOrder ==
  ASSUME NEW S, NEW s \in Seq(S), Once(s), NEW C
  PROVE  /\ ToSet(Kept(s, C)) = ToSet(s) \ C
         /\ \A a, b : Before(Kept(s, C), a, b) <=> a \notin C /\ b \notin C /\ Before(s, a, b)
  <1>1. PICK D : D = {i \in DOMAIN s : s[i] \notin C}
    OBVIOUS
  <1>2. D \in SUBSET (1..Len(s)) /\ Len(s) \in Nat /\ DOMAIN s = 1..Len(s)
    BY <1>1
  <1>3. D \in SUBSET Nat /\ IsFiniteSet(D)
    <2>1. IsFiniteSet(1..Len(s))
      BY <1>2, FS_Interval
    <2>2. IsFiniteSet(D)
      BY ONLY <1>2, <2>1, FS_Subset
    <2>3. D \in SUBSET Nat
      BY ONLY <1>2
    <2> QED BY ONLY <2>2, <2>3
  <1>4. PICK m : m = Cardinality(D)
    OBVIOUS
  <1>5. PICK p : p = [k \in 1..m |-> NthOf(D, k)]
    OBVIOUS
  <1>6. \A k \in 1..m : p[k] \in D
    BY ONLY <1>3, <1>4, <1>5, NthIs
  <1>7. /\ \A j, k \in 1..m : j < k <=> p[j] < p[k]
        /\ \A i \in D : \E k \in 1..m : p[k] = i
    BY ONLY <1>3, <1>4, <1>5, NthOrder
  <1>8. PICK r : r = Kept(s, C)
    OBVIOUS
  <1>9. r = [k \in 1..m |-> s[p[k]]]
    BY ONLY <1>1, <1>4, <1>5, <1>8 DEF Kept
  <1>10. DOMAIN r = 1..m /\ \A k \in 1..m : r[k] = s[p[k]]
    BY ONLY <1>9
  <1>11. ToSet(r) = ToSet(s) \ C
    <2>1. ASSUME NEW a \in ToSet(r)
          PROVE  a \in ToSet(s) \ C
      <3>1. PICK k \in 1..m : a = s[p[k]]
        BY ONLY <1>10, <2>1 DEF ToSet
      <3> QED BY <1>1, <1>6, <3>1 DEF ToSet
    <2>2. ASSUME NEW a \in ToSet(s) \ C
          PROVE  a \in ToSet(r)
      <3>1. PICK i \in D : a = s[i]
        BY <1>1, <2>2 DEF ToSet
      <3>2. PICK k \in 1..m : p[k] = i
        BY ONLY <1>7, <3>1
      <3> QED BY ONLY <1>10, <3>1, <3>2 DEF ToSet
    <2> QED BY ONLY <2>1, <2>2
  <1>12. ASSUME NEW a, NEW b, Before(r, a, b)
         PROVE  a \notin C /\ b \notin C /\ Before(s, a, b)
    <2>1. PICK j \in 1..m, k \in 1..m : j < k /\ s[p[j]] = a /\ s[p[k]] = b
      BY ONLY <1>10, <1>12 DEF Before
    <2>2. p[j] \in D /\ p[k] \in D /\ p[j] < p[k]
      BY ONLY <1>6, <1>7, <2>1
    <2> QED BY ONLY <1>1, <2>1, <2>2 DEF Before
  <1>13. ASSUME NEW a, NEW b, a \notin C, b \notin C, Before(s, a, b)
         PROVE  Before(r, a, b)
    <2>1. PICK i \in DOMAIN s, n \in DOMAIN s : i < n /\ s[i] = a /\ s[n] = b
      BY ONLY <1>13 DEF Before
    <2>2. i \in D /\ n \in D
      BY ONLY <1>1, <1>13, <2>1
    <2>3. PICK j \in 1..m, k \in 1..m : p[j] = i /\ p[k] = n
      BY ONLY <1>7, <2>2
    <2>4. j < k
      BY ONLY <1>7, <2>1, <2>3
    <2> QED BY ONLY <1>10, <2>1, <2>3, <2>4 DEF Before
  <1> QED BY ONLY <1>8, <1>11, <1>12, <1>13

(* Within a list, an element is in front of another or behind it, not both. *)
LEMMA BeforeIs ==
  ASSUME NEW S, NEW s \in Seq(S), Once(s)
  PROVE  /\ \A a, b : Before(s, a, b) => a \in ToSet(s) /\ b \in ToSet(s) /\ a # b /\ ~Before(s, b, a)
         /\ \A a, b \in ToSet(s) : a = b \/ Before(s, a, b) \/ Before(s, b, a)
         /\ \A a, b, c : Before(s, a, b) /\ Before(s, b, c) => Before(s, a, c)
  <1>0. Len(s) \in Nat /\ DOMAIN s = 1..Len(s) /\ DOMAIN s \subseteq Int
    OBVIOUS
  <1>1. ASSUME NEW a, NEW b, Before(s, a, b)
        PROVE  a \in ToSet(s) /\ b \in ToSet(s) /\ a # b /\ ~Before(s, b, a)
    <2>1. PICK j \in DOMAIN s, k \in DOMAIN s : j < k /\ s[j] = a /\ s[k] = b
      BY ONLY <1>1 DEF Before
    <2>2. j \in Int /\ k \in Int
      BY ONLY <1>0, <2>1
    <2>3. a # b
      BY <2>1, <2>2 DEF Once
    <2>4. ~Before(s, b, a)
      <3>1. ASSUME NEW x \in DOMAIN s, NEW y \in DOMAIN s, x < y, s[x] = b, s[y] = a PROVE FALSE
        <4>1. x = k /\ y = j
          BY <2>1, <3>1 DEF Once
        <4> QED BY ONLY <2>1, <2>2, <3>1, <4>1
      <3> QED BY ONLY <3>1 DEF Before
    <2>5. a \in ToSet(s) /\ b \in ToSet(s)
      BY ONLY <2>1 DEF ToSet
    <2> QED BY ONLY <2>3, <2>4, <2>5
  <1>2. ASSUME NEW a \in ToSet(s), NEW b \in ToSet(s)
        PROVE  a = b \/ Before(s, a, b) \/ Before(s, b, a)
    <2>1. PICK j \in DOMAIN s, k \in DOMAIN s : s[j] = a /\ s[k] = b
      BY ONLY <1>2 DEF ToSet
    <2>2. j < k \/ k < j \/ j = k
      BY ONLY <1>0, <2>1
    <2> QED BY ONLY <2>1, <2>2 DEF Before
  <1>3. ASSUME NEW a, NEW b, NEW c, Before(s, a, b), Before(s, b, c)
        PROVE  Before(s, a, c)
    <2>1. PICK j \in DOMAIN s, k \in DOMAIN s : j < k /\ s[j] = a /\ s[k] = b
      BY ONLY <1>3 DEF Before
    <2>2. PICK x \in DOMAIN s, y \in DOMAIN s : x < y /\ s[x] = b /\ s[y] = c
      BY ONLY <1>3 DEF Before
    <2>3. k = x
      BY <2>1, <2>2 DEF Once
    <2>4. j < y
      BY ONLY <1>0, <2>1, <2>2, <2>3
    <2> QED BY ONLY <2>1, <2>2, <2>4 DEF Before
  <1> QED BY ONLY <1>1, <1>2, <1>3

(* Place k is where the list goes over from before key to key and later. *)
Cut(s, k, key, tm) == k \in 1..(Len(s) + 1) /\ \A j \in DOMAIN s : j < k <=> tm[s[j]] < key

(* q says where the places of a list go when one is put in at k. *)
Shifts(q, n, k) ==
    /\ \A j \in 1..n : q[j] \in 1..(n + 1) /\ q[j] # k /\ (q[j] < k <=> j < k) /\ (k < q[j] <=> ~(j < k))
    /\ \A i, j \in 1..n : i < j <=> q[i] < q[j]
    /\ \A x \in 1..(n + 1) : x = k \/ \E j \in 1..n : q[j] = x

(* The places behind k move up by one. *)
LEMMA ShiftIs ==
  ASSUME NEW n \in Nat, NEW k \in 1..(n + 1)
  PROVE  Shifts([j \in 1..n |-> IF j < k THEN j ELSE j + 1], n, k)
  <1>1. PICK q : q = [j \in 1..n |-> IF j < k THEN j ELSE j + 1]
    OBVIOUS
  <1>2. \A j \in 1..n : q[j] = IF j < k THEN j ELSE j + 1
    BY ONLY <1>1
  <1>3. \A j \in 1..n : q[j] \in 1..(n + 1) /\ q[j] # k /\ (q[j] < k <=> j < k) /\ (k < q[j] <=> ~(j < k))
    BY <1>2
  <1>4. \A i, j \in 1..n : i < j <=> q[i] < q[j]
    BY <1>2
  <1>5. ASSUME NEW x \in 1..(n + 1), x # k
        PROVE  \E j \in 1..n : q[j] = x
    <2>1. CASE x < k
      <3>1. x \in 1..n
        BY <2>1
      <3> QED BY ONLY <1>2, <2>1, <3>1
    <2>2. CASE ~(x < k)
      <3>1. x - 1 \in 1..n /\ ~(x - 1 < k) /\ (x - 1) + 1 = x
        BY <1>5, <2>2
      <3> QED BY ONLY <1>2, <3>1
    <2> QED BY ONLY <2>1, <2>2
  <1>6. Shifts(q, n, k)
    BY ONLY <1>3, <1>4, <1>5 DEF Shifts
  <1> QED BY ONLY <1>1, <1>6

(* A node that is put in at the cut comes behind the earlier ones and in     *)
(* front of the others.                                                      *)
LEMMA InsertOrder ==
  ASSUME NEW S, NEW s \in Seq(S), NEW k, NEW c \in S, Once(s), c \notin ToSet(s),
         NEW tm, NEW key, Cut(s, k, key, tm)
  PROVE  /\ ToSet(InsertAt(s, k, c)) = ToSet(s) \cup {c}
         /\ \A a, b : Before(InsertAt(s, k, c), a, b) <=>
               \/ Before(s, a, b)
               \/ b = c /\ a \in ToSet(s) /\ tm[a] < key
               \/ a = c /\ b \in ToSet(s) /\ ~(tm[b] < key)
  <1>1. PICK r : r = InsertAt(s, k, c)
    OBVIOUS
  <1>2. PICK n : n = Len(s)
    OBVIOUS
  <1>3. n \in Nat /\ DOMAIN s = 1..n /\ k \in 1..(n + 1) /\ \A j \in 1..n : j < k <=> tm[s[j]] < key
    BY <1>2 DEF Cut
  <1>4. r \in Seq(S) /\ HasAt(r, s, k, c)
    <2>1. s \in Seq(S) /\ k \in 1..(Len(s) + 1) /\ c \in S
      BY <1>2, <1>3
    <2>2. InsertAt(s, k, c) \in Seq(S) /\ HasAt(InsertAt(s, k, c), s, k, c)
      BY ONLY <2>1, InsertIs, Zenon
    <2> QED BY ONLY <1>1, <2>2
  <1>5. /\ DOMAIN r = 1..(n + 1) /\ r[k] = c
        /\ \A j \in 1..(k - 1) : r[j] = s[j]
        /\ \A j \in (k + 1)..(n + 1) : r[j] = s[j - 1]
    BY ONLY <1>2, <1>4 DEF HasAt
  <1>6. PICK q : q = [j \in 1..n |-> IF j < k THEN j ELSE j + 1]
    OBVIOUS
  <1>7. Shifts(q, n, k)
    BY ONLY <1>3, <1>6, ShiftIs
  <1>8. ASSUME NEW j \in 1..n
        PROVE  r[q[j]] = s[j]
    <2>1. CASE j < k
      <3>1. j \in 1..(k - 1) /\ q[j] = j
        BY ONLY <1>3, <1>6, <1>8, <2>1
      <3> QED BY ONLY <1>5, <3>1
    <2>2. CASE ~(j < k)
      <3>1. j + 1 \in (k + 1)..(n + 1) /\ q[j] = j + 1 /\ (j + 1) - 1 = j
        BY ONLY <1>3, <1>6, <1>8, <2>2
      <3> QED BY ONLY <1>5, <3>1
    <2> QED BY ONLY <2>1, <2>2
  <1>9. ToSet(s) = {s[j] : j \in 1..n} /\ ToSet(r) = {r[j] : j \in 1..(n + 1)}
    BY ONLY <1>3, <1>5 DEF ToSet
  <1>10. ToSet(r) = ToSet(s) \cup {c}
    <2>1. ASSUME NEW x \in 1..(n + 1) PROVE r[x] \in ToSet(s) \cup {c}
      BY ONLY <1>5, <1>7, <1>8, <1>9, <2>1 DEF Shifts
    <2>2. ASSUME NEW j \in 1..n PROVE s[j] \in ToSet(r)
      BY ONLY <1>7, <1>8, <1>9, <2>2 DEF Shifts
    <2>3. c \in ToSet(r)
      BY ONLY <1>3, <1>5, <1>9
    <2> QED BY ONLY <1>9, <2>1, <2>2, <2>3
  <1>11. \A j \in 1..n : s[j] # c
    BY ONLY <1>9, c \notin ToSet(s)
  <1>12. ASSUME NEW a, NEW b, Before(r, a, b)
         PROVE  \/ Before(s, a, b)
                \/ b = c /\ a \in ToSet(s) /\ tm[a] < key
                \/ a = c /\ b \in ToSet(s) /\ ~(tm[b] < key)
    <2>1. PICK x \in 1..(n + 1), y \in 1..(n + 1) : x < y /\ r[x] = a /\ r[y] = b
      BY ONLY <1>5, <1>12 DEF Before
    <2>2. CASE x = k
      <3>1. a = c /\ y # k
        BY ONLY <1>3, <1>5, <2>1, <2>2
      <3>2. PICK j \in 1..n : q[j] = y
        BY ONLY <1>7, <2>1, <3>1 DEF Shifts
      <3>3. ~(j < k) /\ s[j] = b
        BY ONLY <1>7, <1>8, <2>1, <2>2, <3>2 DEF Shifts
      <3> QED BY ONLY <1>3, <1>9, <3>1, <3>3
    <2>3. CASE x # k /\ y = k
      <3>1. PICK j \in 1..n : q[j] = x
        BY ONLY <1>7, <2>1, <2>3 DEF Shifts
      <3>2. j < k /\ s[j] = a /\ b = c
        BY ONLY <1>5, <1>7, <1>8, <2>1, <2>3, <3>1 DEF Shifts
      <3> QED BY ONLY <1>3, <1>9, <3>2
    <2>4. CASE x # k /\ y # k
      <3>1. PICK i \in 1..n, j \in 1..n : q[i] = x /\ q[j] = y
        BY ONLY <1>7, <2>1, <2>4 DEF Shifts
      <3>2. i < j /\ s[i] = a /\ s[j] = b
        BY ONLY <1>7, <1>8, <2>1, <3>1 DEF Shifts
      <3> QED BY ONLY <1>3, <3>2 DEF Before
    <2> QED BY ONLY <2>2, <2>3, <2>4
  <1>13. ASSUME NEW a, NEW b, Before(s, a, b)
         PROVE  Before(r, a, b)
    <2>1. PICK i \in 1..n, j \in 1..n : i < j /\ s[i] = a /\ s[j] = b
      BY ONLY <1>3, <1>13 DEF Before
    <2>2. q[i] < q[j] /\ q[i] \in 1..(n + 1) /\ q[j] \in 1..(n + 1) /\ r[q[i]] = a /\ r[q[j]] = b
      BY ONLY <1>7, <1>8, <2>1 DEF Shifts
    <2> QED BY ONLY <1>5, <2>2 DEF Before
  <1>14. ASSUME NEW a \in ToSet(s)
         PROVE  IF tm[a] < key THEN Before(r, a, c) ELSE Before(r, c, a)
    <2>1. PICK j \in 1..n : s[j] = a
      BY ONLY <1>9, <1>14
    <2>2. /\ q[j] \in 1..(n + 1) /\ r[q[j]] = a /\ k \in 1..(n + 1) /\ r[k] = c
          /\ IF tm[a] < key THEN q[j] < k ELSE k < q[j]
      BY ONLY <1>3, <1>5, <1>7, <1>8, <2>1 DEF Shifts
    <2> QED BY ONLY <1>5, <2>2 DEF Before
  <1> QED BY ONLY <1>1, <1>10, <1>12, <1>13, <1>14

-----------------------------------------------------------------------------
(* The search *)

(* A list in the order of its times. *)
Timely(s, tm) == \A a, b : Before(s, a, b) => tm[a] <= tm[b]

(* The node that a node of time key goes before, by definition: the first    *)
(* that is not earlier.                                                      *)
Later(s, key) == {k \in DOMAIN s : time[s[k]] >= key}
FirstAt(s, key) == IF Later(s, key) = {} THEN ListHead ELSE s[Min(Later(s, key))]

(* The smallest of a set of places. *)
LEMMA MinIs ==
  ASSUME NEW D \in SUBSET Nat, IsFiniteSet(D), D # {}
  PROVE  Min(D) \in D /\ \A j \in D : Min(D) <= j
  <1>1. Cardinality(D) \in Nat /\ Cardinality(D) # 0
    BY FS_CardinalityType, FS_EmptySet
  <1>2. 1 \in 1..Cardinality(D)
    BY ONLY <1>1
  <1>3. PICK x : x = NthOf(D, 1)
    OBVIOUS
  <1>4. x \in D
    BY ONLY <1>2, <1>3, NthIs, D \in SUBSET Nat, IsFiniteSet(D)
  <1>5. ASSUME NEW j \in D PROVE x <= j
    <2>1. PICK k \in 1..Cardinality(D) : NthOf(D, k) = j
      BY ONLY <1>5, NthOrder, D \in SUBSET Nat, IsFiniteSet(D)
    <2>2. k < 1 <=> j < x
      BY ONLY <1>2, <1>3, <2>1, NthOrder, D \in SUBSET Nat, IsFiniteSet(D)
    <2> QED BY <1>1, <1>4, <2>2
  <1>6. \E y \in D : \A j \in D : y <= j
    BY ONLY <1>4, <1>5
  <1> QED BY ONLY <1>6 DEF Min

(* A set of places has a largest. *)
LEMMA MaxOf ==
  ASSUME NEW D \in SUBSET Nat, IsFiniteSet(D), D # {}
  PROVE  \E m \in D : \A j \in D : j <= m
  <1>1. Cardinality(D) \in Nat /\ Cardinality(D) # 0
    BY FS_CardinalityType, FS_EmptySet
  <1>0. PICK n : n = Cardinality(D)
    OBVIOUS
  <1>2. n \in 1..Cardinality(D)
    BY ONLY <1>0, <1>1
  <1>3. PICK x : x = NthOf(D, n)
    OBVIOUS
  <1>4. x \in D
    BY ONLY <1>2, <1>3, NthIs, D \in SUBSET Nat, IsFiniteSet(D)
  <1>5. ASSUME NEW j \in D PROVE j <= x
    <2>1. PICK k \in 1..Cardinality(D) : NthOf(D, k) = j
      BY ONLY <1>5, NthOrder, D \in SUBSET Nat, IsFiniteSet(D)
    <2>2. n < k <=> x < j
      BY ONLY <1>2, <1>3, <2>1, NthOrder, D \in SUBSET Nat, IsFiniteSet(D)
    <2>3. ~(n < k)
      BY ONLY <1>0, <1>1, <2>1
    <2> QED BY <1>4, <2>2, <2>3
  <1> QED BY ONLY <1>4, <1>5

(* Where an element is. *)
LEMMA IndexOf ==
  ASSUME NEW S, NEW s \in Seq(S), Once(s), NEW d
  PROVE  /\ \A j \in DOMAIN s : Index(s, s[j], d) = j
         /\ \A c : c \notin ToSet(s) => Index(s, c, d) = d
         /\ \A c \in ToSet(s) : Index(s, c, d) \in DOMAIN s /\ s[Index(s, c, d)] = c
  <1>1. ASSUME NEW c \in ToSet(s)
        PROVE  Index(s, c, d) \in DOMAIN s /\ s[Index(s, c, d)] = c
    <2>1. \E i \in DOMAIN s : s[i] = c
      BY ONLY <1>1 DEF ToSet
    <2>2. Index(s, c, d) = CHOOSE i \in DOMAIN s : s[i] = c
      BY ONLY <1>1 DEF Index
    <2> QED BY ONLY <2>1, <2>2
  <1>2. ASSUME NEW j \in DOMAIN s
        PROVE  Index(s, s[j], d) = j
    <2>1. s[j] \in ToSet(s)
      BY ONLY <1>2 DEF ToSet
    <2>2. Index(s, s[j], d) \in DOMAIN s /\ s[Index(s, s[j], d)] = s[j]
      BY ONLY <1>1, <2>1
    <2> QED BY ONLY <1>2, <2>2, Once(s) DEF Once
  <1>3. \A c : c \notin ToSet(s) => Index(s, c, d) = d
    BY DEF Index
  <1> QED BY ONLY <1>1, <1>2, <1>3

(* In a list in order the first node that is not earlier is the cut. *)
LEMMA FirstIs ==
  ASSUME NEW s \in Seq(Channs), Once(s), Timely(s, time), time \in [Channs -> Int],
         NEW key \in Int, NEW m, m = Index(s, FirstAt(s, key), Len(s) + 1)
  PROVE  /\ Cut(s, m, key, time)
         /\ FirstAt(s, key) = IF m = Len(s) + 1 THEN ListHead ELSE s[m]
  <1>1. PICK n : n = Len(s)
    OBVIOUS
  <1>2. n \in Nat /\ DOMAIN s = 1..n /\ \A j \in 1..n : s[j] \in Channs /\ time[s[j]] \in Int
    BY <1>1
  <1>3. PICK D : D = Later(s, key)
    OBVIOUS
  <1>4. D = {k \in 1..n : time[s[k]] >= key}
    BY ONLY <1>2, <1>3 DEF Later
  <1>5. \A j \in 1..n : j \in D <=> ~(time[s[j]] < key)
    BY ONLY <1>2, <1>4, key \in Int
  <1>6. CASE D = {}
    <2>1. FirstAt(s, key) = ListHead
      BY ONLY <1>3, <1>6 DEF FirstAt
    <2>2. ListHead \notin ToSet(s)
      BY <1>2, TimerAssumption DEF ToSet
    <2>3. m = n + 1
      BY <1>1, <2>1, <2>2 DEF Index
    <2>4. \A j \in 1..n : j < m <=> time[s[j]] < key
      BY ONLY <1>2, <1>5, <1>6, <2>3
    <2> QED BY ONLY <1>1, <1>2, <2>1, <2>3, <2>4 DEF Cut
  <1>7. CASE D # {}
    <2>1. D \in SUBSET Nat /\ IsFiniteSet(D)
      <3>1. D \in SUBSET (1..n)
        BY ONLY <1>4
      <3>2. IsFiniteSet(1..n)
        BY ONLY <1>2, FS_Interval
      <3>3. IsFiniteSet(D)
        BY ONLY <3>1, <3>2, FS_Subset
      <3>4. D \in SUBSET Nat
        BY ONLY <1>2, <3>1
      <3> QED BY ONLY <3>3, <3>4
    <2>2. PICK x : x = Min(D)
      OBVIOUS
    <2>3. x \in D /\ \A j \in D : x <= j
      BY ONLY <1>7, <2>1, <2>2, MinIs
    <2>4. FirstAt(s, key) = s[x] /\ x \in 1..n
      BY ONLY <1>3, <1>4, <1>7, <2>2, <2>3 DEF FirstAt
    <2>5. m = x
      BY <1>1, <1>2, <2>4, IndexOf
    <2>6. ASSUME NEW j \in 1..n
          PROVE  j < x <=> time[s[j]] < key
      <3>1. CASE j < x
        BY <1>2, <1>5, <2>3, <2>4, <3>1
      <3>2. CASE j = x
        BY <1>2, <1>5, <2>3, <2>4, <3>2
      <3>3. CASE x < j
        <4>1. Before(s, s[x], s[j])
          BY ONLY <1>2, <2>4, <2>6, <3>3 DEF Before
        <4>2. time[s[x]] <= time[s[j]]
          BY ONLY <4>1, Timely(s, time) DEF Timely
        <4>3. ~(time[s[x]] < key) /\ time[s[x]] \in Int /\ time[s[j]] \in Int
          BY ONLY <1>2, <1>5, <2>3, <2>4, <2>6
        <4>4. j \in Nat /\ x \in Nat
          BY ONLY <1>2, <2>4, <2>6
        <4> QED BY ONLY <3>3, <4>2, <4>3, <4>4, key \in Int
      <3>4. j \in Nat /\ x \in Nat
        BY ONLY <1>2, <2>4, <2>6
      <3> QED BY ONLY <3>1, <3>2, <3>3, <3>4
    <2>7. x # n + 1 /\ x \in 1..(n + 1)
      BY ONLY <1>2, <2>4
    <2> QED BY ONLY <1>1, <1>2, <2>4, <2>5, <2>6, <2>7 DEF Cut
  <1> QED BY ONLY <1>6, <1>7

(* One level of the search, given that the level above has found its first   *)
(* node: a node there is here too.                                           *)
LEMMA EndInIs ==
  ASSUME NEW ls, NEW lv \in Nat, NEW i \in 1..lv, NEW key \in Int, time \in [Channs -> Int],
         ls[i] \in Seq(Channs), Once(ls[i]), Timely(ls[i], time),
         i # lv => /\ ls[i + 1] \in Seq(Channs) /\ Once(ls[i + 1]) /\ Timely(ls[i + 1], time)
                   /\ ToSet(ls[i + 1]) \subseteq ToSet(ls[i])
  PROVE  EndIn(ls, lv, key, i, IF i = lv THEN ListHead ELSE FirstAt(ls[i + 1], key)) = FirstAt(ls[i], key)
  <1>1. PICK u, w, hi : u = ls[i] /\ w = ls[i + 1] /\ hi = IF i = lv THEN ListHead ELSE FirstAt(w, key)
    OBVIOUS
  <1>2. u \in Seq(Channs) /\ Once(u) /\ Timely(u, time)
    BY <1>1
  <1>3. PICK n : n = Len(u)
    OBVIOUS
  <1>4. n \in Nat /\ DOMAIN u = 1..n /\ \A j \in 1..n : u[j] \in Channs /\ time[u[j]] \in Int
    BY <1>2, <1>3
  <1>5. PICK m : m = Index(u, FirstAt(u, key), Len(u) + 1)
    OBVIOUS
  <1>6. /\ m \in 1..(n + 1) /\ \A j \in 1..n : j < m <=> time[u[j]] < key
        /\ FirstAt(u, key) = IF m = n + 1 THEN ListHead ELSE u[m]
    <2>1. Cut(u, m, key, time) /\ FirstAt(u, key) = IF m = Len(u) + 1 THEN ListHead ELSE u[m]
      BY ONLY <1>2, <1>5, FirstIs, key \in Int, time \in [Channs -> Int]
    <2> QED BY ONLY <1>3, <1>4, <2>1 DEF Cut
  <1>7. PICK x : x = Index(u, hi, Len(u) + 1)
    OBVIOUS
  <1>8. PICK k : k = Index(w, hi, Len(w) + 1)
    OBVIOUS
  <1>9. PICK lo : lo = IF i = lv THEN 0 ELSE IF k = 1 THEN 0 ELSE Index(u, w[k - 1], 0)
    OBVIOUS
  <1>10. PICK T : T = {j \in DOMAIN u : lo < j /\ j < x /\ time[u[j]] >= key}
    OBVIOUS
  <1>11. EndIn(ls, lv, key, i, IF i = lv THEN ListHead ELSE FirstAt(ls[i + 1], key)) = IF T = {} THEN hi ELSE u[Min(T)]
    <2>1. EndIn(ls, lv, key, i, hi) = IF T = {} THEN hi ELSE u[Min(T)]
      BY ONLY <1>1, <1>7, <1>8, <1>9, <1>10 DEF EndIn
    <2> QED BY ONLY <1>1, <2>1
  <1>12. ListHead \notin Channs /\ ListHead \notin ToSet(u)
    BY <1>4, TimerAssumption DEF ToSet
  <1>13. ASSUME i # lv
         PROVE  /\ w \in Seq(Channs) /\ ToSet(w) \subseteq ToSet(u)
                /\ k \in 1..(Len(w) + 1) /\ \A j \in DOMAIN w : j < k <=> time[w[j]] < key
                /\ hi = IF k = Len(w) + 1 THEN ListHead ELSE w[k]
    <2>1. w \in Seq(Channs) /\ Once(w) /\ Timely(w, time) /\ ToSet(w) \subseteq ToSet(u) /\ hi = FirstAt(w, key)
      BY <1>1, <1>13
    <2>2. k = Index(w, FirstAt(w, key), Len(w) + 1)
      BY ONLY <1>8, <2>1
    <2>3. Cut(w, k, key, time) /\ FirstAt(w, key) = IF k = Len(w) + 1 THEN ListHead ELSE w[k]
      BY ONLY <2>1, <2>2, FirstIs, key \in Int, time \in [Channs -> Int]
    <2> QED BY ONLY <2>1, <2>3 DEF Cut
  <1>14. \A c \in ToSet(u) : \E j \in 1..n : u[j] = c /\ Index(u, c, Len(u) + 1) = j /\ Index(u, c, 0) = j
    <2>1. \A c \in ToSet(u) : \E j \in 1..n : u[j] = c
      BY ONLY <1>4 DEF ToSet
    <2>2. \A j \in 1..n : Index(u, u[j], Len(u) + 1) = j
      BY ONLY <1>2, <1>4, IndexOf
    <2>3. \A j \in 1..n : Index(u, u[j], 0) = j
      BY ONLY <1>2, <1>4, IndexOf
    <2> QED BY ONLY <2>1, <2>2, <2>3
  <1>15. x \in 1..(n + 1) /\ ~(x < m) /\ hi = IF x = n + 1 THEN ListHead ELSE u[x]
    <2>1. CASE hi = ListHead
      <3>1. x = n + 1
        BY ONLY <1>3, <1>7, <1>12, <2>1 DEF Index
      <3> QED BY ONLY <1>4, <1>6, <2>1, <3>1
    <2>2. CASE hi # ListHead
      <3>1. i # lv /\ k # Len(w) + 1 /\ hi = w[k]
        BY ONLY <1>1, <1>13, <2>2
      <3>2. k \in DOMAIN w /\ ~(k < k)
        BY ONLY <1>13, <3>1
      <3>3. hi \in ToSet(u) /\ ~(time[hi] < key)
        BY ONLY <1>13, <3>1, <3>2 DEF ToSet
      <3>4. x \in 1..n /\ u[x] = hi
        BY ONLY <1>7, <1>14, <3>3
      <3> QED BY ONLY <1>4, <1>6, <3>3, <3>4
    <2> QED BY ONLY <2>1, <2>2
  <1>16. lo \in Nat /\ lo < m
    <2>1. CASE lo = 0
      BY ONLY <1>4, <1>6, <2>1
    <2>2. CASE lo # 0
      <3>1. i # lv /\ k # 1 /\ lo = Index(u, w[k - 1], 0)
        BY ONLY <1>9, <2>2
      <3>2. k - 1 \in DOMAIN w /\ k - 1 < k
        BY ONLY <1>13, <3>1
      <3>3. w[k - 1] \in ToSet(u) /\ time[w[k - 1]] < key
        BY ONLY <1>13, <3>1, <3>2 DEF ToSet
      <3>4. lo \in 1..n /\ u[lo] = w[k - 1]
        BY ONLY <1>14, <3>1, <3>3
      <3> QED BY ONLY <1>4, <1>6, <3>3, <3>4
    <2> QED BY ONLY <2>1, <2>2
  <1>17. T = {j \in 1..n : m <= j /\ j < x}
    <2>1. \A j \in 1..n : time[u[j]] >= key <=> ~(j < m)
      BY ONLY <1>4, <1>6, key \in Int
    <2>2. \A j \in 1..n : (~(j < m) <=> m <= j) /\ (m <= j => lo < j)
      BY ONLY <1>4, <1>6, <1>16
    <2>3. T = {j \in 1..n : lo < j /\ j < x /\ time[u[j]] >= key}
      BY ONLY <1>4, <1>10
    <2>4. ASSUME NEW j \in 1..n
          PROVE  (lo < j /\ j < x /\ time[u[j]] >= key) <=> (m <= j /\ j < x)
      <3>1. time[u[j]] >= key <=> ~(j < m)
        BY ONLY <2>1, <2>4
      <3>2. (~(j < m) <=> m <= j) /\ (m <= j => lo < j)
        BY ONLY <2>2, <2>4
      <3> QED BY ONLY <3>1, <3>2, Zenon
    <2> QED BY ONLY <2>3, <2>4
  <1>18. CASE m = x
    <2>1. T = {}
      BY ONLY <1>4, <1>6, <1>17, <1>18
    <2> QED BY ONLY <1>1, <1>6, <1>11, <1>15, <1>18, <2>1
  <1>19. CASE m # x
    <2>1. m \in 1..n /\ m < x
      BY ONLY <1>4, <1>6, <1>15, <1>19
    <2>2. m \in T /\ \A j \in T : m <= j
      BY ONLY <1>4, <1>17, <2>1
    <2>3. \A y \in T : (\A j \in T : y <= j) => y = m
      BY ONLY <1>4, <1>6, <1>17, <2>2
    <2>4. Min(T) = m
      BY ONLY <2>2, <2>3 DEF Min
    <2>5. T # {} /\ m # n + 1
      BY ONLY <1>4, <2>1, <2>2
    <2> QED BY ONLY <1>1, <1>6, <1>11, <2>4, <2>5
  <1> QED BY ONLY <1>18, <1>19

(* The levels of a skip list: each is a list in order, and what is on a      *)
(* level is on the one below.                                                *)
Searchable(ls, lv) ==
    /\ \A i \in 1..lv : ls[i] \in Seq(Channs) /\ Once(ls[i]) /\ Timely(ls[i], time)
    /\ \A i \in 1..lv : i # lv => ToSet(ls[i + 1]) \subseteq ToSet(ls[i])

(* What skiplist_insert() finds on each level is the first node that is not  *)
(* earlier.  These first nodes satisfy the equation of the search; the       *)
(* highest level on which another solution differed from them would get the  *)
(* right node from the level above.                                          *)
LEMMA EndAtIs ==
  ASSUME NEW ls, NEW lv \in Nat, NEW key \in Int, time \in [Channs -> Int], Searchable(ls, lv)
  PROVE  \A i \in 1..lv : EndAt(ls, lv, key)[i] = FirstAt(ls[i], key)
  <1>1. PICK g : g = [i \in 1..lv |-> FirstAt(ls[i], key)]
    OBVIOUS
  <1>2. ASSUME NEW i \in 1..lv
        PROVE  EndIn(ls, lv, key, i, IF i = lv THEN ListHead ELSE FirstAt(ls[i + 1], key)) = FirstAt(ls[i], key)
    <2>1. ls[i] \in Seq(Channs) /\ Once(ls[i]) /\ Timely(ls[i], time)
      BY DEF Searchable
    <2>2. i # lv => i + 1 \in 1..lv
      OBVIOUS
    <2>3. i # lv => /\ ls[i + 1] \in Seq(Channs) /\ Once(ls[i + 1]) /\ Timely(ls[i + 1], time)
                    /\ ToSet(ls[i + 1]) \subseteq ToSet(ls[i])
      BY <2>2 DEF Searchable
    <2> QED BY ONLY <1>2, <2>1, <2>3, EndInIs, lv \in Nat, key \in Int, time \in [Channs -> Int]
  <1>3. \A i \in 1..lv : i # lv => i + 1 \in 1..lv
    OBVIOUS
  <1>4. g = [i \in 1..lv |-> EndIn(ls, lv, key, i, IF i = lv THEN ListHead ELSE g[i + 1])]
    <2>1. ASSUME NEW i \in 1..lv
          PROVE  g[i] = EndIn(ls, lv, key, i, IF i = lv THEN ListHead ELSE g[i + 1])
      <3>1. CASE i = lv
        BY ONLY <1>1, <1>2, <2>1, <3>1
      <3>2. CASE i # lv
        <4>1. g[i + 1] = FirstAt(ls[i + 1], key) /\ g[i] = FirstAt(ls[i], key)
          BY ONLY <1>1, <1>3, <2>1, <3>2
        <4> QED BY ONLY <1>2, <2>1, <3>2, <4>1
      <3> QED BY ONLY <3>1, <3>2
    <2> QED BY ONLY <1>1, <2>1
  <1>5. PICK e : e = EndAt(ls, lv, key)
    OBVIOUS
  <1>6. e = [i \in 1..lv |-> EndIn(ls, lv, key, i, IF i = lv THEN ListHead ELSE e[i + 1])]
    BY ONLY <1>4, <1>5 DEF EndAt
  <1>7. PICK D : D = {i \in 1..lv : e[i] # g[i]}
    OBVIOUS
  <1>8. ASSUME D # {} PROVE FALSE
    <2>1. D \in SUBSET Nat /\ IsFiniteSet(D)
      <3>1. D \in SUBSET (1..lv)
        BY ONLY <1>7
      <3>2. IsFiniteSet(1..lv)
        BY ONLY FS_Interval, lv \in Nat
      <3>3. IsFiniteSet(D)
        BY ONLY <3>1, <3>2, FS_Subset
      <3>4. D \in SUBSET Nat
        BY ONLY <3>1, lv \in Nat
      <3> QED BY ONLY <3>3, <3>4
    <2>2. PICK m \in D : \A j \in D : j <= m
      BY ONLY <1>8, <2>1, MaxOf
    <2>3. m \in 1..lv /\ e[m] # g[m]
      BY ONLY <1>7, <2>2
    <2>4. m # lv => m + 1 \in 1..lv /\ m + 1 \notin D
      BY ONLY <1>3, <2>1, <2>2, <2>3
    <2>5. m # lv => e[m + 1] = g[m + 1]
      BY ONLY <1>7, <2>4
    <2>6. e[m] = EndIn(ls, lv, key, m, IF m = lv THEN ListHead ELSE e[m + 1])
      BY ONLY <1>6, <2>3
    <2>7. g[m] = EndIn(ls, lv, key, m, IF m = lv THEN ListHead ELSE g[m + 1])
      BY ONLY <1>4, <2>3
    <2>8. (IF m = lv THEN ListHead ELSE e[m + 1]) = (IF m = lv THEN ListHead ELSE g[m + 1])
      BY ONLY <2>5
    <2> QED BY ONLY <2>3, <2>6, <2>7, <2>8
  <1>9. \A i \in 1..lv : e[i] = g[i]
    BY ONLY <1>7, <1>8
  <1> QED BY ONLY <1>1, <1>5, <1>9

-----------------------------------------------------------------------------
(* The shape of the list *)

InUse(ls) == {i \in Levels : ls[i] # <<>>}

(* The list level counts the levels in use; it is 1 before the first node.   *)
Counted(ls, lv) == lv \in 0..MaxLevel /\ (InUse(ls) = 1..lv \/ (ls[1] = <<>> /\ lv = 1))

Lists(ls) == \A i \in Levels : ls[i] \in Seq(Channs) /\ Once(ls[i])

(* A level holds the nodes that reach up to it. *)
Reached(ls, H) == \A i \in Levels : \A c : c \in ToSet(ls[i]) <=> c \in ToSet(ls[1]) /\ H[c] >= i

(* A level has the order of the lowest. *)
Aligned(ls) == \A i \in Levels : \A a, b : Before(ls[i], a, b) => Before(ls[1], a, b)

(* Nodes of heights H and times tm on the lists ls form a skip list. *)
Shape(ls, lv, H, tm) ==
    /\ Lists(ls) /\ Counted(ls, lv) /\ Reached(ls, H) /\ Aligned(ls) /\ Timely(ls[1], tm)
    /\ H \in [Channs -> 0..MaxLevel] /\ \A c \in ToSet(ls[1]) : H[c] >= 1

(* A list is empty when nothing is on it. *)
LEMMA EmptyIs ==
  ASSUME NEW S, NEW s \in Seq(S)
  PROVE  (s # <<>> <=> \E c : c \in ToSet(s)) /\ ToSet(s) \subseteq S
  <1>1. Len(s) \in Nat /\ DOMAIN s = 1..Len(s) /\ \A k \in 1..Len(s) : s[k] \in S
    OBVIOUS
  <1>2. ToSet(s) = {s[k] : k \in 1..Len(s)}
    BY ONLY <1>1 DEF ToSet
  <1>3. ASSUME s # <<>> PROVE s[1] \in ToSet(s)
    <2>1. 1 \in 1..Len(s)
      BY <1>3
    <2> QED BY ONLY <1>2, <2>1
  <1>4. ASSUME NEW c \in ToSet(s) PROVE s # <<>>
    <2>1. PICK k \in 1..Len(s) : s[k] = c
      BY ONLY <1>2, <1>4
    <2>2. Len(s) # 0
      BY ONLY <1>1, <2>1
    <2> QED BY <2>2
  <1> QED BY ONLY <1>1, <1>2, <1>3, <1>4

(* The levels in use are those that a node reaches. *)
LEMMA InUseIs ==
  ASSUME NEW ls, NEW H, Lists(ls), Reached(ls, H)
  PROVE  \A i \in Levels : i \in InUse(ls) <=> \E c : c \in ToSet(ls[1]) /\ H[c] >= i
  <1> SUFFICES ASSUME NEW i \in Levels
               PROVE  i \in InUse(ls) <=> \E c : c \in ToSet(ls[1]) /\ H[c] >= i
    OBVIOUS
  <1>1. ls[i] \in Seq(Channs)
    BY DEF Lists
  <1>2. ls[i] # <<>> <=> \E c : c \in ToSet(ls[i])
    BY ONLY <1>1, EmptyIs
  <1>3. \A c : c \in ToSet(ls[i]) <=> c \in ToSet(ls[1]) /\ H[c] >= i
    BY DEF Reached
  <1>4. i \in InUse(ls) <=> ls[i] # <<>>
    BY DEF InUse
  <1> QED BY ONLY <1>2, <1>3, <1>4

(* A set of levels without a gap. *)
LEMMA NoGap ==
  ASSUME NEW n \in Nat, NEW D \in SUBSET (1..n), \A i \in D : \A j \in 1..i : j \in D
  PROVE  D = 1..Cardinality(D) /\ Cardinality(D) \in 0..n
  <1>1. IsFiniteSet(1..n)
    BY FS_Interval
  <1>2. IsFiniteSet(D)
    BY ONLY <1>1, FS_Subset, D \in SUBSET (1..n)
  <1>3. CASE D = {}
    <2>1. Cardinality(D) = 0
      BY ONLY <1>3, FS_EmptySet
    <2>2. 1..0 = {}
      OBVIOUS
    <2> QED BY <1>3, <2>1, <2>2
  <1>4. CASE D # {}
    <2>1. D \in SUBSET Nat
      OBVIOUS
    <2>2. PICK m \in D : \A j \in D : j <= m
      BY ONLY <1>2, <1>4, <2>1, MaxOf
    <2>3. m \in 1..n
      BY <2>2
    <2>4. D = 1..m
      <3>1. ASSUME NEW j \in D PROVE j \in 1..m
        <4>1. j <= m /\ j \in 1..n
          BY <2>2, <3>1
        <4> QED BY ONLY <2>3, <4>1, n \in Nat
      <3>2. ASSUME NEW j \in 1..m PROVE j \in D
        BY <2>2
      <3> QED BY ONLY <3>1, <3>2
    <2>5. Cardinality(1..m) = IF 1 > m THEN 0 ELSE m - 1 + 1
      <3>1. 1 \in Int /\ m \in Int
        BY ONLY <2>3, n \in Nat
      <3> QED BY ONLY <3>1, FS_Interval
    <2>6. Cardinality(D) = m
      BY ONLY <2>3, <2>4, <2>5, n \in Nat
    <2> QED BY ONLY <2>3, <2>4, <2>6, n \in Nat
  <1> QED BY ONLY <1>3, <1>4

(* Heights and times of nodes that are not on the list do not matter. *)
LEMMA ShapeOf ==
  ASSUME NEW ls, NEW lv, NEW H, NEW tm, Shape(ls, lv, H, tm),
         NEW H2 \in [Channs -> 0..MaxLevel], NEW tm2,
         \A c \in ToSet(ls[1]) : H2[c] = H[c] /\ tm2[c] = tm[c]
  PROVE  Shape(ls, lv, H2, tm2)
  <1>1. 1 \in Levels
    BY TimerAssumption DEF Levels
  <1>2. Lists(ls) /\ Counted(ls, lv) /\ Reached(ls, H) /\ Aligned(ls) /\ Timely(ls[1], tm)
    BY DEF Shape
  <1>3. Reached(ls, H2)
    BY ONLY <1>2, \A c \in ToSet(ls[1]) : H2[c] = H[c] /\ tm2[c] = tm[c] DEF Reached
  <1>4. ls[1] \in Seq(Channs) /\ Once(ls[1])
    BY ONLY <1>1, <1>2 DEF Lists
  <1>5. \A a, b : Before(ls[1], a, b) => a \in ToSet(ls[1]) /\ b \in ToSet(ls[1])
    BY ONLY <1>4, BeforeIs
  <1>6. Timely(ls[1], tm2)
    BY ONLY <1>2, <1>5, \A c \in ToSet(ls[1]) : H2[c] = H[c] /\ tm2[c] = tm[c] DEF Timely
  <1>7. \A c \in ToSet(ls[1]) : H2[c] >= 1
    BY DEF Shape
  <1> QED BY ONLY <1>2, <1>3, <1>6, <1>7, H2 \in [Channs -> 0..MaxLevel] DEF Shape

(* The list without the nodes of C is a skip list of the level that          *)
(* skiplist_remove_skipnode() counts down to.                                *)
LEMMA ShapeRemoved ==
  ASSUME NEW C, Shape(link, level, height, time)
  PROVE  /\ Shape(Removed(C), RemovedLevel(C), height, time)
         /\ \A c : c \in ToSet(Removed(C)[1]) <=> c \in Armed /\ c \notin C
         /\ \A a, b : Before(Removed(C)[1], a, b) <=> a \notin C /\ b \notin C /\ Before(link[1], a, b)
  <1>1. 1 \in Levels /\ MaxLevel \in Nat /\ Levels = 1..MaxLevel
    BY TimerAssumption DEF Levels
  <1>2. /\ Lists(link) /\ Counted(link, level) /\ Reached(link, height) /\ Aligned(link) /\ Timely(link[1], time)
        /\ height \in [Channs -> 0..MaxLevel] /\ \A c \in ToSet(link[1]) : height[c] >= 1
    BY DEF Shape
  <1>3. PICK ls : ls = Removed(C)
    OBVIOUS
  <1>4. ASSUME NEW i \in Levels
        PROVE  /\ ls[i] \in Seq(Channs) /\ Once(ls[i])
               /\ \A c : c \in ToSet(ls[i]) <=> c \in ToSet(link[i]) /\ c \notin C
               /\ \A a, b : Before(ls[i], a, b) <=> a \notin C /\ b \notin C /\ Before(link[i], a, b)
    <2>1. ls[i] = Kept(link[i], C)
      BY ONLY <1>3, <1>4 DEF Removed
    <2>2. link[i] \in Seq(Channs) /\ Once(link[i])
      BY ONLY <1>2, <1>4 DEF Lists
    <2>3. ls[i] \in Seq(Channs) /\ Once(ls[i])
      BY ONLY <2>1, <2>2, KeptIs
    <2>4. /\ ToSet(ls[i]) = ToSet(link[i]) \ C
          /\ \A a, b : Before(ls[i], a, b) <=> a \notin C /\ b \notin C /\ Before(link[i], a, b)
      BY ONLY <2>1, <2>2, KeptOrder
    <2> QED BY ONLY <2>3, <2>4
  <1>5. Lists(ls)
    BY ONLY <1>4 DEF Lists
  <1>6. Reached(ls, height)
    BY ONLY <1>1, <1>2, <1>4 DEF Reached
  <1>7. Aligned(ls)
    BY ONLY <1>1, <1>2, <1>4 DEF Aligned
  <1>8. Timely(ls[1], time)
    BY ONLY <1>1, <1>2, <1>4 DEF Timely
  <1>9. \A c \in ToSet(ls[1]) : height[c] >= 1
    BY ONLY <1>1, <1>2, <1>4
  <1>10. PICK D, E : D = InUse(ls) /\ E = {i \in Levels : link[i] # <<>> /\ ls[i] = <<>>}
    OBVIOUS
  <1>11. RemovedLevel(C) = level - Cardinality(E)
    BY ONLY <1>3, <1>10 DEF RemovedLevel
  <1>12. \A i \in Levels : ls[i] # <<>> => link[i] # <<>>
    <2> SUFFICES ASSUME NEW i \in Levels, ls[i] # <<>> PROVE link[i] # <<>>
      OBVIOUS
    <2>1. ls[i] \in Seq(Channs) /\ link[i] \in Seq(Channs)
      BY ONLY <1>2, <1>4 DEF Lists
    <2>2. \E c : c \in ToSet(ls[i])
      BY ONLY <2>1, EmptyIs, ls[i] # <<>>
    <2>3. \E c : c \in ToSet(link[i])
      BY ONLY <1>4, <2>2
    <2> QED BY ONLY <2>1, <2>3, EmptyIs
  <1>13. D \in SUBSET (1..MaxLevel) /\ \A i \in D : \A j \in 1..i : j \in D
    <2>1. D \in SUBSET (1..MaxLevel)
      BY ONLY <1>1, <1>10 DEF InUse
    <2>2. ASSUME NEW i \in D, NEW j \in 1..i PROVE j \in D
      <3>1. i \in Levels /\ j \in Levels /\ j <= i /\ i \in 1..MaxLevel /\ j \in Nat
        BY ONLY <1>1, <2>1, <2>2
      <3>2. PICK c : c \in ToSet(ls[1]) /\ height[c] >= i
        BY ONLY <1>5, <1>6, <1>10, <2>2, <3>1, InUseIs
      <3>3. height[c] \in Nat
        <4>1. c \in Channs
          BY ONLY <1>1, <1>4, <3>2, EmptyIs
        <4> QED BY ONLY <1>1, <1>2, <4>1
      <3>4. height[c] >= j
        BY ONLY <3>1, <3>2, <3>3
      <3> QED BY ONLY <1>5, <1>6, <1>10, <3>1, <3>2, <3>4, InUseIs
    <2> QED BY ONLY <2>1, <2>2
  <1>14. D = 1..Cardinality(D) /\ Cardinality(D) \in 0..MaxLevel
    BY ONLY <1>1, <1>13, NoGap
  <1>15. ASSUME InUse(link) = 1..level
         PROVE  Counted(ls, RemovedLevel(C))
    <2>1. level \in Nat
      BY ONLY <1>1, <1>2 DEF Counted
    <2>2. IsFiniteSet(1..level) /\ Cardinality(1..level) = level
      <3>1. 1 \in Int /\ level \in Int
        BY ONLY <2>1
      <3>2. IsFiniteSet(1..level) /\ Cardinality(1..level) = IF 1 > level THEN 0 ELSE level - 1 + 1
        BY ONLY <3>1, FS_Interval
      <3> QED BY ONLY <2>1, <3>2
    <2>3. D = (1..level) \ E /\ E \in SUBSET (1..level)
      <3>1. E \in SUBSET InUse(link) /\ D = InUse(link) \ E
        BY ONLY <1>10, <1>12 DEF InUse
      <3> QED BY ONLY <1>15, <3>1
    <2>4. IsFiniteSet(E)
      BY ONLY <2>2, <2>3, FS_Subset
    <2>5. (1..level) \cap E = E
      BY ONLY <2>3
    <2>6. Cardinality(D) = Cardinality(1..level) - Cardinality((1..level) \cap E)
      BY ONLY <2>2, <2>3, FS_Difference
    <2>7. RemovedLevel(C) = Cardinality(D)
      BY ONLY <1>11, <2>2, <2>5, <2>6
    <2> QED BY ONLY <1>10, <1>14, <2>7 DEF Counted
  <1>16. ASSUME link[1] = <<>> /\ level = 1
         PROVE  Counted(ls, RemovedLevel(C))
    <2>1. link[1] \in Seq(Channs)
      BY ONLY <1>1, <1>2 DEF Lists
    <2>2. ~\E c : c \in ToSet(link[1])
      BY ONLY <1>16, <2>1, EmptyIs
    <2>3. InUse(link) = {}
      <3>1. \A i \in Levels : i \notin InUse(link)
        BY ONLY <1>2, <2>2, InUseIs
      <3> QED BY ONLY <3>1 DEF InUse
    <2>4. E = {}
      BY ONLY <1>10, <2>3 DEF InUse
    <2>5. RemovedLevel(C) = 1
      BY ONLY <1>11, <1>16, <2>4, FS_EmptySet
    <2>6. ls[1] = <<>>
      BY ONLY <1>1, <1>12, <1>16
    <2>7. 1 \in 0..MaxLevel
      BY ONLY <1>1
    <2> QED BY ONLY <2>5, <2>6, <2>7 DEF Counted
  <1>17. Counted(ls, RemovedLevel(C))
    <2>1. InUse(link) = 1..level \/ (link[1] = <<>> /\ level = 1)
      BY ONLY <1>2 DEF Counted
    <2> QED BY ONLY <1>15, <1>16, <2>1
  <1>18. Shape(ls, RemovedLevel(C), height, time)
    BY ONLY <1>2, <1>5, <1>6, <1>7, <1>8, <1>9, <1>17 DEF Shape
  <1> QED BY ONLY <1>1, <1>3, <1>4, <1>18 DEF Armed

(* r is the list ls with c on it, in shape, and the others in their order. *)
IsPut(r, ls, lv, H, c, t, h) ==
    /\ Shape(r, InsertedLevel(lv, h), [H EXCEPT ![c] = h], [time EXCEPT ![c] = t])
    /\ \A x : x \in ToSet(r[1]) <=> x \in ToSet(ls[1]) \/ x = c
    /\ \A a, b : a # c /\ b # c => (Before(r[1], a, b) <=> Before(ls[1], a, b))

(* skiplist_insert() of a node that is not on the list. *)
LEMMA ShapeInserted ==
  ASSUME NEW ls, NEW lv, NEW H, Shape(ls, lv, H, time), time \in [Channs -> Int],
         NEW c \in Channs, c \notin ToSet(ls[1]), NEW t \in Int, NEW h \in Levels,
         NEW r, r = Inserted(ls, lv, c, t, h)
  PROVE  IsPut(r, ls, lv, H, c, t, h)
  <1>1. 1 \in Levels /\ MaxLevel \in Nat /\ Levels = 1..MaxLevel /\ h \in 1..MaxLevel
    BY TimerAssumption DEF Levels
  <1>2. /\ Lists(ls) /\ Counted(ls, lv) /\ Reached(ls, H) /\ Aligned(ls) /\ Timely(ls[1], time)
        /\ H \in [Channs -> 0..MaxLevel] /\ \A x \in ToSet(ls[1]) : H[x] >= 1
    BY DEF Shape
  <1>3. PICK top : top = InsertedLevel(lv, h)
    OBVIOUS
  <1>4. lv \in 0..MaxLevel /\ top \in 1..MaxLevel /\ h <= top /\ top = IF h > lv THEN h ELSE lv
    <2>1. lv \in 0..MaxLevel
      BY ONLY <1>2 DEF Counted
    <2>2. top = IF h > lv THEN h ELSE lv
      BY ONLY <1>3 DEF InsertedLevel
    <2>3. CASE h > lv
      BY ONLY <1>1, <2>1, <2>2, <2>3
    <2>4. CASE ~(h > lv)
      BY ONLY <1>1, <2>1, <2>2, <2>4
    <2> QED BY ONLY <2>3, <2>4
  <1>5. \A i \in Levels : ls[i] \in Seq(Channs) /\ Once(ls[i])
    BY ONLY <1>2 DEF Lists
  <1>6. \A i \in Levels : \A x : x \in ToSet(ls[i]) <=> x \in ToSet(ls[1]) /\ H[x] >= i
    BY ONLY <1>2 DEF Reached
  <1>7. \A i \in Levels : c \notin ToSet(ls[i])
    BY ONLY <1>6, c \notin ToSet(ls[1])
  <1>8. \A i \in Levels : Timely(ls[i], time)
    BY ONLY <1>2 DEF Aligned, Timely
  <1>9. \A x \in ToSet(ls[1]) : x \in Channs /\ H[x] \in Nat
    <2>1. ToSet(ls[1]) \subseteq Channs
      BY ONLY <1>1, <1>5, EmptyIs
    <2> QED BY ONLY <1>1, <1>2, <2>1
  <1>10. Searchable(ls, top)
    <2>1. 1..top \subseteq Levels /\ top \in Nat
      BY ONLY <1>1, <1>4
    <2>2. ASSUME NEW i \in 1..top, i # top, NEW x \in ToSet(ls[i + 1])
          PROVE  x \in ToSet(ls[i])
      <3>1. i + 1 \in 1..top /\ i \in Nat
        BY ONLY <2>1, <2>2
      <3>2. i + 1 \in Levels /\ i \in Levels
        BY ONLY <2>1, <2>2, <3>1
      <3>3. x \in ToSet(ls[1]) /\ H[x] >= i + 1
        BY ONLY <1>6, <2>2, <3>2
      <3>4. H[x] >= i
        BY ONLY <1>9, <3>1, <3>3
      <3> QED BY ONLY <1>6, <3>2, <3>3, <3>4
    <2>3. \A i \in 1..top : ls[i] \in Seq(Channs) /\ Once(ls[i]) /\ Timely(ls[i], time)
      BY ONLY <1>5, <1>8, <2>1
    <2> QED BY ONLY <2>2, <2>3 DEF Searchable
  <1>11. PICK e : e = EndAt(ls, top, t)
    OBVIOUS
  <1>12. \A i \in 1..top : e[i] = FirstAt(ls[i], t)
    <2>1. top \in Nat
      BY ONLY <1>1, <1>4
    <2> QED BY ONLY <1>10, <1>11, <2>1, EndAtIs, t \in Int, time \in [Channs -> Int]
  <1>13. r = [i \in Levels |-> IF i <= h THEN InsertAt(ls[i], Index(ls[i], e[i], Len(ls[i]) + 1), c) ELSE ls[i]]
    BY ONLY <1>3, <1>11, r = Inserted(ls, lv, c, t, h) DEF Inserted
  <1> DEFINE Ends(i, a, b) == \/ b = c /\ a \in ToSet(ls[i]) /\ time[a] < t
                              \/ a = c /\ b \in ToSet(ls[i]) /\ ~(time[b] < t)
  <1>14. ASSUME NEW i \in Levels, i <= h
         PROVE  /\ r[i] \in Seq(Channs) /\ Once(r[i])
                /\ \A x : x \in ToSet(r[i]) <=> x \in ToSet(ls[i]) \/ x = c
                /\ \A a, b : Before(r[i], a, b) <=> Before(ls[i], a, b) \/ Ends(i, a, b)
    <2>1. PICK s, m : s = ls[i] /\ m = Index(ls[i], e[i], Len(ls[i]) + 1)
      OBVIOUS
    <2>2. r[i] = InsertAt(s, m, c)
      BY ONLY <1>13, <1>14, <2>1
    <2>3. i \in 1..top
      BY ONLY <1>1, <1>4, <1>14
    <2>4. m = Index(s, FirstAt(s, t), Len(s) + 1)
      BY ONLY <1>12, <2>1, <2>3
    <2>5. s \in Seq(Channs) /\ Once(s) /\ Timely(s, time) /\ c \notin ToSet(s)
      BY ONLY <1>5, <1>7, <1>8, <1>14, <2>1
    <2>6. Cut(s, m, t, time)
      BY ONLY <2>4, <2>5, FirstIs, t \in Int, time \in [Channs -> Int]
    <2>7. m \in 1..(Len(s) + 1)
      BY ONLY <2>6 DEF Cut
    <2>8. Once(InsertAt(s, m, c))
      BY ONLY <2>5, <2>7, InsertOnce, c \in Channs
    <2>9. InsertAt(s, m, c) \in Seq(Channs)
      BY ONLY <2>5, <2>7, InsertIs, c \in Channs
    <2>10. /\ ToSet(InsertAt(s, m, c)) = ToSet(s) \cup {c}
           /\ \A a, b : Before(InsertAt(s, m, c), a, b) <=>
                 \/ Before(s, a, b)
                 \/ b = c /\ a \in ToSet(s) /\ time[a] < t
                 \/ a = c /\ b \in ToSet(s) /\ ~(time[b] < t)
      BY ONLY <2>5, <2>6, InsertOrder, c \in Channs
    <2> QED BY ONLY <2>1, <2>2, <2>8, <2>9, <2>10
  <1>15. ASSUME NEW i \in Levels, ~(i <= h)
         PROVE  r[i] = ls[i]
    BY ONLY <1>13, <1>15
  <1>16. PICK H2, tm2 : H2 = [H EXCEPT ![c] = h] /\ tm2 = [time EXCEPT ![c] = t]
    OBVIOUS
  <1>17. /\ H2 \in [Channs -> 0..MaxLevel] /\ H2[c] = h /\ \A x \in Channs : x # c => H2[x] = H[x]
         /\ tm2[c] = t /\ \A x \in Channs : x # c => tm2[x] = time[x]
    BY ONLY <1>1, <1>2, <1>16, c \in Channs, time \in [Channs -> Int]
  <1>18. \A i \in Levels : \A x : x \in ToSet(r[i]) <=> x \in ToSet(ls[i]) \/ (x = c /\ i <= h)
    BY ONLY <1>14, <1>15
  <1>19. 1 <= h
    BY ONLY <1>1
  <1>20. \A x : x \in ToSet(r[1]) <=> x \in ToSet(ls[1]) \/ x = c
    BY ONLY <1>1, <1>14, <1>19
  <1>21. \A a, b : Before(r[1], a, b) <=> Before(ls[1], a, b) \/ Ends(1, a, b)
    BY ONLY <1>1, <1>14, <1>19
  <1>22. \A i \in Levels : \A a, b : Before(ls[i], a, b) => a \in ToSet(ls[i]) /\ b \in ToSet(ls[i])
    BY ONLY <1>5, BeforeIs
  <1>23. Lists(r)
    BY ONLY <1>5, <1>14, <1>15 DEF Lists
  <1>24. Reached(r, H2)
    <2> SUFFICES ASSUME NEW i \in Levels, NEW x
                 PROVE  x \in ToSet(r[i]) <=> x \in ToSet(r[1]) /\ H2[x] >= i
      BY DEF Reached
    <2>1. CASE x = c
      <3>1. H2[x] >= i <=> i <= h
        BY ONLY <1>1, <1>17, <2>1, i \in Levels
      <3> QED BY ONLY <1>7, <1>18, <1>20, <2>1, <3>1
    <2>2. CASE x # c
      <3>1. x \in ToSet(ls[1]) => H2[x] = H[x]
        BY ONLY <1>9, <1>17, <2>2
      <3> QED BY ONLY <1>6, <1>18, <1>20, <2>2, <3>1
    <2> QED BY ONLY <2>1, <2>2
  <1>25. Aligned(r)
    <2> SUFFICES ASSUME NEW i \in Levels, NEW a, NEW b, Before(r[i], a, b)
                 PROVE  Before(r[1], a, b)
      BY DEF Aligned
    <2>1. Before(ls[i], a, b) => Before(ls[1], a, b)
      BY ONLY <1>2 DEF Aligned
    <2>2. Before(ls[i], a, b) \/ Ends(i, a, b)
      BY ONLY <1>14, <1>15, Before(r[i], a, b)
    <2>3. Ends(i, a, b) => Ends(1, a, b)
      BY ONLY <1>6
    <2> QED BY ONLY <1>21, <2>1, <2>2, <2>3
  <1>26. Timely(r[1], tm2)
    <2> SUFFICES ASSUME NEW a, NEW b, Before(r[1], a, b)
                 PROVE  tm2[a] <= tm2[b]
      BY DEF Timely
    <2>1. CASE Before(ls[1], a, b)
      <3>1. a \in ToSet(ls[1]) /\ b \in ToSet(ls[1])
        BY ONLY <1>1, <1>22, <2>1
      <3>2. tm2[a] = time[a] /\ tm2[b] = time[b]
        BY ONLY <1>9, <1>17, <3>1, c \notin ToSet(ls[1])
      <3>3. time[a] <= time[b]
        BY ONLY <1>2, <2>1 DEF Timely
      <3> QED BY ONLY <3>2, <3>3
    <2>2. CASE b = c /\ a \in ToSet(ls[1]) /\ time[a] < t
      <3>1. tm2[a] = time[a] /\ tm2[b] = t /\ time[a] \in Int
        BY ONLY <1>9, <1>17, <2>2, c \notin ToSet(ls[1]), time \in [Channs -> Int]
      <3> QED BY ONLY <2>2, <3>1, t \in Int
    <2>3. CASE a = c /\ b \in ToSet(ls[1]) /\ ~(time[b] < t)
      <3>1. tm2[b] = time[b] /\ tm2[a] = t /\ time[b] \in Int
        BY ONLY <1>9, <1>17, <2>3, c \notin ToSet(ls[1]), time \in [Channs -> Int]
      <3> QED BY ONLY <2>3, <3>1, t \in Int
    <2> QED BY ONLY <1>21, <2>1, <2>2, <2>3, Before(r[1], a, b)
  <1>27. \A x \in ToSet(r[1]) : H2[x] >= 1
    <2> SUFFICES ASSUME NEW x \in ToSet(r[1]) PROVE H2[x] >= 1
      OBVIOUS
    <2>1. CASE x = c
      BY ONLY <1>1, <1>17, <2>1
    <2>2. CASE x # c
      BY ONLY <1>2, <1>9, <1>17, <1>20, <2>2, x \in ToSet(r[1])
    <2> QED BY ONLY <2>1, <2>2
  <1>28. \A i \in Levels : i \in InUse(r) <=> i <= h \/ i \in InUse(ls)
    <2> SUFFICES ASSUME NEW i \in Levels PROVE i \in InUse(r) <=> i <= h \/ i \in InUse(ls)
      OBVIOUS
    <2>1. i \in InUse(r) <=> \E x : x \in ToSet(r[i])
      BY ONLY <1>23, EmptyIs, i \in Levels DEF InUse, Lists
    <2>2. i \in InUse(ls) <=> \E x : x \in ToSet(ls[i])
      BY ONLY <1>5, EmptyIs, i \in Levels DEF InUse
    <2> QED BY ONLY <1>18, <2>1, <2>2, i \in Levels
  <1>29. Counted(r, top)
    <2>1. ASSUME NEW i \in Levels PROVE i \in InUse(r) <=> i <= top
      <3>1. i \in Nat /\ h \in Nat /\ lv \in Nat /\ top \in Nat /\ 1 <= i /\ 1 <= h
        BY ONLY <1>1, <1>4, <2>1
      <3>2. CASE InUse(ls) = 1..lv
        <4>1. i \in InUse(ls) <=> i <= lv
          BY ONLY <3>1, <3>2
        <4> QED BY ONLY <1>4, <1>28, <2>1, <3>1, <4>1
      <3>3. CASE ls[1] = <<>> /\ lv = 1
        <4>1. ~\E x : x \in ToSet(ls[1])
          BY ONLY <1>1, <1>5, <3>3, EmptyIs
        <4>2. i \notin InUse(ls)
          BY ONLY <1>2, <2>1, <4>1, InUseIs
        <4>3. top = h
          BY ONLY <1>4, <3>1, <3>3
        <4> QED BY ONLY <1>28, <2>1, <4>2, <4>3
      <3> QED BY ONLY <1>2, <3>2, <3>3 DEF Counted
    <2>2. InUse(r) \subseteq Levels
      BY ONLY DEF InUse
    <2>3. \A i \in 1..top : i \in Levels /\ i <= top
      BY ONLY <1>1, <1>4
    <2>4. \A i \in Levels : i <= top => i \in 1..top
      BY ONLY <1>1, <1>4
    <2>5. InUse(r) = 1..top
      BY ONLY <2>1, <2>2, <2>3, <2>4
    <2>6. top \in 0..MaxLevel
      BY ONLY <1>1, <1>4
    <2> QED BY ONLY <2>5, <2>6 DEF Counted
  <1>30. Shape(r, top, H2, tm2)
    BY ONLY <1>17, <1>23, <1>24, <1>25, <1>26, <1>27, <1>29 DEF Shape
  <1>31. ASSUME NEW a, NEW b, a # c, b # c
         PROVE  Before(r[1], a, b) <=> Before(ls[1], a, b)
    BY ONLY <1>21, <1>31
  <1> QED BY ONLY <1>3, <1>16, <1>20, <1>30, <1>31 DEF IsPut

-----------------------------------------------------------------------------
(* The timers *)

LinksOK == link \in [Levels -> Seq(Channs)] /\ \A i \in Levels : Once(link[i])

(* Every node is on a level once and belongs to a chann that is not freed,   *)
(* and so does the node under the cursor, which _tm_next() will put back;    *)
(* the time in the list is no earlier than what the application expects.     *)
TimersOK ==
    /\ LinksOK
    /\ state \in [Channs -> {"free", "open", "closed"}]
    /\ time \in [Channs -> Int] /\ due \in [Channs -> Int]
    /\ interval \in [Channs -> (-IntMax - 1)..IntMax]
    /\ now \in Nat /\ current \in Nat /\ current <= now
    /\ pos \in Channs \cup {Null, ListHead, Freed}
    /\ TimerOwnerAlive /\ (pos \in Channs => state[pos] # "free")
    /\ \A c \in Channs \ wild : due[c] <= time[c]

(* The remainder of a number that is smaller than the divisor. *)
LEMMA Small ==
  ASSUME NEW x \in Int, NEW m \in Int, 0 <= x, x < m
  PROVE  x % m = x
  OBVIOUS

(* The conversion to int gives an int, and an int as it is. *)
LEMMA Int32Is ==
  ASSUME NEW v \in Int
  PROVE  /\ Int32(v) \in (-IntMax - 1)..IntMax
         /\ v \in (-IntMax - 1)..IntMax => Int32(v) = v
  <1>1. IntMax \in Nat
    BY TimerAssumption
  <1>2. PICK m : m = 2 * (IntMax + 1)
    OBVIOUS
  <1>3. PICK x : x = v + IntMax + 1
    OBVIOUS
  <1>4. m \in Int /\ m > 0 /\ x \in Int
    BY ONLY <1>1, <1>2, <1>3, v \in Int
  <1>5. x % m \in 0..(m - 1)
    BY ONLY <1>4
  <1>6. Int32(v) = (x % m) - (IntMax + 1)
    BY ONLY <1>2, <1>3 DEF Int32
  <1>7. Int32(v) \in (-IntMax - 1)..IntMax
    BY ONLY <1>1, <1>2, <1>5, <1>6
  <1>8. ASSUME v \in (-IntMax - 1)..IntMax
        PROVE  Int32(v) = v
    <2>1. 0 <= x /\ x < m
      BY ONLY <1>1, <1>2, <1>3, <1>8
    <2>2. x % m = x
      BY ONLY <1>4, <2>1, Small
    <2> QED BY ONLY <1>1, <1>3, <1>6, <2>2, v \in Int
  <1> QED BY ONLY <1>7, <1>8

(* Nodes are taken out. *)
LEMMA RemovedIs ==
  ASSUME LinksOK, NEW C, NEW i \in Levels
  PROVE  /\ Removed(C)[i] \in Seq(Channs) /\ Once(Removed(C)[i])
         /\ ToSet(Removed(C)[i]) \subseteq ToSet(link[i]) \ C
  <1>1. link[i] \in Seq(Channs) /\ Once(link[i])
    BY DEF LinksOK
  <1>2. Removed(C)[i] = Kept(link[i], C)
    BY DEF Removed
  <1> QED BY ONLY <1>1, <1>2, KeptIs

(* _tm_update() and _tm_active(): the node of c goes to another place. *)
LEMMA PutIs ==
  ASSUME LinksOK, NEW c \in Channs, NEW t, PutAt(c, t)
  PROVE  LinksOK' /\ Armed' \subseteq Armed \cup {c} /\ time' = [time EXCEPT ![c] = t]
  <1>1. PICK h \in Levels : /\ link' = Inserted(Removed({c}), RemovedLevel({c}), c, t, h)
                            /\ time' = [time EXCEPT ![c] = t]
    BY DEF PutAt
  <1>2. PICK ls : ls = Removed({c})
    OBVIOUS
  <1>3. PICK end : end = EndAt(ls, InsertedLevel(RemovedLevel({c}), h), t)
    OBVIOUS
  <1>4. link' = [i \in Levels |-> IF i <= h THEN InsertAt(ls[i], Index(ls[i], end[i], Len(ls[i]) + 1), c) ELSE ls[i]]
    BY <1>1, <1>2, <1>3 DEF Inserted
  <1>5. ASSUME NEW i \in Levels
        PROVE  link'[i] \in Seq(Channs) /\ Once(link'[i]) /\ ToSet(link'[i]) \subseteq ToSet(link[i]) \cup {c}
    <2>1. PICK s : s = ls[i]
      OBVIOUS
    <2>2. s \in Seq(Channs) /\ Once(s) /\ ToSet(s) \subseteq ToSet(link[i]) \ {c}
      BY <1>2, <2>1, RemovedIs
    <2>3. PICK k : k = Index(s, end[i], Len(s) + 1)
      OBVIOUS
    <2>4. k \in 1..(Len(s) + 1)
      BY ONLY <2>2, <2>3, IndexIs
    <2>5. CASE i <= h
      <3>1. link'[i] = InsertAt(s, k, c)
        BY ONLY <1>4, <1>5, <2>1, <2>3, <2>5
      <3>2. c \in Channs /\ c \notin ToSet(s)
        BY <2>2
      <3>3. InsertAt(s, k, c) \in Seq(Channs)
        BY ONLY <2>2, <2>4, <3>2, InsertIs, Zenon
      <3>4. Once(InsertAt(s, k, c)) /\ ToSet(InsertAt(s, k, c)) \subseteq ToSet(s) \cup {c}
        BY ONLY <2>2, <2>4, <3>2, InsertOnce, Zenon
      <3> QED BY ONLY <2>2, <3>1, <3>3, <3>4
    <2>6. CASE ~(i <= h)
      <3>1. link'[i] = s
        BY ONLY <1>4, <1>5, <2>1, <2>6
      <3> QED BY ONLY <2>2, <3>1
    <2> QED BY ONLY <2>5, <2>6
  <1>6. DOMAIN link' = Levels /\ link' = [i \in Levels |-> link'[i]]
    BY ONLY <1>4
  <1>7. LinksOK'
    BY ONLY <1>5, <1>6 DEF LinksOK, Levels
  <1>8. 1 \in Levels
    BY TimerAssumption DEF Levels
  <1>9. Armed' \subseteq Armed \cup {c}
    BY <1>5, <1>8 DEF Armed
  <1> QED BY <1>1, <1>7, <1>9

(* _tm_kill() of the timers of C. *)
LEMMA KillIs ==
  ASSUME TimersOK, NEW C, TmKill(C)
  PROVE  /\ LinksOK' /\ Armed' \subseteq Armed \ C
         /\ time' \in [Channs -> Int] /\ due' \in [Channs -> Int]
         /\ interval' \in [Channs -> (-IntMax - 1)..IntMax]
         /\ \A c \in Channs \ wild' : due'[c] <= time'[c]
  <1>1. link' = Removed(C) /\ LinksOK
    BY DEF TmKill, TimersOK
  <1>2. \A i \in Levels : link'[i] \in Seq(Channs) /\ Once(link'[i]) /\ ToSet(link'[i]) \subseteq ToSet(link[i]) \ C
    BY ONLY <1>1, RemovedIs
  <1>3. link' = [i \in Levels |-> link'[i]]
    BY ONLY <1>1 DEF Removed
  <1>4. LinksOK'
    BY ONLY <1>2, <1>3 DEF LinksOK, Levels
  <1>5. Armed' \subseteq Armed \ C
    <2>1. 1 \in Levels
      BY TimerAssumption DEF Levels
    <2> QED BY ONLY <1>2, <2>1 DEF Armed
  <1>6. 0 \in (-IntMax - 1)..IntMax
    BY TimerAssumption
  <1>7. interval' \in [Channs -> (-IntMax - 1)..IntMax]
    BY <1>6 DEF TmKill, TimersOK
  <1>8. time' \in [Channs -> Int] /\ due' \in [Channs -> Int]
    BY DEF TmKill, TimersOK
  <1>9. ASSUME NEW c \in Channs \ wild'
        PROVE  due'[c] <= time'[c]
    <2>1. CASE c \in C
      BY <2>1 DEF TmKill
    <2>2. CASE c \notin C
      BY <2>2, <1>9 DEF TmKill, TimersOK
    <2> QED BY <2>1, <2>2
  <1> QED BY ONLY <1>4, <1>5, <1>7, <1>8, <1>9

(* The cursor stays a place. *)
LEMMA CursorIs ==
  ASSUME NEW p \in Channs \cup {Null, ListHead, Freed}, NEW C
  PROVE  /\ CursorWithout(p, C) \in Channs \cup {Null, ListHead, Freed}
         /\ CursorWithout(p, C) \in Channs => CursorWithout(p, C) = p
  BY TimerAssumption DEF CursorWithout

(* mnet_chann_active_event() with an interval. *)
LEMMA TimersSet ==
  ASSUME TimersOK, NEW c \in Channs, NEW v \in Intervals, SetTimer(c, v)
  PROVE  TimersOK'
  <1>1. v \in Nat /\ v \in Int /\ now \in Nat
    BY TimerAssumption DEF TimersOK
  <1>2. Int32(v) \in (-IntMax - 1)..IntMax /\ IntMax \in Nat
    BY <1>1, Int32Is, TimerAssumption
  <1>3. PICK t : PutAt(c, t) /\ t \in {now + Int32(v), now + v}
    BY DEF SetTimer, TmUpdate, TmActive
  <1>4. LinksOK' /\ Armed' \subseteq Armed \cup {c} /\ time' = [time EXCEPT ![c] = t]
    BY <1>3, PutIs DEF TimersOK
  <1>5. t \in Int /\ (Fits(v) => t = now + v)
    BY ONLY <1>1, <1>2, <1>3 DEF Fits
  <1>6. time' \in [Channs -> Int]
    BY <1>4, <1>5 DEF TimersOK
  <1>7. interval' \in [Channs -> (-IntMax - 1)..IntMax]
    <2>1. interval' = [interval EXCEPT ![c] = Int32(v)]
      BY DEF SetTimer, TmUpdate, TmActive
    <2> QED BY <1>2, <2>1 DEF TimersOK
  <1>8. due' \in [Channs -> Int]
    BY <1>1 DEF SetTimer, TimersOK
  <1>9. ASSUME NEW d \in Channs \ wild'
        PROVE  due'[d] <= time'[d]
    <2>1. CASE d = c
      <3>1. Fits(v)
        BY <1>9, <2>1 DEF SetTimer
      <3>2. due'[c] = now + v /\ time'[c] = now + v
        BY <1>4, <1>5, <3>1 DEF SetTimer, TimersOK
      <3> QED BY ONLY <1>1, <2>1, <3>2
    <2>2. CASE d # c
      <3>1. due'[d] = due[d] /\ time'[d] = time[d] /\ d \in Channs \ wild
        BY <1>4, <1>9, <2>2 DEF SetTimer, TimersOK
      <3> QED BY <3>1 DEF TimersOK
    <2> QED BY <2>1, <2>2
  <1>10. pos' \in Channs \cup {Null, ListHead, Freed} /\ (pos' \in Channs => pos' = pos)
    BY CursorIs DEF SetTimer, TimersOK
  <1>11. TimerOwnerAlive' /\ state' = state /\ now' = now /\ current' = current
    BY <1>4 DEF SetTimer, TimersOK, TimerOwnerAlive
  <1> QED BY <1>4, <1>6, <1>7, <1>8, <1>9, <1>10, <1>11 DEF TimersOK

(* The node after the cursor is another one. *)
LEMMA NextIs ==
  ASSUME LinksOK, NEW c \in Channs
  PROVE  Next1(c) \in (Armed \cup {ListHead}) \ {c} /\ Armed \subseteq Channs
  <1>1. PICK s : s = link[1]
    OBVIOUS
  <1>2. s \in Seq(Channs) /\ Once(s)
    BY <1>1, TimerAssumption DEF LinksOK, Levels
  <1>3. PICK i : i = Index(s, c, 0)
    OBVIOUS
  <1>4. Len(s) \in Nat /\ DOMAIN s = 1..Len(s) /\ \A k \in 1..Len(s) : s[k] \in Channs
    BY <1>2
  <1>5. i \in 0..Len(s) /\ \A k \in 1..Len(s) : s[k] = c => k = i
    <2>1. CASE c \in ToSet(s)
      <3>1. i \in DOMAIN s /\ s[i] = c
        BY <1>3, <2>1 DEF Index, ToSet
      <3> QED BY ONLY <1>2, <1>4, <3>1 DEF Once
    <2>2. CASE c \notin ToSet(s)
      <3>1. i = 0 /\ \A k \in 1..Len(s) : s[k] # c
        BY <1>3, <1>4, <2>2 DEF Index, ToSet
      <3> QED BY ONLY <1>4, <3>1
    <2> QED BY ONLY <2>1, <2>2
  <1>a. Armed = ToSet(s)
    BY <1>1 DEF Armed
  <1>b. Armed \subseteq Channs /\ \A k \in 1..Len(s) : s[k] \in Armed
    BY ONLY <1>a, <1>4 DEF ToSet
  <1>6. Next1(c) = IF i = Len(s) THEN ListHead ELSE s[i + 1]
    BY <1>1, <1>3 DEF Next1
  <1>7. CASE i = Len(s)
    BY <1>b, <1>6, <1>7, TimerAssumption
  <1>8. CASE i # Len(s)
    <2>0. Len(s) \in Nat /\ i \in 0..Len(s)
      BY ONLY <1>4, <1>5
    <2>1. i + 1 \in 1..Len(s) /\ i + 1 # i
      BY ONLY <1>8, <2>0
    <2>2. s[i + 1] \in Armed /\ s[i + 1] # c
      BY ONLY <1>b, <1>5, <2>1
    <2> QED BY ONLY <1>b, <1>6, <1>8, <2>2
  <1> QED BY ONLY <1>7, <1>8

(* A timer is reported and put back. *)
LEMMA TimersHit ==
  ASSUME TimersOK, NEW c \in Channs, TmHit(c)
  PROVE  TimersOK'
  <1>1. interval[c] \in (-IntMax - 1)..IntMax /\ IntMax \in Nat /\ now \in Nat
    BY TimerAssumption DEF TimersOK
  <1>2. Int32(interval[c]) = interval[c] /\ interval[c] \in Int
    <2>1. interval[c] \in Int
      BY ONLY <1>1
    <2> QED BY ONLY <1>1, <2>1, Int32Is
  <1>3. PICK t : PutAt(c, t) /\ t = now + interval[c]
    BY <1>2 DEF TmHit, TmUpdate
  <1>4. LinksOK' /\ Armed' \subseteq Armed \cup {c} /\ time' = [time EXCEPT ![c] = t]
    BY <1>3, PutIs DEF TimersOK
  <1>5. t \in Int
    BY ONLY <1>1, <1>2, <1>3
  <1>6. time' \in [Channs -> Int]
    BY <1>4, <1>5 DEF TimersOK
  <1>7. interval' \in [Channs -> (-IntMax - 1)..IntMax]
    <2>1. interval' = [interval EXCEPT ![c] = interval[c]]
      BY <1>2 DEF TmHit, TmUpdate
    <2> QED BY <1>1, <2>1 DEF TimersOK
  <1>8. due' \in [Channs -> Int]
    BY <1>1, <1>2 DEF TmHit, TimersOK
  <1>9. ASSUME NEW d \in Channs \ wild'
        PROVE  due'[d] <= time'[d]
    <2>1. CASE d = c
      <3>1. due'[c] = now + interval[c] /\ time'[c] = now + interval[c]
        BY <1>3, <1>4, <1>9, <2>1 DEF TmHit, TimersOK
      <3> QED BY ONLY <1>1, <1>2, <2>1, <3>1
    <2>2. CASE d # c
      <3>1. due'[d] = due[d] /\ time'[d] = time[d] /\ d \in Channs \ wild
        BY <1>4, <1>9, <2>2 DEF TmHit, TimersOK
      <3> QED BY <3>1 DEF TimersOK
    <2> QED BY <2>1, <2>2
  <1>10. pos' \in Channs \cup {Null, ListHead, Freed} /\ (pos' \in Channs => pos' \in Armed)
    <2>1. Next1(c) \in Armed \cup {ListHead} /\ Armed \subseteq Channs
      BY NextIs DEF TimersOK
    <2>2. Next1(c) \in Channs \cup {Null, ListHead, Freed} /\ (Next1(c) \in Channs => Next1(c) \in Armed)
      BY <2>1, TimerAssumption
    <2> QED BY <2>2, CursorIs DEF TmHit
  <1>11. state' = state /\ now' = now /\ current' = current
    BY DEF TmHit
  <1>12. TimerOwnerAlive' /\ (pos' \in Channs => state'[pos'] # "free")
    BY <1>4, <1>10, <1>11 DEF TmHit, TimersOK, TimerOwnerAlive
  <1> QED BY <1>4, <1>6, <1>7, <1>8, <1>9, <1>10, <1>11, <1>12 DEF TimersOK

(* mnet_poll() destroys the closed channs and puts the cursor on a node. *)
LEMMA TimersPoll ==
  ASSUME TimersOK, Poll
  PROVE  TimersOK' /\ pos' # Freed
  <1>1. /\ LinksOK' /\ Armed' \subseteq Armed \ Closed
        /\ time' \in [Channs -> Int] /\ due' \in [Channs -> Int]
        /\ interval' \in [Channs -> (-IntMax - 1)..IntMax]
        /\ \A c \in Channs \ wild' : due'[c] <= time'[c]
    BY KillIs DEF Poll
  <1>2. state' \in [Channs -> {"free", "open", "closed"}]
    BY DEF Poll, TimersOK
  <1>3. now' = now /\ current' \in {current, now}
    BY DEF Poll, TmSchedule
  <1>4. now' \in Nat /\ current' \in Nat /\ current' <= now'
    BY <1>3 DEF TimersOK
  <1>5. link'[1] \in Seq(Channs)
    BY <1>1, TimerAssumption DEF LinksOK, Levels
  <1>6. pos' = Null \/ (pos' = link'[1][1] /\ link'[1] # <<>>)
    BY DEF Poll, TmSchedule
  <1>7. link'[1] # <<>> => link'[1][1] \in Armed'
    <2>1. link'[1] # <<>> => 1 \in DOMAIN link'[1]
      BY <1>5
    <2> QED BY <2>1 DEF Armed, ToSet
  <1>8. Armed' \subseteq Channs
    BY <1>5 DEF Armed, ToSet
  <1>9. \A c \in Armed' : state'[c] # "free"
    BY <1>1, <1>8 DEF Poll, TimersOK, TimerOwnerAlive
  <1>10. /\ pos' \in Channs \cup {Null, ListHead, Freed} /\ pos' # Freed
         /\ pos' \in Channs => pos' \in Armed'
    BY <1>6, <1>7, <1>8, TimerAssumption
  <1>11. TimerOwnerAlive' /\ (pos' \in Channs => state'[pos'] # "free")
    BY <1>9, <1>10 DEF TimerOwnerAlive
  <1> QED BY <1>1, <1>2, <1>4, <1>10, <1>11 DEF TimersOK

(* mnet_chann_active_event() with 0. *)
LEMMA TimersKill ==
  ASSUME TimersOK, NEW c \in Channs, KillTimer(c)
  PROVE  TimersOK'
  <1>1. /\ LinksOK' /\ Armed' \subseteq Armed \ {c}
        /\ time' \in [Channs -> Int] /\ due' \in [Channs -> Int]
        /\ interval' \in [Channs -> (-IntMax - 1)..IntMax]
        /\ \A d \in Channs \ wild' : due'[d] <= time'[d]
    BY KillIs DEF KillTimer
  <1>2. pos' \in Channs \cup {Null, ListHead, Freed} /\ (pos' \in Channs => pos' = pos)
    BY CursorIs DEF KillTimer, TimersOK
  <1>3. state' = state /\ now' = now /\ current' = current
    BY DEF KillTimer
  <1>4. TimerOwnerAlive' /\ (pos' \in Channs => state'[pos'] # "free")
    BY <1>1, <1>2, <1>3 DEF TimersOK, TimerOwnerAlive
  <1> QED BY <1>1, <1>2, <1>3, <1>4 DEF TimersOK

(* The steps that leave the list alone. *)
LEMMA TimersQuiet ==
  ASSUME TimersOK, \/ Tick \/ TmMiss \/ TmNextFreed \/ UNCHANGED vars \/ \E c \in Channs : Close(c)
  PROVE  TimersOK'
  <1>1. UNCHANGED <<link, time, due, interval, current, wild>>
    BY DEF Tick, TmMiss, TmNextFreed, vars, Close
  <1>2. LinksOK' /\ Armed' = Armed
    BY <1>1 DEF TimersOK, LinksOK, Armed
  <1>3. now' \in Nat /\ current <= now'
    BY DEF TimersOK, Tick, TmMiss, TmNextFreed, vars, Close
  <1>4. pos' \in {pos, Null}
    BY DEF Tick, TmMiss, TmNextFreed, vars, Close
  <1>5. /\ state' \in [Channs -> {"free", "open", "closed"}]
        /\ \A c \in Channs : state[c] # "free" => state'[c] # "free"
    BY DEF TimersOK, Tick, TmMiss, TmNextFreed, vars, Close
  <1>6. link[1] \in Seq(Channs)
    BY TimerAssumption DEF TimersOK, LinksOK, Levels
  <1>7. Armed \subseteq Channs
    BY <1>6 DEF Armed, ToSet
  <1>8. TimerOwnerAlive' /\ (pos' \in Channs => state'[pos'] # "free")
    BY <1>2, <1>4, <1>5, <1>7, TimerAssumption DEF TimersOK, TimerOwnerAlive
  <1>9. pos' \in Channs \cup {Null, ListHead, Freed}
    BY <1>4 DEF TimersOK
  <1> QED BY <1>1, <1>2, <1>3, <1>5, <1>8, <1>9 DEF TimersOK

(* skiplist_create(), and channs without a timer. *)
LEMMA TimersInit ==
  ASSUME Init
  PROVE  TimersOK
  <1>1. link = [i \in Levels |-> <<>>] /\ 1 \in Levels
    BY TimerAssumption DEF Init, Levels
  <1>2. LinksOK
    BY <1>1 DEF LinksOK, Once
  <1>3. Armed = {}
    BY <1>1 DEF Armed, ToSet
  <1>4. 0 \in (-IntMax - 1)..IntMax
    BY TimerAssumption
  <1>5. interval \in [Channs -> (-IntMax - 1)..IntMax] /\ time \in [Channs -> Int] /\ due \in [Channs -> Int]
    BY <1>4 DEF Init
  <1>6. \A c \in Channs \ wild : due[c] <= time[c]
    BY DEF Init
  <1> QED BY <1>2, <1>3, <1>5, <1>6, TimerAssumption DEF Init, TimersOK, TimerOwnerAlive

(* The inductive invariant. *)
LEMMA TimersInvariant ==
  Spec => []TimersOK
  <1>1. Init => TimersOK
    BY TimersInit
  <1>2. TimersOK /\ [Next]_vars => TimersOK'
    BY TimersQuiet, TimersPoll, TimersKill, TimersSet, TimersHit DEF Next, ResultNext
  <1> QED BY <1>1, <1>2, PTL DEF Spec

-----------------------------------------------------------------------------
(* The list that the timers are on *)

ShapeOK == Shape(link, level, height, time)

(* The nodes outside of C keep their order. *)
OrderKept(C) == \A a, b : a \notin C /\ b \notin C => (Before(link'[1], a, b) <=> Before(link[1], a, b))

(* The list is a skip list, the cursor is on it, if on a node at all, and a  *)
(* timer whose interval fits the int repeats.                                *)
ListOK ==
    /\ TimersOK /\ ShapeOK
    /\ now <= MaxTime
    /\ pos \in Channs => pos \in Armed
    /\ wild \subseteq Channs
    /\ \A c \in Armed : c \notin wild => interval[c] >= 1

(* _tm_update() and _tm_active() move one node. *)
LEMMA PutKeeps ==
  ASSUME ShapeOK, time \in [Channs -> Int], NEW c \in Channs, NEW t \in Int, PutAt(c, t)
  PROVE  /\ ShapeOK' /\ OrderKept({c}) /\ time' = [time EXCEPT ![c] = t]
         /\ \A x : x \in Armed' <=> x \in Armed \/ x = c
  <1>1. PICK h \in Levels : /\ link' = Inserted(Removed({c}), RemovedLevel({c}), c, t, h)
                            /\ level' = InsertedLevel(RemovedLevel({c}), h)
                            /\ height' = [height EXCEPT ![c] = h]
                            /\ time' = [time EXCEPT ![c] = t]
    BY DEF PutAt
  <1>2. PICK ls, lv, r : ls = Removed({c}) /\ lv = RemovedLevel({c}) /\ r = Inserted(ls, lv, c, t, h)
    OBVIOUS
  <1>3. Shape(link, level, height, time)
    BY DEF ShapeOK
  <1>4. /\ Shape(ls, lv, height, time)
        /\ \A x : x \in ToSet(ls[1]) <=> x \in Armed /\ x \notin {c}
        /\ \A a, b : Before(ls[1], a, b) <=> a \notin {c} /\ b \notin {c} /\ Before(link[1], a, b)
    BY ONLY <1>2, <1>3, ShapeRemoved
  <1>5. c \notin ToSet(ls[1]) /\ h \in Levels /\ r = Inserted(ls, lv, c, t, h)
    <2>1. h \in Levels
      OBVIOUS
    <2> QED BY ONLY <1>2, <1>4, <2>1
  <1>6. /\ Shape(r, InsertedLevel(lv, h), [height EXCEPT ![c] = h], [time EXCEPT ![c] = t])
        /\ \A x : x \in ToSet(r[1]) <=> x \in ToSet(ls[1]) \/ x = c
        /\ \A a, b : a # c /\ b # c => (Before(r[1], a, b) <=> Before(ls[1], a, b))
    <2>1. IsPut(r, ls, lv, height, c, t, h)
      BY ONLY <1>4, <1>5, ShapeInserted, c \in Channs, t \in Int, time \in [Channs -> Int]
    <2> QED BY ONLY <2>1 DEF IsPut
  <1>7. link' = r /\ level' = InsertedLevel(lv, h)
    BY ONLY <1>1, <1>2
  <1>8. ShapeOK'
    BY ONLY <1>1, <1>6, <1>7 DEF ShapeOK
  <1>9. OrderKept({c})
    BY ONLY <1>4, <1>6, <1>7 DEF OrderKept
  <1>10. \A x : x \in Armed' <=> x \in Armed \/ x = c
    BY ONLY <1>4, <1>6, <1>7 DEF Armed
  <1> QED BY ONLY <1>1, <1>8, <1>9, <1>10

(* _tm_kill() takes nodes out. *)
LEMMA KillKeeps ==
  ASSUME ShapeOK, NEW C, TmKill(C)
  PROVE  /\ ShapeOK' /\ OrderKept(C)
         /\ \A x : x \in Armed' <=> x \in Armed /\ x \notin C
         /\ \A x \in Armed' : x \in Channs /\ time'[x] = time[x] /\ interval'[x] = interval[x]
  <1>1. Shape(link, level, height, time) /\ 1 \in Levels /\ MaxLevel \in Nat
    BY TimerAssumption DEF ShapeOK, Levels
  <1>2. link' = Removed(C) /\ level' = RemovedLevel(C)
    BY DEF TmKill
  <1>3. /\ Shape(link', level', height, time)
        /\ \A x : x \in ToSet(link'[1]) <=> x \in Armed /\ x \notin C
        /\ \A a, b : Before(link'[1], a, b) <=> a \notin C /\ b \notin C /\ Before(link[1], a, b)
    BY ONLY <1>1, <1>2, ShapeRemoved
  <1>4. \A x : x \in Armed' <=> x \in Armed /\ x \notin C
    BY ONLY <1>3 DEF Armed
  <1>5. height \in [Channs -> 0..MaxLevel] /\ link[1] \in Seq(Channs)
    BY ONLY <1>1 DEF Shape, Lists
  <1>6. height' \in [Channs -> 0..MaxLevel]
    BY ONLY <1>1, <1>5, TmKill(C) DEF TmKill
  <1>7. Armed \subseteq Channs
    BY ONLY <1>5, EmptyIs DEF Armed
  <1>8. ASSUME NEW x \in Armed'
        PROVE  x \in Channs /\ height'[x] = height[x] /\ time'[x] = time[x] /\ interval'[x] = interval[x]
    <2>1. x \in Channs /\ x \notin C
      BY ONLY <1>4, <1>7, <1>8
    <2> QED BY ONLY <2>1, TmKill(C) DEF TmKill
  <1>9. \A x \in ToSet(link'[1]) : height'[x] = height[x] /\ time'[x] = time[x]
    BY ONLY <1>8 DEF Armed
  <1>10. Shape(link', level', height', time')
    BY ONLY <1>3, <1>6, <1>9, ShapeOf
  <1>11. OrderKept(C)
    BY ONLY <1>3 DEF OrderKept
  <1> QED BY ONLY <1>4, <1>8, <1>10, <1>11 DEF ShapeOK

(* The lowest level, which every timer is on. *)
LEMMA ArmedIs ==
  ASSUME ShapeOK
  PROVE  link[1] \in Seq(Channs) /\ Once(link[1]) /\ Timely(link[1], time) /\ Armed \subseteq Channs
  <1>1. link[1] \in Seq(Channs) /\ Once(link[1]) /\ Timely(link[1], time)
    BY TimerAssumption DEF ShapeOK, Shape, Lists, Levels
  <1> QED BY ONLY <1>1, EmptyIs DEF Armed

(* The interval a handler asks for. *)
LEMMA SetTime ==
  ASSUME TimersOK, NEW c \in Channs, NEW v \in Intervals, SetTimer(c, v)
  PROVE  \E t \in Int : PutAt(c, t) /\ (Fits(v) => t > now)
  <1>1. v \in Nat /\ v \in Int /\ v >= 1 /\ now \in Nat
    BY TimerAssumption DEF TimersOK
  <1>2. Int32(v) \in Int
    <2>1. Int32(v) \in (-IntMax - 1)..IntMax /\ IntMax \in Nat
      BY <1>1, Int32Is, TimerAssumption
    <2> QED BY ONLY <2>1
  <1>3. PICK t : PutAt(c, t) /\ t \in {now + Int32(v), now + v}
    BY DEF SetTimer, TmUpdate, TmActive
  <1>4. t \in Int /\ (Fits(v) => t > now)
    BY ONLY <1>1, <1>2, <1>3 DEF Fits
  <1> QED BY ONLY <1>3, <1>4

(* mnet_chann_active_event() with an interval. *)
LEMMA ListSet ==
  ASSUME ListOK, NEW c \in Channs, NEW v \in Intervals, SetTimer(c, v)
  PROVE  ListOK'
  <1>1. TimersOK /\ ShapeOK /\ time \in [Channs -> Int]
    BY DEF ListOK, TimersOK
  <1>2. TimersOK'
    BY <1>1, TimersSet
  <1>3. PICK t \in Int : PutAt(c, t)
    BY <1>1, SetTime
  <1>4. ShapeOK' /\ \A x : x \in Armed' <=> x \in Armed \/ x = c
    BY ONLY <1>1, <1>3, PutKeeps, c \in Channs
  <1>5. now' = now /\ wild' = (IF Fits(v) THEN wild \ {c} ELSE wild \cup {c}) /\ pos' = CursorWithout(pos, {c})
    BY DEF SetTimer
  <1>6. interval' = [interval EXCEPT ![c] = Int32(v)]
    BY DEF SetTimer, TmUpdate, TmActive
  <1>7. pos' \in Channs => pos' \in Armed'
    <2>1. pos' \in Channs => pos' = pos
      BY <1>5, TimerAssumption DEF CursorWithout
    <2> QED BY <1>4, <2>1 DEF ListOK
  <1>8. now' <= MaxTime /\ wild' \subseteq Channs
    BY <1>5 DEF ListOK
  <1>9. ASSUME NEW x \in Armed', x \notin wild'
        PROVE  interval'[x] >= 1
    <2>0. interval \in [Channs -> (-IntMax - 1)..IntMax] /\ Armed \subseteq Channs
      BY <1>1, ArmedIs DEF TimersOK
    <2>1. CASE x = c
      <3>1. Fits(v)
        BY ONLY <1>5, <1>9, <2>1
      <3>2. interval'[c] = v
        BY ONLY <1>6, <2>0, <3>1, c \in Channs DEF Fits
      <3> QED BY <2>1, <3>2, TimerAssumption
    <2>2. CASE x # c
      <3>1. x \in Armed /\ x \notin wild /\ interval'[x] = interval[x]
        BY ONLY <1>4, <1>5, <1>6, <1>9, <2>0, <2>2
      <3> QED BY <3>1 DEF ListOK
    <2> QED BY ONLY <2>1, <2>2
  <1> QED BY ONLY <1>2, <1>4, <1>7, <1>8, <1>9 DEF ListOK

(* The next expiry of a timer that is reported. *)
LEMMA HitTime ==
  ASSUME TimersOK, NEW c \in Channs, TmHit(c)
  PROVE  \E t \in Int : /\ PutAt(c, t) /\ t = now + interval[c]
                        /\ interval' = interval
  <1>1. interval[c] \in (-IntMax - 1)..IntMax /\ IntMax \in Nat /\ now \in Nat
    BY TimerAssumption DEF TimersOK
  <1>2. Int32(interval[c]) = interval[c] /\ interval[c] \in Int
    <2>1. interval[c] \in Int
      BY ONLY <1>1
    <2> QED BY ONLY <1>1, <2>1, Int32Is
  <1>3. PICK t : PutAt(c, t) /\ t = now + interval[c]
    BY <1>2 DEF TmHit, TmUpdate
  <1>4. interval' = interval
    <2>1. interval' = [interval EXCEPT ![c] = interval[c]]
      BY <1>2 DEF TmHit, TmUpdate
    <2> QED BY <2>1 DEF TimersOK
  <1>5. t \in Int
    BY ONLY <1>1, <1>2, <1>3
  <1> QED BY ONLY <1>3, <1>4, <1>5

(* A timer is reported and put back. *)
LEMMA ListHit ==
  ASSUME ListOK, NEW c \in Channs, TmHit(c)
  PROVE  ListOK'
  <1>1. TimersOK /\ ShapeOK /\ time \in [Channs -> Int]
    BY DEF ListOK, TimersOK
  <1>2. TimersOK'
    BY <1>1, TimersHit
  <1>3. PICK t \in Int : PutAt(c, t) /\ interval' = interval
    BY <1>1, HitTime
  <1>4. ShapeOK' /\ \A x : x \in Armed' <=> x \in Armed \/ x = c
    BY ONLY <1>1, <1>3, PutKeeps, c \in Channs
  <1>5. now' = now /\ wild' = wild /\ pos' = CursorWithout(Next1(c), {c}) /\ pos = c
    BY DEF TmHit
  <1>6. c \in Armed
    BY <1>5 DEF ListOK
  <1>7. pos' \in Channs => pos' \in Armed'
    <2>1. Next1(c) \in (Armed \cup {ListHead}) \ {c} /\ Armed \subseteq Channs
      BY <1>1, NextIs DEF TimersOK
    <2> QED BY <1>4, <1>5, <2>1, TimerAssumption DEF CursorWithout
  <1>8. now' <= MaxTime /\ wild' \subseteq Channs
    BY <1>5 DEF ListOK
  <1>9. \A x \in Armed' : x \notin wild' => interval'[x] >= 1
    BY <1>3, <1>4, <1>5, <1>6 DEF ListOK
  <1> QED BY ONLY <1>2, <1>4, <1>7, <1>8, <1>9 DEF ListOK

(* mnet_chann_active_event() with 0. *)
LEMMA ListKill ==
  ASSUME ListOK, NEW c \in Channs, KillTimer(c)
  PROVE  ListOK'
  <1>1. TimersOK /\ ShapeOK /\ TmKill({c})
    BY DEF ListOK, KillTimer
  <1>2. TimersOK'
    BY <1>1, TimersKill
  <1>3. /\ ShapeOK' /\ \A x : x \in Armed' <=> x \in Armed /\ x \notin {c}
        /\ \A x \in Armed' : interval'[x] = interval[x]
    BY ONLY <1>1, KillKeeps
  <1>4. now' = now /\ wild' = wild \ {c} /\ pos' = CursorWithout(pos, {c})
    BY DEF KillTimer, TmKill
  <1>5. pos' \in Channs => pos' \in Armed'
    BY <1>3, <1>4, TimerAssumption DEF ListOK, CursorWithout
  <1>6. now' <= MaxTime /\ wild' \subseteq Channs
    BY <1>4 DEF ListOK
  <1>7. \A x \in Armed' : x \notin wild' => interval'[x] >= 1
    BY <1>3, <1>4 DEF ListOK
  <1> QED BY ONLY <1>2, <1>3, <1>5, <1>6, <1>7 DEF ListOK

(* mnet_poll() destroys the closed channs and puts the cursor on a node. *)
LEMMA ListPoll ==
  ASSUME ListOK, Poll
  PROVE  ListOK'
  <1>1. TimersOK /\ ShapeOK /\ TmKill(Closed)
    BY DEF ListOK, Poll
  <1>2. TimersOK'
    BY <1>1, TimersPoll
  <1>3. /\ ShapeOK' /\ \A x : x \in Armed' <=> x \in Armed /\ x \notin Closed
        /\ \A x \in Armed' : interval'[x] = interval[x]
    BY ONLY <1>1, KillKeeps
  <1>4. now' = now /\ wild' = wild \ Closed
    BY DEF Poll, TmKill
  <1>5. pos' \in Channs => pos' \in Armed'
    <2>1. pos' = Null \/ (pos' = link'[1][1] /\ link'[1] # <<>>)
      BY DEF Poll, TmSchedule
    <2>2. link'[1] \in Seq(Channs)
      BY <1>3, TimerAssumption DEF ShapeOK, Shape, Lists, Levels
    <2>3. link'[1] # <<>> => 1 \in DOMAIN link'[1]
      BY <2>2
    <2> QED BY <2>1, <2>3, TimerAssumption DEF Armed, ToSet
  <1>6. now' <= MaxTime /\ wild' \subseteq Channs
    BY <1>4 DEF ListOK
  <1>7. \A x \in Armed' : x \notin wild' => interval'[x] >= 1
    BY <1>3, <1>4 DEF ListOK
  <1> QED BY ONLY <1>2, <1>3, <1>5, <1>6, <1>7 DEF ListOK

(* The steps that leave the list alone. *)
LEMMA ListQuiet ==
  ASSUME ListOK, \/ Tick \/ TmMiss \/ TmNextFreed \/ UNCHANGED vars \/ \E c \in Channs : Close(c)
  PROVE  ListOK'
  <1>1. TimersOK'
    BY TimersQuiet DEF ListOK
  <1>2. UNCHANGED <<link, level, height, time, interval, wild>>
    BY DEF Tick, TmMiss, TmNextFreed, vars, Close
  <1>3. ShapeOK' /\ Armed' = Armed
    BY <1>2 DEF ListOK, ShapeOK, Armed
  <1>4. pos' \in {pos, Null} /\ Null \notin Channs
    BY TimerAssumption DEF Tick, TmMiss, TmNextFreed, vars, Close
  <1>5. now' <= MaxTime
    BY TimerAssumption DEF ListOK, TimersOK, Tick, TmMiss, TmNextFreed, vars, Close
  <1> QED BY <1>1, <1>2, <1>3, <1>4, <1>5 DEF ListOK

(* The inductive invariant. *)
LEMMA ListInvariant ==
  Spec => []ListOK
  <1>1. Init => ListOK
    <2> SUFFICES ASSUME Init PROVE ListOK
      OBVIOUS
    <2>1. link = [i \in Levels |-> <<>>] /\ 1 \in Levels /\ MaxLevel \in Nat \ {0}
      BY TimerAssumption DEF Init, Levels
    <2>2. \A i \in Levels : link[i] = <<>> /\ link[1] = <<>>
      BY ONLY <2>1
    <2>3. PICK z : z = <<>>
      OBVIOUS
    <2>4. z \in Seq(Channs) /\ Once(z) /\ ToSet(z) = {} /\ \A a, b : ~Before(z, a, b)
      BY <2>3 DEF Once, ToSet, Before
    <2>5. \A i \in Levels : link[i] = z /\ link[1] = z
      BY ONLY <2>2, <2>3
    <2>6. Lists(link) /\ Reached(link, height) /\ Aligned(link)
      BY ONLY <2>4, <2>5 DEF Lists, Reached, Aligned
    <2>7. Timely(link[1], time) /\ Armed = {}
      BY ONLY <2>1, <2>4, <2>5 DEF Timely, Armed
    <2>8. Counted(link, level)
      <3>1. link[1] = <<>> /\ level = 1 /\ 1 \in 0..MaxLevel
        BY <2>1 DEF Init
      <3> QED BY ONLY <3>1 DEF Counted
    <2>9. height \in [Channs -> 0..MaxLevel]
      BY <2>1 DEF Init
    <2>10. ShapeOK
      BY ONLY <2>6, <2>7, <2>8, <2>9 DEF ShapeOK, Shape, Armed
    <2>11. TimersOK
      BY TimersInit
    <2>12. now <= MaxTime /\ pos \notin Channs /\ wild = {}
      BY TimerAssumption DEF Init
    <2> QED BY ONLY <2>7, <2>10, <2>11, <2>12 DEF ListOK
  <1>2. ListOK /\ [Next]_vars => ListOK'
    BY ListQuiet, ListPoll, ListKill, ListSet, ListHit DEF Next, ResultNext
  <1> QED BY <1>1, <1>2, PTL DEF Spec

(* What ListShape says of the levels follows from the shape. *)
LEMMA InvariantShape ==
  ASSUME ListOK
  PROVE  ListShape
  <1>1. Shape(link, level, height, time) /\ TimersOK
    BY DEF ListOK, ShapeOK
  <1>2. /\ Lists(link) /\ Counted(link, level) /\ Reached(link, height) /\ Aligned(link) /\ Timely(link[1], time)
        /\ height \in [Channs -> 0..MaxLevel]
    BY ONLY <1>1 DEF Shape
  <1>3. 1 \in Levels /\ link[1] \in Seq(Channs) /\ Once(link[1])
    BY ONLY <1>2, TimerAssumption DEF Lists, Levels
  <1>4. ASSUME NEW i \in Levels
        PROVE  /\ ToSet(link[i]) \subseteq Channs
               /\ \A k \in 1..(Len(link[i]) - 1) : time[link[i][k]] <= time[link[i][k + 1]]
               /\ ToSet(link[i]) = {c \in Armed : height[c] >= i}
               /\ \A j, k \in DOMAIN link[i] : j < k => Index(link[1], link[i][j], 0) < Index(link[1], link[i][k], 0)
    <2>1. PICK s, u : s = link[i] /\ u = link[1]
      OBVIOUS
    <2>2. s \in Seq(Channs) /\ Once(s) /\ u \in Seq(Channs) /\ Once(u)
      BY ONLY <1>2, <1>3, <1>4, <2>1 DEF Lists
    <2>3. \A a, b : Before(s, a, b) => Before(u, a, b)
      BY ONLY <1>2, <1>4, <2>1 DEF Aligned
    <2>4. ToSet(s) \subseteq Channs
      BY ONLY <2>2, EmptyIs
    <2>5. ASSUME NEW k \in 1..(Len(s) - 1)
          PROVE  time[s[k]] <= time[s[k + 1]]
      <3>1. k \in DOMAIN s /\ k + 1 \in DOMAIN s /\ k < k + 1
        BY <2>2, <2>5
      <3>2. Before(s, s[k], s[k + 1])
        BY ONLY <3>1 DEF Before
      <3> QED BY ONLY <1>2, <2>1, <2>3, <3>2 DEF Timely
    <2>6. ToSet(s) = {c \in Armed : height[c] >= i}
      <3>1. \A c : c \in ToSet(s) <=> c \in Armed /\ height[c] >= i
        BY ONLY <1>2, <1>4, <2>1 DEF Reached, Armed
      <3> QED BY ONLY <3>1
    <2>7. ASSUME NEW j \in DOMAIN s, NEW k \in DOMAIN s, j < k
          PROVE  Index(u, s[j], 0) < Index(u, s[k], 0)
      <3>1. Before(s, s[j], s[k])
        BY ONLY <2>7 DEF Before
      <3>2. Before(u, s[j], s[k])
        BY ONLY <2>3, <3>1
      <3>3. PICK x \in DOMAIN u, y \in DOMAIN u : x < y /\ u[x] = s[j] /\ u[y] = s[k]
        BY ONLY <3>2 DEF Before
      <3>4. Index(u, u[x], 0) = x /\ Index(u, u[y], 0) = y
        BY ONLY <2>2, <3>3, IndexOf
      <3> QED BY ONLY <3>3, <3>4
    <2> QED BY ONLY <2>1, <2>4, <2>5, <2>6, <2>7
  <1>5. level \in 0..MaxLevel
    BY ONLY <1>2 DEF Counted
  <1>6. level = Cardinality({i \in Levels : link[i] # <<>>}) \/ (link[1] = <<>> /\ level = 1)
    <2>1. CASE InUse(link) = 1..level
      <3>1. Cardinality(1..level) = IF 1 > level THEN 0 ELSE level - 1 + 1
        <4>1. 1 \in Int /\ level \in Int
          BY ONLY <1>5, TimerAssumption
        <4> QED BY ONLY <4>1, FS_Interval
      <3>2. Cardinality(1..level) = level
        BY ONLY <1>5, <3>1, TimerAssumption
      <3> QED BY ONLY <2>1, <3>2 DEF InUse
    <2> QED BY ONLY <1>2, <2>1 DEF Counted
  <1>7. now \in 0..MaxTime /\ current \in 0..now
    BY TimerAssumption DEF ListOK, TimersOK
  <1>8. TypeOK
    BY ONLY <1>1, <1>2, <1>4, <1>5, <1>7 DEF TypeOK, TimersOK
  <1> QED BY ONLY <1>4, <1>6, <1>8 DEF ListShape

-----------------------------------------------------------------------------
(* The round of the cursor *)

(* What the cursor has yet to hand out: the node it is on and those behind   *)
(* that are due.                                                             *)
OwedBehind == \A c : c \in Owed <=> /\ pos \in Armed /\ c \in Armed /\ time[c] <= current
                                    /\ c = pos \/ Before(link[1], pos, c)

(* So it is while the list is in shape, *)
LEMMA OwedIs ==
  ShapeOK => OwedBehind
  <1> SUFFICES ASSUME ShapeOK
               PROVE  \A c : c \in Owed <=> /\ pos \in Armed /\ c \in Armed /\ time[c] <= current
                                            /\ c = pos \/ Before(link[1], pos, c)
    BY DEF OwedBehind
  <1>1. PICK s, p : s = link[1] /\ p = pos
    OBVIOUS
  <1>2. s \in Seq(Channs) /\ Once(s) /\ Armed = ToSet(s)
    BY <1>1, ArmedIs DEF Armed
  <1>3. DOMAIN s \subseteq Int /\ DOMAIN s = 1..Len(s)
    BY <1>2
  <1>4. CASE p \notin Armed
    BY ONLY <1>1, <1>4 DEF Owed
  <1>5. CASE p \in Armed
    <2>1. PICK i \in DOMAIN s : s[i] = p /\ Index(s, p, 0) = i
      BY ONLY <1>2, <1>5, IndexOf
    <2>2. Owed = {s[k] : k \in {k \in DOMAIN s : k >= i /\ time[s[k]] <= current}}
      BY ONLY <1>1, <1>5, <2>1 DEF Owed
    <2>3. ASSUME NEW c \in Owed
          PROVE  c \in Armed /\ time[c] <= current /\ (c = p \/ Before(s, p, c))
      <3>1. PICK k \in DOMAIN s : k >= i /\ time[s[k]] <= current /\ c = s[k]
        BY ONLY <2>2, <2>3
      <3>2. k = i \/ i < k
        BY ONLY <1>3, <3>1
      <3>3. c = p \/ Before(s, p, c)
        BY ONLY <2>1, <3>1, <3>2 DEF Before
      <3>4. c \in Armed
        BY ONLY <1>2, <3>1 DEF ToSet
      <3> QED BY ONLY <3>1, <3>3, <3>4
    <2>4. ASSUME NEW c \in Armed, time[c] <= current, c = p \/ Before(s, p, c)
          PROVE  c \in Owed
      <3>1. PICK k \in DOMAIN s : k >= i /\ s[k] = c
        <4>1. CASE c = p
          BY ONLY <1>3, <2>1, <4>1
        <4>2. CASE Before(s, p, c)
          <5>1. PICK x \in DOMAIN s, y \in DOMAIN s : x < y /\ s[x] = p /\ s[y] = c
            BY ONLY <4>2 DEF Before
          <5>2. x = i
            BY ONLY <1>2, <2>1, <5>1 DEF Once
          <5> QED BY ONLY <1>3, <5>1, <5>2
        <4> QED BY ONLY <2>4, <4>1, <4>2
      <3> QED BY ONLY <2>2, <2>4, <3>1
    <2> QED BY ONLY <1>1, <1>5, <2>3, <2>4
  <1> QED BY ONLY <1>4, <1>5

(* after a step too. *)
LEMMA OwedLater ==
  ShapeOK' => OwedBehind'
  BY OwedIs, PTL

(* The node behind c is the next one: whatever is behind c is that node or   *)
(* behind it.                                                                *)
LEMMA NextBefore ==
  ASSUME ShapeOK, NEW c \in Armed
  PROVE  /\ Next1(c) = ListHead => \A d : ~Before(link[1], c, d)
         /\ Next1(c) # ListHead => /\ Next1(c) \in Armed /\ Next1(c) # c
                                   /\ \A d : Before(link[1], c, d) <=> d = Next1(c) \/ Before(link[1], Next1(c), d)
  <1>1. PICK s : s = link[1]
    OBVIOUS
  <1>2. s \in Seq(Channs) /\ Once(s) /\ Armed = ToSet(s)
    BY <1>1, ArmedIs DEF Armed
  <1>3. DOMAIN s \subseteq Int /\ DOMAIN s = 1..Len(s) /\ Len(s) \in Nat
    BY <1>2
  <1>4. PICK i \in DOMAIN s : s[i] = c /\ Index(s, c, 0) = i
    BY ONLY <1>2, IndexOf, c \in Armed
  <1>5. Next1(c) = IF i = Len(s) THEN ListHead ELSE s[i + 1]
    BY ONLY <1>1, <1>4 DEF Next1
  <1>6. ASSUME NEW d, Before(s, c, d)
        PROVE  \E y \in DOMAIN s : i < y /\ s[y] = d
    <2>1. PICK x \in DOMAIN s, y \in DOMAIN s : x < y /\ s[x] = c /\ s[y] = d
      BY ONLY <1>6 DEF Before
    <2>2. x = i
      BY ONLY <1>2, <1>4, <2>1 DEF Once
    <2> QED BY ONLY <2>1, <2>2
  <1>7. CASE i = Len(s)
    <2>1. \A y \in DOMAIN s : ~(i < y)
      BY ONLY <1>3, <1>7
    <2>2. Next1(c) = ListHead
      BY ONLY <1>5, <1>7
    <2> QED BY ONLY <1>1, <1>6, <2>1, <2>2
  <1>8. CASE i # Len(s)
    <2>1. i + 1 \in DOMAIN s /\ i < i + 1 /\ i \in Int
      BY ONLY <1>3, <1>4, <1>8
    <2>2. PICK n : n = s[i + 1]
      OBVIOUS
    <2>3. Next1(c) = n
      BY ONLY <1>5, <1>8, <2>2
    <2>4. n \in Armed /\ n # ListHead
      <3>1. n \in Channs
        BY <1>2, <2>1, <2>2
      <3>2. n \in Armed
        BY ONLY <1>2, <2>1, <2>2 DEF ToSet
      <3> QED BY <3>1, <3>2, TimerAssumption
    <2>5. Before(s, c, n)
      BY ONLY <1>4, <2>1, <2>2 DEF Before
    <2>6. /\ n # c
          /\ \A d : Before(s, n, d) => Before(s, c, d)
      BY ONLY <1>2, <2>5, BeforeIs
    <2>7. ASSUME NEW d, Before(s, c, d)
          PROVE  d = n \/ Before(s, n, d)
      <3>1. PICK y \in DOMAIN s : i < y /\ s[y] = d
        BY ONLY <1>6, <2>7
      <3>2. y = i + 1 \/ i + 1 < y
        BY ONLY <1>3, <2>1, <3>1
      <3> QED BY ONLY <2>1, <2>2, <3>1, <3>2 DEF Before
    <2> QED BY ONLY <1>1, <2>3, <2>4, <2>5, <2>6, <2>7
  <1> QED BY ONLY <1>7, <1>8

(* The first of what is owed is the node under the cursor. *)
LEMMA CursorFirst ==
  ASSUME ListOK, pos \in Channs
  PROVE  IF time[pos] <= current THEN pos \in Service!Nearest ELSE Owed = {}
  <1>1. ShapeOK /\ pos \in Armed /\ time \in [Channs -> Int] /\ current \in Nat
    BY DEF ListOK, TimersOK
  <1>2. OwedBehind
    BY ONLY <1>1, OwedIs
  <1>3. Timely(link[1], time) /\ Armed \subseteq Channs
    BY ONLY <1>1, ArmedIs
  <1>4. ASSUME NEW d \in Owed
        PROVE  d \in Channs /\ d \in Armed /\ time[d] \in Int /\ time[pos] \in Int /\ time[pos] <= time[d] /\ time[d] <= current
    <2>1. d \in Armed /\ time[d] <= current /\ (d = pos \/ Before(link[1], pos, d))
      BY ONLY <1>2, <1>4 DEF OwedBehind
    <2>2. time[d] \in Int /\ time[pos] \in Int /\ d \in Channs
      BY ONLY <1>1, <1>3, <2>1
    <2>3. time[pos] <= time[d]
      BY ONLY <1>3, <2>1, <2>2 DEF Timely
    <2> QED BY ONLY <2>1, <2>2, <2>3
  <1>5. CASE time[pos] <= current
    <2>1. pos \in Owed
      BY ONLY <1>1, <1>2, <1>5 DEF OwedBehind
    <2>2. \A d \in Owed : [x \in Channs |-> IF x \in Armed THEN time[x] ELSE Null][pos] <= [x \in Channs |-> IF x \in Armed THEN time[x] ELSE Null][d]
      BY ONLY <1>1, <1>4, pos \in Channs
    <2> QED BY ONLY <1>5, <2>1, <2>2 DEF Service!Nearest
  <1>6. CASE ~(time[pos] <= current)
    <2>1. ASSUME NEW d \in Owed PROVE FALSE
      <3>1. time[d] \in Int /\ time[pos] \in Int /\ time[pos] <= time[d] /\ time[d] <= current
        BY ONLY <1>4, <2>1
      <3> QED BY ONLY <1>1, <1>6, <3>1
    <2> QED BY ONLY <1>6, <2>1
  <1> QED BY ONLY <1>5, <1>6

(* The cursor stays where it is while another node moves or goes: nothing    *)
(* else is owed more or less.                                                *)
LEMMA OthersOwed ==
  ASSUME ShapeOK, ShapeOK', NEW c, OrderKept({c}), pos' = pos, pos # c, current' = current,
         \A x : x # c => (x \in Armed' <=> x \in Armed) /\ (x \in Armed' => time'[x] = time[x])
  PROVE  \A x : x # c => (x \in Owed' <=> x \in Owed)
  <1> SUFFICES ASSUME NEW x, x # c PROVE x \in Owed' <=> x \in Owed
    OBVIOUS
  <1>1. PICK p : p = pos
    OBVIOUS
  <1>2. x \in Owed <=> p \in Armed /\ x \in Armed /\ time[x] <= current /\ (x = p \/ Before(link[1], p, x))
    BY ONLY <1>1, OwedIs, ShapeOK DEF OwedBehind
  <1>3. x \in Owed' <=> p \in Armed' /\ x \in Armed' /\ time'[x] <= current /\ (x = p \/ Before(link'[1], p, x))
    <2>1. OwedBehind'
      BY ONLY OwedLater, ShapeOK'
    <2> QED BY ONLY <1>1, <2>1, pos' = pos, current' = current DEF OwedBehind
  <1>4. Before(link'[1], p, x) <=> Before(link[1], p, x)
    BY ONLY <1>1, OrderKept({c}), pos # c, x # c DEF OrderKept
  <1>5. (p \in Armed' <=> p \in Armed) /\ (x \in Armed' <=> x \in Armed) /\ (x \in Armed' => time'[x] = time[x])
    BY ONLY <1>1, pos # c, x # c, \A y : y # c => (y \in Armed' <=> y \in Armed) /\ (y \in Armed' => time'[y] = time[y])
  <1> QED BY ONLY <1>2, <1>3, <1>4, <1>5

(* The deadlines the service sees. *)
Deadline == [c \in Channs |-> IF c \in Armed THEN time[c] ELSE Null]

(* One deadline changes. *)
LEMMA PutDeadline ==
  ASSUME NEW c \in Channs, NEW t, time \in [Channs -> Int], time' = [time EXCEPT ![c] = t],
         \A x : x \in Armed' <=> x \in Armed \/ x = c
  PROVE  Deadline' = [Deadline EXCEPT ![c] = Deadline'[c]] /\ Deadline'[c] = t /\ time'[c] = t
  <1>1. Deadline' = [x \in Channs |-> IF x \in Armed' THEN time'[x] ELSE Null]
    BY DEF Deadline
  <1>2. Deadline'[c] = t /\ time'[c] = t
    BY <1>1
  <1>3. ASSUME NEW x \in Channs, x # c PROVE Deadline'[x] = Deadline[x]
    BY <1>1, <1>3 DEF Deadline
  <1>4. Deadline = [x \in Channs |-> Deadline[x]] /\ Deadline' = [x \in Channs |-> Deadline'[x]]
    BY <1>1 DEF Deadline
  <1> QED BY ONLY <1>2, <1>3, <1>4

(* One deadline goes. *)
LEMMA KillDeadline ==
  ASSUME NEW c \in Channs, \A x : x \in Armed' <=> x \in Armed /\ x # c,
         \A x \in Armed' : time'[x] = time[x]
  PROVE  Deadline' = [Deadline EXCEPT ![c] = Deadline'[c]] /\ Deadline'[c] = Null
  <1>1. Deadline' = [x \in Channs |-> IF x \in Armed' THEN time'[x] ELSE Null]
    BY DEF Deadline
  <1>2. Deadline'[c] = Null
    BY <1>1
  <1>3. ASSUME NEW x \in Channs, x # c PROVE Deadline'[x] = Deadline[x]
    BY <1>1, <1>3 DEF Deadline
  <1>4. Deadline = [x \in Channs |-> Deadline[x]] /\ Deadline' = [x \in Channs |-> Deadline'[x]]
    BY <1>1 DEF Deadline
  <1> QED BY ONLY <1>2, <1>3, <1>4

(* The cursor was on the node that a handler moves or removes. *)
LEMMA CursorLost ==
  ASSUME ListOK, ShapeOK', pos \in Channs, pos' = Freed
  PROVE  Service!Forgo(pos)
  <1>1. Armed' \subseteq Channs
    <2>1. link'[1] \in Seq(Channs)
      BY TimerAssumption DEF ShapeOK, Shape, Lists, Levels
    <2> QED BY ONLY <2>1, EmptyIs DEF Armed
  <1>2. pos' \notin Armed'
    BY <1>1, TimerAssumption
  <1>3. Owed' = {}
    BY ONLY <1>2 DEF Owed
  <1>4. pos \in Service!Nearest \/ Owed = {}
    BY CursorFirst
  <1>5. Owed = {} => Owed' = Owed \ {pos}
    BY ONLY <1>3
  <1> QED BY ONLY <1>3, <1>4, <1>5 DEF Service!Forgo

(* mnet_chann_active_event() with an interval sets a timer. *)
LEMMA ServedSet ==
  ASSUME ListOK, NEW c \in Channs, NEW v \in Intervals, SetTimer(c, v)
  PROVE  Service!Next
  <1>1. TimersOK /\ ShapeOK /\ time \in [Channs -> Int] /\ now \in Nat /\ current \in Nat /\ current <= now
    BY DEF ListOK, TimersOK
  <1>2. PICK t \in Int : PutAt(c, t) /\ (Fits(v) => t > now)
    BY <1>1, SetTime
  <1>3. /\ ShapeOK' /\ OrderKept({c}) /\ time' = [time EXCEPT ![c] = t]
        /\ \A x : x \in Armed' <=> x \in Armed \/ x = c
    BY ONLY <1>1, <1>2, PutKeeps, c \in Channs
  <1>4. Deadline' = [Deadline EXCEPT ![c] = Deadline'[c]] /\ Deadline'[c] = t /\ time'[c] = t
    BY ONLY <1>1, <1>3, PutDeadline, c \in Channs
  <1>5. /\ now' = now /\ current' = current /\ told' = FALSE /\ pos' = CursorWithout(pos, {c})
        /\ wild' = IF Fits(v) THEN wild \ {c} ELSE wild \cup {c}
    BY DEF SetTimer
  <1>6. Service!Forgo(c) \/ (~Fits(v) /\ Owed' = Owed \cup {c})
    <2>1. CASE pos = c
      <3>1. pos' = Freed
        BY ONLY <1>5, <2>1 DEF CursorWithout
      <3>2. Service!Forgo(pos)
        BY <1>3, <2>1, <3>1, CursorLost
      <3> QED BY ONLY <2>1, <3>2
    <2>2. CASE pos # c
      <3>1. pos' = pos
        BY ONLY <1>5, <2>2 DEF CursorWithout
      <3>2. \A x : x # c => (x \in Armed' <=> x \in Armed) /\ (x \in Armed' => time'[x] = time[x])
        <4>1. Armed \subseteq Channs
          BY ONLY <1>1, ArmedIs
        <4> QED BY ONLY <1>1, <1>3, <4>1, c \in Channs
      <3>3. \A x : x # c => (x \in Owed' <=> x \in Owed)
        BY ONLY <1>1, <1>3, <1>5, <2>2, <3>1, <3>2, OthersOwed
      <3>4. Fits(v) => c \notin Owed'
        <4>1. OwedBehind'
          BY ONLY <1>3, OwedLater
        <4>2. c \in Owed' => t <= current
          BY ONLY <1>4, <1>5, <4>1 DEF OwedBehind
        <4> QED BY ONLY <1>1, <1>2, <4>2
      <3>5. CASE c \in Owed'
        <4>1. Owed' = Owed \cup {c}
          BY ONLY <3>3, <3>5
        <4> QED BY ONLY <3>4, <3>5, <4>1
      <3>6. CASE c \notin Owed'
        <4>1. Owed' = Owed \ {c}
          BY ONLY <3>3, <3>6
        <4> QED BY ONLY <4>1 DEF Service!Forgo
      <3> QED BY ONLY <3>5, <3>6
    <2> QED BY ONLY <2>1, <2>2
  <1>7. Deadline'[c] \in Int /\ (Fits(v) => Deadline'[c] > now)
    BY ONLY <1>2, <1>4
  <1>8. Service!Set(c)
    BY ONLY <1>5, <1>6, <1>7 DEF Service!Set, Deadline
  <1> QED BY ONLY <1>4, <1>8, c \in Channs DEF Service!Next, Deadline

(* mnet_chann_active_event() with 0 clears one. *)
LEMMA ServedKill ==
  ASSUME ListOK, NEW c \in Channs, KillTimer(c)
  PROVE  Service!Next
  <1>1. TimersOK /\ ShapeOK /\ time \in [Channs -> Int] /\ TmKill({c}) /\ c \in Armed
    BY DEF ListOK, TimersOK, KillTimer
  <1>2. /\ ShapeOK' /\ OrderKept({c})
        /\ \A x : x \in Armed' <=> x \in Armed /\ x \notin {c}
        /\ \A x \in Armed' : x \in Channs /\ time'[x] = time[x] /\ interval'[x] = interval[x]
    BY ONLY <1>1, KillKeeps
  <1>3. /\ \A x : x \in Armed' <=> x \in Armed /\ x # c
        /\ \A x \in Armed' : time'[x] = time[x]
    BY ONLY <1>2
  <1>4. Deadline' = [Deadline EXCEPT ![c] = Deadline'[c]] /\ Deadline'[c] = Null
    BY ONLY <1>3, KillDeadline, c \in Channs
  <1>5. Deadline[c] # Null
    <2>1. Deadline[c] = time[c] /\ time[c] \in Int
      BY ONLY <1>1, c \in Channs DEF Deadline
    <2> QED BY ONLY <2>1, TimerAssumption
  <1>6. now' = now /\ current' = current /\ told' = FALSE /\ pos' = CursorWithout(pos, {c}) /\ wild' = wild \ {c}
    BY DEF KillTimer, TmKill
  <1>7. Service!Forgo(c)
    <2>1. CASE pos = c
      <3>1. pos' = Freed
        BY ONLY <1>6, <2>1 DEF CursorWithout
      <3>2. Service!Forgo(pos)
        BY <1>2, <2>1, <3>1, CursorLost
      <3> QED BY ONLY <2>1, <3>2
    <2>2. CASE pos # c
      <3>1. pos' = pos
        BY ONLY <1>6, <2>2 DEF CursorWithout
      <3>2. \A x : x # c => (x \in Armed' <=> x \in Armed) /\ (x \in Armed' => time'[x] = time[x])
        BY ONLY <1>3
      <3>3. \A x : x # c => (x \in Owed' <=> x \in Owed)
        BY ONLY <1>1, <1>2, <1>6, <2>2, <3>1, <3>2, OthersOwed
      <3>4. c \notin Owed'
        <4>1. OwedBehind'
          BY ONLY <1>2, OwedLater
        <4> QED BY ONLY <1>3, <4>1 DEF OwedBehind
      <3>5. Owed' = Owed \ {c}
        BY ONLY <3>3, <3>4
      <3> QED BY ONLY <3>5 DEF Service!Forgo
    <2> QED BY ONLY <2>1, <2>2
  <1>8. Service!Clear(c)
    BY ONLY <1>4, <1>5, <1>6, <1>7 DEF Service!Clear, Deadline
  <1> QED BY ONLY <1>4, <1>8, c \in Channs DEF Service!Next, Deadline

(* mnet_result_next() reports the nearest of the timers that are owed. *)
LEMMA ServedHit ==
  ASSUME ListOK, NEW c \in Channs, TmHit(c)
  PROVE  Service!Next
  <1>1. TimersOK /\ ShapeOK /\ time \in [Channs -> Int] /\ now \in Nat /\ current \in Nat /\ current <= now
    BY DEF ListOK, TimersOK
  <1>2. /\ pos = c /\ time[c] <= current /\ pos' = CursorWithout(Next1(c), {c})
        /\ now' = now /\ current' = current /\ wild' = wild /\ told' = TRUE
    BY DEF TmHit
  <1>3. c \in Armed /\ (c \notin wild => interval[c] >= 1) /\ interval[c] \in Int
    <2>1. interval[c] \in (-IntMax - 1)..IntMax /\ IntMax \in Nat
      BY <1>1, TimerAssumption DEF TimersOK
    <2>2. c \in Armed
      BY <1>2 DEF ListOK
    <2>3. interval[c] \in Int
      BY ONLY <2>1
    <2> QED BY <2>2, <2>3 DEF ListOK
  <1>4. PICK t \in Int : PutAt(c, t) /\ t = now + interval[c]
    BY <1>1, HitTime
  <1>5. c \notin wild => t > now
    BY ONLY <1>1, <1>3, <1>4
  <1>6. /\ ShapeOK' /\ OrderKept({c}) /\ time' = [time EXCEPT ![c] = t]
        /\ \A x : x \in Armed' <=> x \in Armed \/ x = c
    BY ONLY <1>1, <1>4, PutKeeps, c \in Channs
  <1>7. Deadline' = [Deadline EXCEPT ![c] = Deadline'[c]] /\ Deadline'[c] = t /\ time'[c] = t
    BY ONLY <1>1, <1>6, PutDeadline, c \in Channs
  <1>8. c \in Service!Nearest
    BY <1>2, CursorFirst
  <1>9. c \in Owed
    BY ONLY <1>8 DEF Service!Nearest
  <1>10. PICK n : n = Next1(c)
    OBVIOUS
  <1>11. /\ n = ListHead => \A d : ~Before(link[1], c, d)
         /\ n # ListHead => /\ n \in Armed /\ n # c
                            /\ \A d : Before(link[1], c, d) <=> d = n \/ Before(link[1], n, d)
    BY ONLY <1>1, <1>3, <1>10, NextBefore
  <1>12. Armed \subseteq Channs
    BY ONLY <1>1, ArmedIs
  <1>13. n # c /\ pos' = n
    <2>1. n # c
      BY ONLY <1>11, TimerAssumption, c \in Channs
    <2> QED BY ONLY <1>2, <1>10, <2>1 DEF CursorWithout
  <1>14. OwedBehind /\ OwedBehind'
    BY ONLY <1>1, <1>6, OwedIs, OwedLater
  <1>15. ASSUME NEW x, x # c
         PROVE  x \in Owed' <=> x \in Owed
    <2>1. x \in Owed <=> x \in Armed /\ time[x] <= current /\ Before(link[1], c, x)
      BY ONLY <1>2, <1>3, <1>14, <1>15 DEF OwedBehind
    <2>2. x \in Owed' <=> n \in Armed' /\ x \in Armed' /\ time'[x] <= current /\ (x = n \/ Before(link'[1], n, x))
      BY ONLY <1>2, <1>13, <1>14 DEF OwedBehind
    <2>3. (x \in Armed' <=> x \in Armed) /\ (x \in Armed => time'[x] = time[x])
      BY ONLY <1>1, <1>6, <1>12, <1>15, c \in Channs
    <2>4. Before(link'[1], n, x) <=> Before(link[1], n, x)
      BY ONLY <1>6, <1>13, <1>15 DEF OrderKept
    <2>5. CASE n = ListHead
      <3>1. n \notin Armed'
        BY ONLY <1>6, <1>12, <2>5, TimerAssumption, c \in Channs
      <3> QED BY ONLY <1>11, <2>1, <2>2, <2>5, <3>1
    <2>6. CASE n # ListHead
      <3>1. n \in Armed'
        BY ONLY <1>6, <1>11, <2>6
      <3> QED BY ONLY <1>11, <2>1, <2>2, <2>3, <2>4, <2>6, <3>1
    <2> QED BY ONLY <2>5, <2>6
  <1>16. c \in Owed' => t <= current
    BY ONLY <1>2, <1>7, <1>14 DEF OwedBehind
  <1>17. c \notin wild => c \notin Owed'
    BY ONLY <1>1, <1>5, <1>16
  <1>18. Owed' \in {Owed \ {c}, Owed} /\ (c \notin wild => Owed' = Owed \ {c})
    <2>1. CASE c \in Owed'
      <3>1. Owed' = Owed
        BY ONLY <1>9, <1>15, <2>1
      <3> QED BY ONLY <1>17, <2>1, <3>1
    <2>2. CASE c \notin Owed'
      <3>1. Owed' = Owed \ {c}
        BY ONLY <1>15, <2>2
      <3> QED BY ONLY <3>1
    <2> QED BY ONLY <2>1, <2>2
  <1>19. Deadline'[c] \in Int /\ (c \notin wild => Deadline'[c] > now)
    BY ONLY <1>4, <1>5, <1>7
  <1>20. Service!Fire(c)
    BY ONLY <1>2, <1>8, <1>18, <1>19 DEF Service!Fire, Deadline
  <1> QED BY ONLY <1>7, <1>20, c \in Channs DEF Service!Next, Deadline

(* mnet_poll() finds the timers that are due. *)
LEMMA ServedPoll ==
  ASSUME ListOK, Poll
  PROVE  Service!Next
  <1>1. TimersOK /\ ShapeOK /\ time \in [Channs -> Int] /\ TmKill(Closed) /\ now \in Nat /\ current \in Nat
    BY DEF ListOK, TimersOK, Poll
  <1>2. /\ ShapeOK'
        /\ \A x : x \in Armed' <=> x \in Armed /\ x \notin Closed
        /\ \A x \in Armed' : x \in Channs /\ time'[x] = time[x]
    BY ONLY <1>1, KillKeeps
  <1>3. Armed \subseteq Channs
    BY ONLY <1>1, ArmedIs
  <1>4. Deadline' = [x \in Channs |-> IF x \in Closed THEN Null ELSE Deadline[x]]
    <2>1. Deadline' = [x \in Channs |-> IF x \in Armed' THEN time'[x] ELSE Null]
      BY DEF Deadline
    <2>2. ASSUME NEW x \in Channs
          PROVE  (IF x \in Armed' THEN time'[x] ELSE Null) = IF x \in Closed THEN Null ELSE Deadline[x]
      <3>1. Deadline[x] = IF x \in Armed THEN time[x] ELSE Null
        BY ONLY <2>2 DEF Deadline
      <3> QED BY ONLY <1>2, <2>2, <3>1
    <2> QED BY ONLY <2>1, <2>2
  <1>5. /\ now' = now /\ told' = FALSE /\ wild' = wild \ Closed
        /\ IF link'[1] = <<>> THEN pos' = Null
           ELSE IF time'[link'[1][1]] > now THEN pos' = Null ELSE pos' = link'[1][1] /\ current' = now
    BY DEF Poll, TmKill, TmSchedule
  <1>6. PICK s, p : s = link'[1] /\ p = pos'
    OBVIOUS
  <1>7. s \in Seq(Channs) /\ Once(s) /\ Timely(s, time') /\ Armed' = ToSet(s)
    <2>1. link'[1] \in Seq(Channs) /\ Once(link'[1]) /\ Timely(link'[1], time')
      BY <1>2, TimerAssumption DEF ShapeOK, Shape, Lists, Levels
    <2> QED BY ONLY <1>6, <2>1 DEF Armed
  <1>8. OwedBehind'
    BY ONLY <1>2, OwedLater
  <1>9. ASSUME NEW x
        PROVE  x \in Owed' <=> x \in Armed' /\ time'[x] <= now
    <2>0. x \in Owed' <=> p \in Armed' /\ x \in Armed' /\ time'[x] <= current' /\ (x = p \/ Before(s, p, x))
      BY ONLY <1>6, <1>8 DEF OwedBehind
    <2>1. CASE s = <<>>
      <3>1. ~\E y : y \in Armed'
        BY ONLY <1>7, <2>1, EmptyIs
      <3> QED BY ONLY <2>0, <3>1
    <2>2. CASE s # <<>>
      <3>1. 1 \in DOMAIN s /\ DOMAIN s = 1..Len(s) /\ Len(s) \in Nat
        BY <1>7, <2>2
      <3>2. PICK f : f = s[1]
        OBVIOUS
      <3>3. f \in Armed' /\ f \in Channs
        BY ONLY <1>2, <1>7, <3>1, <3>2 DEF ToSet
      <3>4. \A y \in Armed' : y = f \/ Before(s, f, y)
        <4> SUFFICES ASSUME NEW y \in Armed' PROVE y = f \/ Before(s, f, y)
          OBVIOUS
        <4>1. PICK k \in DOMAIN s : s[k] = y
          BY ONLY <1>7, y \in Armed' DEF ToSet
        <4>2. k = 1 \/ 1 < k
          BY ONLY <3>1, <4>1
        <4> QED BY ONLY <3>1, <3>2, <4>1, <4>2 DEF Before
      <3>5. \A y \in Armed' : time'[y] \in Int
        BY ONLY <1>1, <1>2
      <3>6. \A y \in Armed' : time'[f] <= time'[y]
        BY ONLY <1>7, <3>3, <3>4, <3>5 DEF Timely
      <3>7. CASE time'[f] > now
        <4>1. p \notin Armed'
          <5>1. p = Null
            BY ONLY <1>5, <1>6, <2>2, <3>2, <3>7
          <5> QED BY ONLY <1>2, <5>1, TimerAssumption
        <4>2. ASSUME x \in Armed', time'[x] <= now PROVE FALSE
          <5>1. time'[f] <= time'[x] /\ time'[f] \in Int /\ time'[x] \in Int
            BY ONLY <3>3, <3>5, <3>6, <4>2
          <5> QED BY ONLY <1>1, <3>7, <4>2, <5>1
        <4> QED BY ONLY <2>0, <4>1, <4>2
      <3>8. CASE ~(time'[f] > now)
        <4>1. p = f /\ current' = now
          BY ONLY <1>5, <1>6, <2>2, <3>2, <3>8
        <4> QED BY ONLY <2>0, <3>3, <3>4, <4>1
      <3> QED BY ONLY <3>7, <3>8
    <2> QED BY ONLY <2>1, <2>2
  <1>10. ASSUME NEW x
         PROVE  x \in Service!Due \ Closed <=> x \in Armed' /\ time'[x] <= now
    <2>1. x \in Service!Due <=> x \in Channs /\ Deadline[x] # Null /\ Deadline[x] <= now
      BY ONLY DEF Service!Due, Deadline
    <2>2. CASE x \in Armed
      <3>1. x \in Channs /\ Deadline[x] = time[x] /\ time[x] \in Int
        BY ONLY <1>1, <1>3, <2>2 DEF Deadline
      <3>2. Deadline[x] # Null
        BY ONLY <3>1, TimerAssumption
      <3> QED BY ONLY <1>2, <2>1, <2>2, <3>1, <3>2
    <2>3. CASE x \notin Armed
      <3>1. x \in Channs => Deadline[x] = Null
        BY ONLY <2>3 DEF Deadline
      <3> QED BY ONLY <1>2, <2>1, <2>3, <3>1
    <2> QED BY ONLY <2>2, <2>3
  <1>11. Owed' = Service!Due \ Closed
    BY ONLY <1>9, <1>10
  <1>12. PICK gone : gone = Closed
    OBVIOUS
  <1>13. gone \in SUBSET Channs
    BY <1>12 DEF Closed
  <1>14. Service!Poll(gone)
    BY ONLY <1>4, <1>5, <1>11, <1>12 DEF Service!Poll, Deadline
  <1> QED BY ONLY <1>13, <1>14 DEF Service!Next

(* The end of a round, a read through a lost cursor, a close and the clock   *)
(* leave what is owed as it is.                                              *)
LEMMA ServedQuiet ==
  ASSUME ListOK, \/ Tick \/ TmMiss \/ TmNextFreed \/ \E c \in Channs : Close(c)
  PROVE  Service!Next
  <1>1. UNCHANGED <<link, time, current, wild>> /\ told' = FALSE
    BY DEF Tick, TmMiss, TmNextFreed, Close
  <1>2. Armed' = Armed /\ Deadline' = Deadline
    BY ONLY <1>1 DEF Armed, Deadline
  <1>3. Owed' = Owed
    <2>1. CASE pos' = pos
      BY ONLY <1>1, <1>2, <2>1 DEF Owed
    <2>2. CASE pos' # pos
      <3>1. pos' = Null /\ (TmMiss \/ pos = Freed)
        BY <2>2 DEF Tick, TmMiss, TmNextFreed, Close
      <3>2. Armed \subseteq Channs
        BY ArmedIs DEF ListOK
      <3>3. Owed' = {}
        BY ONLY <1>2, <3>1, <3>2, TimerAssumption DEF Owed
      <3>4. Owed = {}
        <4>1. CASE TmMiss
          <5>1. pos \in Channs /\ time[pos] > current /\ time[pos] \in Int /\ current \in Nat
            BY <4>1 DEF TmMiss, ListOK, TimersOK
          <5>2. ~(time[pos] <= current)
            BY ONLY <5>1
          <5> QED BY <5>1, <5>2, CursorFirst
        <4>2. CASE pos = Freed
          BY ONLY <3>2, <4>2, TimerAssumption DEF Owed
        <4> QED BY ONLY <3>1, <4>1, <4>2
      <3> QED BY ONLY <3>3, <3>4
    <2> QED BY ONLY <2>1, <2>2
  <1>4. CASE Tick
    <2>1. now' = now + 1
      BY ONLY <1>4 DEF Tick
    <2>2. Service!Tick
      BY ONLY <1>1, <1>2, <1>3, <2>1 DEF Service!Tick, Deadline
    <2> QED BY ONLY <2>2 DEF Service!Next
  <1>5. CASE ~Tick
    <2>1. now' = now
      BY <1>5 DEF TmMiss, TmNextFreed, Close
    <2>2. Service!Idle
      BY ONLY <1>1, <1>2, <1>3, <2>1 DEF Service!Idle, Deadline
    <2> QED BY ONLY <2>2 DEF Service!Next
  <1> QED BY ONLY <1>4, <1>5

(* At first nobody has a timer. *)
LEMMA ServedInit ==
  ASSUME Init
  PROVE  Service!Init
  <1>1. Armed = {}
    BY TimerAssumption DEF Init, Armed, ToSet, Levels
  <1>2. Owed = {}
    BY <1>1 DEF Owed
  <1> QED BY <1>1, <1>2 DEF Init, Service!Init

-----------------------------------------------------------------------------
(* What it says *)

(* _chann_destroy() kills the timer of the chann it frees, and no node is    *)
(* put back for a chann that is gone: not by _tm_next() either, whose cursor *)
(* outlives the polls.                                                       *)
THEOREM TimersDieFirst ==
  Spec => []TimerOwnerAlive
  <1>1. TimersOK => TimerOwnerAlive
    BY DEF TimersOK
  <1> QED BY <1>1, TimersInvariant, PTL

(* _tm_schedule() and _tm_next() move the cursor off a node before they put  *)
(* the node back, so that only a handler that sets or kills the timer under  *)
(* the cursor leaves it on freed memory.                                     *)
THEOREM CursorIsKept ==
  Spec => CursorKept
  <1> DEFINE Handled == \E c \in Channs : pos = c /\ (KillTimer(c) \/ \E v \in Intervals : SetTimer(c, v))
             Kept1 == pos' = Freed /\ pos # Freed => Handled
  <1>1. TimersOK /\ [Next]_vars => [Kept1]_vars
    <2> SUFFICES ASSUME TimersOK, Next PROVE Kept1
      OBVIOUS
    <2>1. CASE Poll
      BY <2>1, TimersPoll
    <2>2. CASE Tick \/ TmMiss \/ TmNextFreed \/ \E c \in Channs : Close(c)
      BY <2>2, TimerAssumption DEF Tick, TmMiss, TmNextFreed, Close
    <2>3. ASSUME NEW c \in Channs, TmHit(c)
          PROVE  Kept1
      <3>1. Next1(c) \in (Armed \cup {ListHead}) \ {c} /\ Armed \subseteq Channs
        BY NextIs DEF TimersOK
      <3>2. Next1(c) # Freed /\ Next1(c) \notin {c}
        BY <3>1, TimerAssumption
      <3> QED BY <2>3, <3>2 DEF TmHit, CursorWithout
    <2>4. ASSUME NEW c \in Channs, KillTimer(c) \/ \E v \in Intervals : SetTimer(c, v)
          PROVE  Kept1
      <3>1. pos' = CursorWithout(pos, {c})
        BY <2>4 DEF KillTimer, SetTimer
      <3>2. pos' = Freed /\ pos # Freed => pos = c
        BY <3>1 DEF CursorWithout
      <3> QED BY <2>4, <3>2
    <2> QED BY <2>1, <2>2, <2>3, <2>4 DEF Next, ResultNext
  <1> QED BY <1>1, TimersInvariant, PTL DEF Spec, CursorKept

(* The time in the list is the one the application expects, and the cursor   *)
(* only takes what is due by the time of the poll, so an interval that fits  *)
(* the int has passed when CHANN_EVENT_TIMER is reported.                    *)
THEOREM TimersAreNotEarly ==
  Spec => NeverEarly
  <1> DEFINE OnTime == \A c \in Channs \ wild : TmHit(c) => now >= due[c]
  <1>1. TimersOK /\ [Next]_vars => [OnTime]_vars
    <2> SUFFICES ASSUME TimersOK, NEW c \in Channs \ wild, TmHit(c) PROVE now >= due[c]
      OBVIOUS
    <2>1. time[c] <= current /\ current <= now /\ due[c] <= time[c]
      BY DEF TmHit, TimersOK
    <2>2. time[c] \in Int /\ due[c] \in Int /\ current \in Int /\ now \in Int
      BY DEF TimersOK
    <2> QED BY ONLY <2>1, <2>2
  <1> QED BY <1>1, TimersInvariant, PTL DEF Spec, NeverEarly

(* However nodes of random height come and go, skiplist_insert() and         *)
(* skiplist_remove_skipnode() keep a skip list: every level in the order of  *)
(* time and of the lowest level, with the nodes that reach up to it, and     *)
(* list->level the number of the levels in use.                              *)
THEOREM ListStaysInShape ==
  Spec => []ListShape
  <1>1. ListOK => ListShape
    BY InvariantShape
  <1> QED BY <1>1, ListInvariant, PTL

(* The skip list and its cursor, which _tm_next() moves on before it puts    *)
(* the node back, implement the timer service: the timers due at a poll are  *)
(* reported in order, none twice and none left out.                          *)
THEOREM TimersAreServed ==
  Spec => RefinesService
  <1>1. Init => Service!Init
    BY ServedInit
  <1>2. ListOK /\ [Next]_vars => [Service!Next]_(Service!vars)
    <2>1. ASSUME ListOK, Next PROVE Service!Next
      BY <2>1, ServedQuiet, ServedPoll, ServedHit, ServedKill, ServedSet DEF Next, ResultNext
    <2>2. ASSUME UNCHANGED vars PROVE UNCHANGED Service!vars
      <3>1. UNCHANGED <<link, time, pos, current, now, wild, told>>
        BY <2>2 DEF vars
      <3>2. Armed' = Armed /\ Owed' = Owed
        BY ONLY <3>1 DEF Armed, Owed
      <3> QED BY ONLY <3>1, <3>2 DEF Service!vars
    <2> QED BY <2>1, <2>2
  <1> QED BY <1>1, <1>2, ListInvariant, PTL DEF Spec, RefinesService, Service!Spec
=============================================================================

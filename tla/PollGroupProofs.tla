-------------------------- MODULE PollGroupProofs --------------------------
(* What poll_group_acquire() and poll_group_release() of src/src/wepoll.c do *)
(* to the queue of poll groups, proved for every number of sock_states and   *)
(* every size of a group.  The queue is a permutation of the groups made so  *)
(* far; queue_move_last() and queue_move_first() are permutations of its     *)
(* places; and full groups stay in front of those with room.                 *)
EXTENDS Wepoll, FiniteSetTheorems, SequenceTheorems, TLAPS

-----------------------------------------------------------------------------
(* The queue *)

(* The groups of a queue are numbered as they were made, and each is on the  *)
(* queue once.                                                               *)
Dealt(q) ==
    /\ \A i \in DOMAIN q : q[i] \in 1..Len(q)
    /\ \A i, j \in DOMAIN q : q[i] = q[j] => i = j
    /\ \A g \in 1..Len(q) : \E i \in DOMAIN q : q[i] = g

(* queue_remove() of a group that is on the queue. *)
LEMMA WithoutOn ==
  ASSUME NEW q \in Seq(Nat), Dealt(q), NEW k \in DOMAIN q
  PROVE  /\ Without(q, q[k]) \in Seq(Nat) /\ Len(Without(q, q[k])) = Len(q) - 1
         /\ \A j \in 1..(Len(q) - 1) : Without(q, q[k])[j] = IF j < k THEN q[j] ELSE q[j + 1]
  <1> DEFINE w == [j \in 1..(Len(q) - 1) |-> q[IF j < k THEN j ELSE j + 1]]
  <1>1. Without(q, q[k]) = w
    <2>1. k = CHOOSE i \in DOMAIN q : q[i] = q[k]
      BY DEF Dealt
    <2> QED BY <2>1 DEF Without
  <1>2. Len(q) \in Nat /\ DOMAIN q = 1..Len(q) /\ Len(q) - 1 \in Nat
    OBVIOUS
  <1>3. w \in [1..(Len(q) - 1) -> Nat]
    BY <1>2
  <1>4. w \in Seq(Nat) /\ Len(w) = Len(q) - 1
    BY <1>2, <1>3
  <1>5. ASSUME NEW j \in 1..(Len(q) - 1)
        PROVE  w[j] = IF j < k THEN q[j] ELSE q[j + 1]
    BY <1>2
  <1> HIDE DEF w
  <1> QED BY <1>1, <1>4, <1>5

(* A group that is not on the queue yet. *)
LEMMA WithoutOff ==
  ASSUME NEW q \in Seq(Nat), Dealt(q)
  PROVE  Without(q, Len(q) + 1) = q
  BY DEF Without, Dealt

(* queue_move_last(): the group goes to the end, the others keep their order. *)
LEMMA MovedLast ==
  ASSUME NEW q \in Seq(Nat), Dealt(q), NEW k \in DOMAIN q
  PROVE  LET r == Append(Without(q, q[k]), q[k]) IN
         /\ r \in Seq(Nat) /\ Len(r) = Len(q) /\ r[Len(q)] = q[k]
         /\ \A j \in 1..(Len(q) - 1) : r[j] = IF j < k THEN q[j] ELSE q[j + 1]
  <1> DEFINE w == Without(q, q[k])
  <1>1. /\ w \in Seq(Nat) /\ Len(w) = Len(q) - 1 /\ q[k] \in Nat /\ Len(q) \in Nat
        /\ \A j \in 1..(Len(q) - 1) : w[j] = IF j < k THEN q[j] ELSE q[j + 1]
    BY WithoutOn
  <1> HIDE DEF w
  <1>2. /\ Append(w, q[k]) \in Seq(Nat) /\ Len(Append(w, q[k])) = Len(q) /\ Append(w, q[k])[Len(q)] = q[k]
        /\ \A j \in 1..(Len(q) - 1) : Append(w, q[k])[j] = w[j]
    BY <1>1
  <1> QED BY <1>1, <1>2 DEF w

(* A group in front of a queue. *)
LEMMA Prepended ==
  ASSUME NEW g \in Nat, NEW w \in Seq(Nat), NEW r, r = <<g>> \o w
  PROVE  /\ r \in Seq(Nat) /\ Len(r) = Len(w) + 1 /\ r[1] = g
         /\ \A j \in 2..(Len(w) + 1) : r[j] = w[j - 1]
  <1> DEFINE v == <<g>>
  <1>1. v \in Seq(Nat)
    OBVIOUS
  <1>2. Len(v) = 1
    OBVIOUS
  <1>3. v[1] = g
    OBVIOUS
  <1>4. r = v \o w
    OBVIOUS
  <1> HIDE DEF v
  <1>5. /\ v \o w \in Seq(Nat) /\ Len(v \o w) = Len(v) + Len(w) /\ Len(w) \in Nat
        /\ \A i \in 1..(Len(v) + Len(w)) : (v \o w)[i] = IF i <= Len(v) THEN v[i] ELSE w[i - Len(v)]
    BY <1>1, ConcatProperties
  <1> QED BY ONLY <1>2, <1>3, <1>4, <1>5

(* r is queue w with group g put in front, or at the end. *)
InFront(r, g, w) == r = <<g>> \o w
AtEnd(r, w, g) == r = Append(w, g)

(* queue_move_first(): the group goes to the front. *)
LEMMA MovedFirst ==
  ASSUME NEW q \in Seq(Nat), Dealt(q), NEW k \in DOMAIN q,
         NEW r, InFront(r, q[k], Without(q, q[k]))
  PROVE  /\ r \in Seq(Nat) /\ Len(r) = Len(q) /\ r[1] = q[k]
         /\ \A j \in 2..Len(q) : r[j] = IF j - 1 < k THEN q[j - 1] ELSE q[j]
  <1>g. PICK g : g = q[k]
    OBVIOUS
  <1> DEFINE w == Without(q, q[k])
  <1>0. q \in Seq(Nat) /\ Dealt(q) /\ k \in DOMAIN q
    OBVIOUS
  <1>1. /\ w \in Seq(Nat) /\ Len(w) = Len(q) - 1
        /\ \A j \in 1..(Len(q) - 1) : w[j] = IF j < k THEN q[j] ELSE q[j + 1]
    BY ONLY <1>0, WithoutOn
  <1>2. r = <<g>> \o w
    BY <1>g, Zenon DEF InFront
  <1> HIDE DEF w
  <1>3. g \in Nat /\ Len(q) \in Nat /\ k \in 1..Len(q)
    BY <1>g
  <1>4. /\ r \in Seq(Nat) /\ Len(r) = Len(w) + 1 /\ r[1] = g
        /\ \A j \in 2..(Len(w) + 1) : r[j] = w[j - 1]
    BY ONLY <1>1, <1>2, <1>3, Prepended
  <1>5. ASSUME NEW j \in 2..Len(q)
        PROVE  w[j - 1] = IF j - 1 < k THEN q[j - 1] ELSE q[j]
    <2>1. Len(q) \in Nat /\ j \in 2..Len(q)
      BY ONLY <1>3, <1>5
    <2>2. j - 1 \in 1..(Len(q) - 1) /\ (j - 1) + 1 = j
      BY ONLY <2>1
    <2>3. w[j - 1] = IF j - 1 < k THEN q[j - 1] ELSE q[(j - 1) + 1]
      BY ONLY <1>1, <2>2
    <2> QED BY ONLY <2>2, <2>3
  <1> QED BY ONLY <1>g, <1>1, <1>3, <1>4, <1>5

(* p says where the groups of a queue of m groups were. *)
Perm(p, m) ==
    /\ p \in [1..m -> 1..m]
    /\ \A i, j \in 1..m : p[i] = p[j] => i = j
    /\ \A i \in 1..m : \E j \in 1..m : p[j] = i

(* The k-th group goes to the end, or to the front, and the others keep      *)
(* their order.                                                              *)
Lastly(p, k, m) == p = [j \in 1..m |-> IF j = m THEN k ELSE IF j < k THEN j ELSE j + 1]
Firstly(p, k, m) == p = [j \in 1..m |-> IF j = 1 THEN k ELSE IF j - 1 < k THEN j - 1 ELSE j]

(* The k-th group goes to the end. *)
LEMMA LastPerm ==
  ASSUME NEW m \in Nat, NEW k \in 1..m,
         NEW p, Lastly(p, k, m)
  PROVE  Perm(p, m) /\ p[m] = k /\ \A i, j \in 1..m : i < j /\ j # m => p[i] < p[j]
  <1>0. p = [j \in 1..m |-> IF j = m THEN k ELSE IF j < k THEN j ELSE j + 1]
    BY DEF Lastly
  <1>1. p \in [1..m -> 1..m]
    BY <1>0
  <1>2. \A i, j \in 1..m : p[i] = p[j] => i = j
    BY <1>0
  <1>3. ASSUME NEW i \in 1..m
        PROVE  \E j \in 1..m : p[j] = i
    <2>1. CASE i = k
      BY <1>0, <2>1
    <2>2. CASE i < k
      BY <1>0, <2>2
    <2>3. CASE i > k
      <3>1. i - 1 \in 1..m /\ i - 1 # m /\ ~(i - 1 < k) /\ (i - 1) + 1 = i
        BY <1>0, <2>3
      <3>2. p[i - 1] = i
        BY <1>0, <3>1
      <3> QED BY <3>1, <3>2
    <2> QED BY <2>1, <2>2, <2>3
  <1>4. p[m] = k /\ \A i, j \in 1..m : i < j /\ j # m => p[i] < p[j]
    BY <1>0
  <1> QED BY <1>1, <1>2, <1>3, <1>4 DEF Perm

(* The k-th group goes to the front. *)
LEMMA FirstPerm ==
  ASSUME NEW m \in Nat, NEW k \in 1..m,
         NEW p, Firstly(p, k, m)
  PROVE  Perm(p, m) /\ p[1] = k /\ \A i, j \in 1..m : i < j /\ i # 1 => p[i] < p[j]
  <1>0. p = [j \in 1..m |-> IF j = 1 THEN k ELSE IF j - 1 < k THEN j - 1 ELSE j]
    BY DEF Firstly
  <1>1. p \in [1..m -> 1..m]
    BY <1>0
  <1>2. \A i, j \in 1..m : p[i] = p[j] => i = j
    BY <1>0
  <1>3. ASSUME NEW i \in 1..m
        PROVE  \E j \in 1..m : p[j] = i
    <2>1. CASE i = k
      BY <1>0, <2>1
    <2>2. CASE i > k
      BY <1>0, <2>2
    <2>3. CASE i < k
      <3>1. i + 1 \in 1..m /\ i + 1 # 1 /\ (i + 1) - 1 < k /\ (i + 1) - 1 = i
        BY <1>0, <2>3
      <3>2. p[i + 1] = i
        BY <1>0, <3>1
      <3> QED BY <3>1, <3>2
    <2> QED BY <2>1, <2>2, <2>3
  <1>4. p[1] = k /\ \A i, j \in 1..m : i < j /\ i # 1 => p[i] < p[j]
    BY <1>0
  <1> QED BY <1>1, <1>2, <1>3, <1>4 DEF Perm

(* A queue in another order. *)
Placed(r, q, p) == \A j \in 1..Len(q) : r[j] = q[p[j]]

(* It holds the same groups. *)
LEMMA DealtAgain ==
  ASSUME NEW q \in Seq(Nat), NEW r \in Seq(Nat), Len(r) = Len(q), Dealt(q),
         NEW p, Perm(p, Len(q)), Placed(r, q, p)
  PROVE  Dealt(r)
  <1> DEFINE m == Len(q)
  <1>0. m \in Nat /\ DOMAIN q = 1..m /\ DOMAIN r = 1..m /\ Len(r) = m
    OBVIOUS
  <1>00. (\A j \in 1..m : p[j] \in 1..m) /\ (\A j \in 1..m : r[j] = q[p[j]])
    BY ONLY Perm(p, Len(q)), Placed(r, q, p) DEF Perm, Placed
  <1>1. /\ m \in Nat /\ DOMAIN q = 1..m /\ DOMAIN r = 1..m /\ Len(r) = m
        /\ (\A j \in 1..m : p[j] \in 1..m) /\ (\A j \in 1..m : r[j] = q[p[j]])
    BY ONLY <1>0, <1>00
  <1>2. /\ \A i \in 1..m : q[i] \in 1..m
        /\ \A i, j \in 1..m : q[i] = q[j] => i = j
        /\ \A g \in 1..m : \E i \in 1..m : q[i] = g
    BY <1>1 DEF Dealt
  <1>3. /\ \A i, j \in 1..m : p[i] = p[j] => i = j
        /\ \A i \in 1..m : \E j \in 1..m : p[j] = i
    BY DEF Perm
  <1> HIDE DEF m
  <1>4. \A i \in 1..m : r[i] \in 1..m
    BY ONLY <1>1, <1>2
  <1>5. ASSUME NEW i \in 1..m, NEW j \in 1..m, r[i] = r[j]
        PROVE  i = j
    <2>1. p[i] \in 1..m /\ p[j] \in 1..m /\ q[p[i]] = q[p[j]]
      BY ONLY <1>1, <1>5
    <2>2. p[i] = p[j]
      BY ONLY <1>2, <2>1
    <2> QED BY ONLY <1>3, <1>5, <2>2
  <1>6. ASSUME NEW g \in 1..m
        PROVE  \E i \in 1..m : r[i] = g
    <2>1. PICK a \in 1..m : q[a] = g
      BY ONLY <1>2, <1>6
    <2>2. PICK i \in 1..m : p[i] = a
      BY ONLY <1>3, <2>1
    <2> QED BY ONLY <1>1, <2>1, <2>2
  <1> QED BY <1>1, <1>4, <1>5, <1>6 DEF Dealt

(* Full groups come first. *)
Packed(q, z) == \A i, j \in DOMAIN q : i < j /\ z[q[j]] = MaxGroupSize => z[q[i]] = MaxGroupSize

(* The k-th group goes to the end with room or to the front when it is full. *)
WellMoved(p, k, m, full) ==
    \/ p[m] = k /\ ~full /\ \A i, j \in 1..m : i < j /\ j # m => p[i] < p[j]
    \/ p[1] = k /\ full /\ \A i, j \in 1..m : i < j /\ i # 1 => p[i] < p[j]
OnlyAt(g, y, z, m) == \A h \in 1..m : h # g => y[h] = z[h]

(* Full groups stay first when only the k-th group's size changes and it     *)
(* goes to the end with room or to the front when it is full.                *)
LEMMA PackedAgain ==
  ASSUME NEW q \in Seq(Nat), NEW r \in Seq(Nat), Len(r) = Len(q), Dealt(q), NEW z, Packed(q, z),
         NEW p, Perm(p, Len(q)), Placed(r, q, p),
         NEW k \in 1..Len(q), NEW y, OnlyAt(q[k], y, z, Len(q)),
         WellMoved(p, k, Len(q), y[q[k]] = MaxGroupSize)
  PROVE  Packed(r, y)
  <1> DEFINE m == Len(q)
  <1>0. m \in Nat /\ DOMAIN q = 1..m /\ DOMAIN r = 1..m /\ Len(r) = m
    OBVIOUS
  <1>00. (\A j \in 1..m : p[j] \in 1..m) /\ (\A j \in 1..m : r[j] = q[p[j]])
    BY ONLY Perm(p, Len(q)), Placed(r, q, p) DEF Perm, Placed
  <1>1. /\ m \in Nat /\ DOMAIN q = 1..m /\ DOMAIN r = 1..m /\ Len(r) = m
        /\ (\A j \in 1..m : p[j] \in 1..m) /\ (\A j \in 1..m : r[j] = q[p[j]])
    BY ONLY <1>0, <1>00
  <1>2. /\ \A i \in 1..m : q[i] \in 1..m
        /\ \A i, j \in 1..m : q[i] = q[j] => i = j
        /\ \A i, j \in 1..m : p[i] = p[j] => i = j
    BY <1>1 DEF Dealt, Perm
  <1>3. \A i, j \in 1..m : i < j /\ z[q[j]] = MaxGroupSize => z[q[i]] = MaxGroupSize
    BY <1>1 DEF Packed
  <1>4. ASSUME NEW i \in 1..m, NEW j \in 1..m, i < j, y[r[j]] = MaxGroupSize
        PROVE  y[r[i]] = MaxGroupSize
    <2>1. p[i] \in 1..m /\ p[j] \in 1..m /\ p[i] # p[j] /\ r[i] = q[p[i]] /\ r[j] = q[p[j]]
      BY <1>1, <1>2, <1>4
    <2>2. \A a \in 1..m : a # k => y[q[a]] = z[q[a]]
      <3>1. ASSUME NEW a \in 1..m, a # k
            PROVE  y[q[a]] = z[q[a]]
        <4>1. q[a] \in 1..m /\ k \in 1..m
          BY <1>1, <1>2
        <4>2. q[a] # q[k]
          BY ONLY <1>2, <3>1, <4>1
        <4>3. OnlyAt(q[k], y, z, m)
          OBVIOUS
        <4> QED BY ONLY <4>1, <4>2, <4>3 DEF OnlyAt
      <3> QED BY <3>1
    <2>3. CASE p[i] # k /\ p[j] # k
      <3>1. p[i] < p[j]
        BY <1>1, <1>4, <2>1, <2>3 DEF WellMoved
      <3> QED BY <1>3, <1>4, <2>1, <2>2, <2>3, <3>1
    <2>4. CASE p[j] = k
      <3>1. y[q[k]] = MaxGroupSize /\ p[1] = k
        BY <1>4, <2>1, <2>4 DEF WellMoved
      <3>2. 1 \in 1..m /\ j \in 1..m /\ i \in 1..m /\ i < j
        BY ONLY <1>1, <1>4
      <3>3. 1 = j
        BY ONLY <1>2, <2>4, <3>1, <3>2
      <3> QED BY ONLY <3>2, <3>3
    <2>5. CASE p[i] = k
      <3>1. CASE y[q[k]] = MaxGroupSize
        BY <2>1, <2>5, <3>1
      <3>2. CASE y[q[k]] # MaxGroupSize
        <4>1. p[m] = k
          BY <3>2 DEF WellMoved
        <4>2. m \in 1..m /\ j \in 1..m /\ i \in 1..m /\ i < j
          BY ONLY <1>1, <1>4
        <4>3. i = m
          BY ONLY <1>2, <2>5, <4>1, <4>2
        <4> QED BY ONLY <4>2, <4>3
      <3> QED BY <3>1, <3>2
    <2> QED BY <2>3, <2>4, <2>5
  <1> QED BY <1>1, <1>4 DEF Packed

(* A group with room goes to the end. *)
LEMMA ToLast ==
  ASSUME NEW q \in Seq(Nat), Dealt(q), NEW z, Packed(q, z), NEW k \in 1..Len(q),
         NEW r, AtEnd(r, Without(q, q[k]), q[k]),
         NEW y, OnlyAt(q[k], y, z, Len(q)), y[q[k]] # MaxGroupSize
  PROVE  r \in Seq(Nat) /\ Len(r) = Len(q) /\ Dealt(r) /\ Packed(r, y)
  <1>1. q \in Seq(Nat) /\ Dealt(q) /\ k \in DOMAIN q /\ Len(q) \in Nat /\ k \in 1..Len(q)
    OBVIOUS
  <1> DEFINE x == Append(Without(q, q[k]), q[k])
  <1>2. /\ x \in Seq(Nat) /\ Len(x) = Len(q) /\ x[Len(q)] = q[k]
        /\ \A j \in 1..(Len(q) - 1) : x[j] = IF j < k THEN q[j] ELSE q[j + 1]
    BY ONLY <1>1, MovedLast
  <1>3. x = r
    BY Zenon DEF AtEnd
  <1> HIDE DEF x
  <1>p. PICK p : Lastly(p, k, Len(q))
    BY DEF Lastly
  <1>4. /\ Perm(p, Len(q)) /\ p[Len(q)] = k
        /\ \A i, j \in 1..Len(q) : i < j /\ j # Len(q) => p[i] < p[j]
    BY ONLY <1>1, <1>p, LastPerm, Zenon
  <1>5. ASSUME NEW j \in 1..Len(q)
        PROVE  x[j] = q[p[j]]
    <2>1. CASE j = Len(q)
      BY ONLY <1>1, <1>2, <1>4, <2>1
    <2>2. CASE j # Len(q)
      <3>1. j \in 1..(Len(q) - 1)
        BY ONLY <1>1, <1>5, <2>2
      <3> QED BY ONLY <1>2, <1>p, <1>5, <2>2, <3>1 DEF Lastly
    <2> QED BY <2>1, <2>2
  <1>51. Placed(x, q, p)
    BY ONLY <1>5 DEF Placed
  <1>6. Dealt(x)
    BY ONLY <1>1, <1>2, <1>4, <1>51, DealtAgain, Zenon
  <1>7. OnlyAt(q[k], y, z, Len(q)) /\ y[q[k]] # MaxGroupSize
    OBVIOUS
  <1>8. Packed(q, z)
    OBVIOUS
  <1>9. WellMoved(p, k, Len(q), y[q[k]] = MaxGroupSize) /\ OnlyAt(q[k], y, z, Len(q))
    BY ONLY <1>4, <1>7 DEF WellMoved, OnlyAt
  <1>10. Packed(x, y)
    BY ONLY <1>1, <1>2, <1>4, <1>51, <1>8, <1>9, PackedAgain, Zenon
  <1> QED BY ONLY <1>2, <1>3, <1>6, <1>10

(* A full group goes to the front. *)
LEMMA ToFirst ==
  ASSUME NEW q \in Seq(Nat), Dealt(q), NEW z, Packed(q, z), NEW k \in 1..Len(q), NEW g, g = q[k],
         NEW r, InFront(r, g, Without(q, g)),
         NEW y, \A h \in 1..Len(q) : h # g => y[h] = z[h], y[g] = MaxGroupSize
  PROVE  r \in Seq(Nat) /\ Len(r) = Len(q) /\ Dealt(r) /\ Packed(r, y)
  <1>1. q \in Seq(Nat) /\ Dealt(q) /\ k \in DOMAIN q /\ Len(q) \in Nat /\ k \in 1..Len(q)
    OBVIOUS
  <1>g. InFront(r, q[k], Without(q, q[k]))
    OBVIOUS
  <1>2. /\ r \in Seq(Nat) /\ Len(r) = Len(q) /\ r[1] = q[k]
        /\ \A j \in 2..Len(q) : r[j] = IF j - 1 < k THEN q[j - 1] ELSE q[j]
    BY ONLY <1>1, <1>g, MovedFirst
  <1>p. PICK p : Firstly(p, k, Len(q))
    BY DEF Firstly
  <1>4. /\ Perm(p, Len(q)) /\ p[1] = k
        /\ \A i, j \in 1..Len(q) : i < j /\ i # 1 => p[i] < p[j]
    BY ONLY <1>1, <1>p, FirstPerm, Zenon
  <1>5. ASSUME NEW j \in 1..Len(q)
        PROVE  r[j] = q[p[j]]
    <2>1. CASE j = 1
      BY ONLY <1>1, <1>2, <1>4, <2>1
    <2>2. CASE j # 1
      <3>1. j \in 2..Len(q)
        BY ONLY <1>1, <1>5, <2>2
      <3> QED BY ONLY <1>2, <1>p, <1>5, <2>2, <3>1 DEF Firstly
    <2> QED BY <2>1, <2>2
  <1>51. Placed(r, q, p)
    BY ONLY <1>5 DEF Placed
  <1>6. Dealt(r)
    BY ONLY <1>1, <1>2, <1>4, <1>51, DealtAgain, Zenon
  <1>7. \A h \in 1..Len(q) : h # q[k] => y[h] = z[h]
    BY Zenon
  <1>8. y[q[k]] = MaxGroupSize
    BY Zenon
  <1>9. Packed(q, z)
    OBVIOUS
  <1>10. WellMoved(p, k, Len(q), y[q[k]] = MaxGroupSize) /\ OnlyAt(q[k], y, z, Len(q))
    BY ONLY <1>4, <1>7, <1>8 DEF WellMoved, OnlyAt
  <1>11. Packed(r, y)
    BY ONLY <1>1, <1>2, <1>4, <1>51, <1>9, <1>10, PackedAgain, Zenon
  <1> QED BY ONLY <1>2, <1>6, <1>11

(* A new group at the end. *)
LEMMA NewLast ==
  ASSUME NEW q \in Seq(Nat), Dealt(q), NEW z, Packed(q, z), NEW r, AtEnd(r, q, Len(q) + 1),
         NEW y, \A h \in 1..Len(q) : y[h] = z[h], y[Len(q) + 1] # MaxGroupSize
  PROVE  r \in Seq(Nat) /\ Len(r) = Len(q) + 1 /\ Dealt(r) /\ Packed(r, y)
  <1>1. /\ r \in Seq(Nat) /\ Len(r) = Len(q) + 1 /\ Len(q) \in Nat
        /\ r[Len(q) + 1] = Len(q) + 1 /\ \A j \in 1..Len(q) : r[j] = q[j]
    BY DEF AtEnd
  <1>2. /\ \A i \in 1..Len(q) : q[i] \in 1..Len(q)
        /\ \A i, j \in 1..Len(q) : q[i] = q[j] => i = j
        /\ \A g \in 1..Len(q) : \E i \in 1..Len(q) : q[i] = g
    BY DEF Dealt
  <1>3. \A i, j \in 1..Len(q) : i < j /\ z[q[j]] = MaxGroupSize => z[q[i]] = MaxGroupSize
    BY DEF Packed
  <1>4. DOMAIN r = 1..(Len(q) + 1)
    BY <1>1
  <1>5. Dealt(r)
    <2>0. \A i \in 1..(Len(q) + 1) : i = Len(q) + 1 \/ i \in 1..Len(q)
      BY ONLY <1>1
    <2>00. \A i \in 1..Len(q) : r[i] = q[i] /\ r[i] \in 1..Len(q)
      BY ONLY <1>1, <1>2
    <2>1. ASSUME NEW i \in 1..(Len(q) + 1)
          PROVE  r[i] \in 1..(Len(q) + 1)
      <3>1. CASE i = Len(q) + 1
        BY ONLY <1>1, <3>1
      <3>2. CASE i \in 1..Len(q)
        BY ONLY <1>1, <2>00, <3>2
      <3> QED BY ONLY <2>0, <2>1, <3>1, <3>2
    <2>2. ASSUME NEW i \in 1..(Len(q) + 1), NEW j \in 1..(Len(q) + 1), r[i] = r[j]
          PROVE  i = j
      <3>1. CASE i \in 1..Len(q) /\ j \in 1..Len(q)
        BY ONLY <1>2, <2>00, <2>2, <3>1
      <3>2. CASE i = Len(q) + 1 \/ j = Len(q) + 1
        BY ONLY <1>1, <2>0, <2>00, <2>2, <3>2
      <3> QED BY ONLY <2>0, <2>2, <3>1, <3>2
    <2>3. ASSUME NEW g \in 1..(Len(q) + 1)
          PROVE  \E i \in 1..(Len(q) + 1) : r[i] = g
      <3>1. CASE g = Len(q) + 1
        BY ONLY <1>1, <3>1
      <3>2. CASE g # Len(q) + 1
        <4>1. g \in 1..Len(q)
          BY ONLY <1>1, <2>3, <3>2
        <4>2. PICK i \in 1..Len(q) : q[i] = g
          BY ONLY <1>2, <4>1
        <4> QED BY ONLY <1>1, <4>2
      <3> QED BY <3>1, <3>2
    <2> QED BY ONLY <1>1, <1>4, <2>1, <2>2, <2>3 DEF Dealt
  <1>6. ASSUME NEW i \in 1..(Len(q) + 1), NEW j \in 1..(Len(q) + 1), i < j, y[r[j]] = MaxGroupSize
        PROVE  y[r[i]] = MaxGroupSize
    <2>1. y[Len(q) + 1] # MaxGroupSize /\ \A h \in 1..Len(q) : y[h] = z[h]
      OBVIOUS
    <2>2. j # Len(q) + 1
      BY ONLY <1>1, <1>6, <2>1
    <2>3. i \in 1..Len(q) /\ j \in 1..Len(q)
      BY ONLY <1>1, <1>6, <2>2
    <2>4. r[i] = q[i] /\ r[j] = q[j] /\ q[i] \in 1..Len(q) /\ q[j] \in 1..Len(q)
      BY ONLY <1>1, <1>2, <2>3
    <2>5. z[q[j]] = MaxGroupSize
      BY ONLY <1>6, <2>1, <2>4
    <2>6. z[q[i]] = MaxGroupSize
      BY ONLY <1>3, <1>6, <2>3, <2>5
    <2> QED BY ONLY <2>1, <2>4, <2>6
  <1> QED BY ONLY <1>1, <1>4, <1>5, <1>6 DEF Packed

(* A new group at the front, full at once. *)
LEMMA NewFirst ==
  ASSUME NEW q \in Seq(Nat), Dealt(q), NEW z, Packed(q, z), NEW g, g = Len(q) + 1, NEW r, InFront(r, g, q),
         NEW y, \A h \in 1..Len(q) : y[h] = z[h], y[g] = MaxGroupSize
  PROVE  r \in Seq(Nat) /\ Len(r) = Len(q) + 1 /\ Dealt(r) /\ Packed(r, y)
  <1> DEFINE m == Len(q)
  <1>1. /\ m \in Nat /\ g = m + 1 /\ g \in Nat
        /\ r \in Seq(Nat) /\ Len(r) = m + 1 /\ r[1] = g
        /\ \A j \in 2..(m + 1) : r[j] = q[j - 1]
    <2>1. g \in Nat /\ q \in Seq(Nat) /\ r = <<g>> \o q
      BY DEF InFront
    <2>2. /\ r \in Seq(Nat) /\ Len(r) = Len(q) + 1 /\ r[1] = g
          /\ \A j \in 2..(Len(q) + 1) : r[j] = q[j - 1]
      BY ONLY <2>1, Prepended
    <2> QED BY ONLY <2>1, <2>2, g = Len(q) + 1
  <1>2. /\ \A i \in 1..m : q[i] \in 1..m
        /\ \A i, j \in 1..m : q[i] = q[j] => i = j
        /\ \A h \in 1..m : \E i \in 1..m : q[i] = h
    BY ONLY q \in Seq(Nat), Dealt(q) DEF Dealt
  <1>3. \A i, j \in 1..m : i < j /\ z[q[j]] = MaxGroupSize => z[q[i]] = MaxGroupSize
    BY ONLY q \in Seq(Nat), Packed(q, z) DEF Packed
  <1>4. DOMAIN r = 1..(m + 1)
    BY ONLY <1>1
  <1>5. y[g] = MaxGroupSize /\ \A h \in 1..m : y[h] = z[h]
    OBVIOUS
  <1> HIDE DEF m
  <1>6. ASSUME NEW j \in 2..(m + 1)
        PROVE  j - 1 \in 1..m /\ r[j] = q[j - 1] /\ r[j] \in 1..m
    <2>1. j - 1 \in 1..m
      BY ONLY <1>1, <1>6
    <2>2. r[j] = q[j - 1]
      BY ONLY <1>1, <1>6
    <2> QED BY ONLY <1>2, <2>1, <2>2
  <1>7. Dealt(r)
    <2>1. \A i \in 1..(m + 1) : i = 1 \/ i \in 2..(m + 1)
      BY ONLY <1>1
    <2>2. \A i \in 1..(m + 1) : r[i] \in 1..(m + 1)
      BY ONLY <1>1, <1>6, <2>1
    <2>3. ASSUME NEW i \in 1..(m + 1), NEW j \in 1..(m + 1), r[i] = r[j]
          PROVE  i = j
      <3>1. CASE i = 1 \/ j = 1
        BY ONLY <1>1, <1>6, <2>1, <2>3, <3>1
      <3>2. CASE i # 1 /\ j # 1
        <4>1. i - 1 \in 1..m /\ j - 1 \in 1..m /\ q[i - 1] = q[j - 1]
          BY ONLY <1>6, <2>1, <2>3, <3>2
        <4>2. i - 1 = j - 1
          BY ONLY <1>2, <4>1
        <4> QED BY ONLY <1>1, <2>3, <4>2
      <3> QED BY <3>1, <3>2
    <2>4. ASSUME NEW h \in 1..(m + 1)
          PROVE  \E i \in 1..(m + 1) : r[i] = h
      <3>1. CASE h = m + 1
        BY ONLY <1>1, <3>1
      <3>2. CASE h # m + 1
        <4>1. h \in 1..m
          BY ONLY <1>1, <2>4, <3>2
        <4>2. PICK i \in 1..m : q[i] = h
          BY ONLY <1>2, <4>1
        <4>3. i + 1 \in 2..(m + 1) /\ (i + 1) - 1 = i /\ i + 1 \in 1..(m + 1)
          BY ONLY <1>1, <4>2
        <4>4. r[i + 1] = q[i]
          BY ONLY <1>1, <4>3
        <4> QED BY ONLY <4>2, <4>3, <4>4
      <3> QED BY <3>1, <3>2
    <2> QED BY ONLY <1>1, <1>4, <2>2, <2>3, <2>4 DEF Dealt
  <1>8. ASSUME NEW i \in 1..(m + 1), NEW j \in 1..(m + 1), i < j, y[r[j]] = MaxGroupSize
        PROVE  y[r[i]] = MaxGroupSize
    <2>1. CASE i = 1
      BY ONLY <1>1, <1>5, <2>1
    <2>2. CASE i # 1
      <3>1. i \in 2..(m + 1) /\ j \in 2..(m + 1) /\ i - 1 < j - 1
        BY ONLY <1>1, <1>8, <2>2
      <3>2. i - 1 \in 1..m /\ j - 1 \in 1..m /\ r[i] = q[i - 1] /\ r[j] = q[j - 1]
        BY ONLY <1>6, <3>1
      <3>3. y[q[i - 1]] = z[q[i - 1]] /\ y[q[j - 1]] = z[q[j - 1]]
        BY ONLY <1>2, <1>5, <3>2
      <3> QED BY ONLY <1>3, <1>8, <3>1, <3>2, <3>3
    <2> QED BY <2>1, <2>2
  <1> QED BY ONLY <1>1, <1>4, <1>7, <1>8 DEF Packed, m

-----------------------------------------------------------------------------
(* The groups and their members *)

(* The poll groups of the sock_states os with fields s: q is the queue and z *)
(* the sizes.                                                                *)
Members(os, s, g) == {o \in os : s[o].grp = g}
GroupsOK(os, s, q, z) ==
    /\ q \in Seq(Nat) /\ Len(q) <= Cardinality(Objs) + 1
    /\ z \in [Groups -> 0..MaxGroupSize]
    /\ Dealt(q) /\ Packed(q, z)
    /\ \A o \in os : s[o].grp \in 1..Len(q)
    /\ \A g \in Groups : z[g] = Cardinality(Members(os, s, g))

(* Bounds of the queue and the sizes. *)
LEMMA GroupTypes ==
  ASSUME NEW os \in SUBSET Objs, NEW s, NEW q, NEW z, GroupsOK(os, s, q, z)
  PROVE  /\ IsFiniteSet(os) /\ Cardinality(os) \in Nat /\ Cardinality(os) <= Cardinality(Objs)
         /\ Cardinality(Objs) \in Nat /\ Groups = 1..(Cardinality(Objs) + 1)
         /\ Len(q) \in Nat /\ DOMAIN q = 1..Len(q) /\ \A g \in 1..Len(q) : g \in Groups
         /\ MaxGroupSize \in Nat /\ MaxGroupSize > 0
         /\ \A g : IsFiniteSet(Members(os, s, g))
  <1>1. IsFiniteSet(Objs) /\ IsFiniteSet(os) /\ Cardinality(os) <= Cardinality(Objs)
    BY WepollAssumption, FS_Subset
  <1>2. Cardinality(Objs) \in Nat /\ Cardinality(os) \in Nat
    BY <1>1, FS_CardinalityType
  <1>3. q \in Seq(Nat) /\ Len(q) <= Cardinality(Objs) + 1
    BY DEF GroupsOK
  <1>4. Len(q) \in Nat /\ DOMAIN q = 1..Len(q)
    BY <1>3
  <1>5. MaxGroupSize \in Nat /\ MaxGroupSize > 0
    BY WepollAssumption
  <1>6. ASSUME NEW g PROVE IsFiniteSet(Members(os, s, g))
    <2>1. Members(os, s, g) \in SUBSET os
      BY DEF Members
    <2> QED BY <1>1, <2>1, FS_Subset
  <1>7. Groups = 1..(Cardinality(Objs) + 1)
    BY DEF Groups
  <1>8. \A g \in 1..Len(q) : g \in Groups
    BY ONLY <1>2, <1>3, <1>4, <1>7
  <1> QED BY ONLY <1>1, <1>2, <1>4, <1>5, <1>6, <1>7, <1>8

(* Groups that all have a sock_state are no more than there are sock_states. *)
LEMMA GroupsUsed ==
  ASSUME NEW os \in SUBSET Objs, NEW s, NEW q, NEW z, GroupsOK(os, s, q, z),
         \A g \in 1..Len(q) : z[g] # 0
  PROVE  Len(q) <= Cardinality(os)
  <1>1. /\ IsFiniteSet(os) /\ Len(q) \in Nat /\ \A g \in 1..Len(q) : g \in Groups
        /\ \A g : IsFiniteSet(Members(os, s, g))
    BY GroupTypes
  <1>2. ASSUME NEW g \in 1..Len(q)
        PROVE  \E o \in os : s[o].grp = g
    <2>1. Cardinality(Members(os, s, g)) # 0
      BY <1>1 DEF GroupsOK
    <2>2. Members(os, s, g) # {}
      BY <2>1, FS_EmptySet
    <2> QED BY <2>2 DEF Members
  <1> DEFINE f == [g \in 1..Len(q) |-> CHOOSE o \in os : s[o].grp = g]
  <1>3. \A g \in 1..Len(q) : f[g] \in os /\ s[f[g]].grp = g
    BY <1>2
  <1>4. f \in [1..Len(q) -> os]
    BY <1>3
  <1> HIDE DEF f
  <1>5. \A a, b \in 1..Len(q) : f[a] = f[b] => a = b
    BY ONLY <1>3
  <1>6. DOMAIN f = 1..Len(q)
    BY ONLY <1>4
  <1>7. f \in Injection(1..Len(q), os)
    BY ONLY <1>4, <1>5, <1>6 DEF Injection, IsInjective
  <1>8. Cardinality(1..Len(q)) <= Cardinality(os)
    BY ONLY <1>1, <1>7, FS_Injection
  <1>9. Cardinality(1..Len(q)) = Len(q)
    <2>1. 1 \in Int /\ Len(q) \in Int /\ Len(q) \in Nat
      BY ONLY <1>1
    <2>2. Cardinality(1..Len(q)) = IF 1 > Len(q) THEN 0 ELSE Len(q) - 1 + 1
      BY ONLY <2>1, FS_Interval
    <2> QED BY ONLY <2>1, <2>2
  <1> QED BY ONLY <1>8, <1>9

(* poll_group_acquire() takes the last group, or a new one when it is full. *)
NoRoom(q, z) == IF q = <<>> THEN TRUE ELSE z[q[Len(q)]] >= MaxGroupSize
Taken(q, z) == IF NoRoom(q, z) THEN Len(q) + 1 ELSE q[Len(q)]

(* The group it takes has room, and there is one left to make when all the   *)
(* others are full.                                                          *)
LEMMA GroupFound ==
  ASSUME NEW os \in SUBSET Objs, NEW s, NEW q, NEW z, GroupsOK(os, s, q, z)
  PROVE  /\ Taken(q, z) \in Groups /\ z[Taken(q, z)] < MaxGroupSize
         /\ NoRoom(q, z) => Taken(q, z) = Len(q) + 1 /\ z[Taken(q, z)] = 0
         /\ ~NoRoom(q, z) => Len(q) \in 1..Len(q) /\ Taken(q, z) = q[Len(q)]
  <1>1. /\ IsFiniteSet(os) /\ Cardinality(os) \in Nat /\ Cardinality(os) <= Cardinality(Objs)
        /\ Cardinality(Objs) \in Nat /\ Groups = 1..(Cardinality(Objs) + 1)
        /\ Len(q) \in Nat /\ DOMAIN q = 1..Len(q) /\ \A g \in 1..Len(q) : g \in Groups
        /\ MaxGroupSize \in Nat /\ MaxGroupSize > 0
    BY GroupTypes
  <1>2. /\ q \in Seq(Nat) /\ \A i \in 1..Len(q) : q[i] \in 1..Len(q)
        /\ \A g \in 1..Len(q) : \E i \in 1..Len(q) : q[i] = g
        /\ \A i, j \in 1..Len(q) : i < j /\ z[q[j]] = MaxGroupSize => z[q[i]] = MaxGroupSize
        /\ \A g \in Groups : z[g] \in 0..MaxGroupSize
        /\ \A o \in os : s[o].grp \in 1..Len(q)
        /\ \A g \in Groups : z[g] = Cardinality(Members(os, s, g))
    BY <1>1 DEF GroupsOK, Dealt, Packed
  <1>3. q = <<>> <=> Len(q) = 0
    BY <1>2
  <1>m. Len(q) \in Nat /\ MaxGroupSize \in Nat /\ MaxGroupSize > 0
    BY ONLY <1>1
  <1>4. CASE ~NoRoom(q, z)
    <2>1. q # <<>> /\ ~(z[q[Len(q)]] >= MaxGroupSize) /\ Taken(q, z) = q[Len(q)]
      BY ONLY <1>4 DEF NoRoom, Taken
    <2>2. Len(q) \in 1..Len(q)
      BY ONLY <1>1, <1>3, <2>1
    <2>3. q[Len(q)] \in Groups
      BY ONLY <1>1, <1>2, <2>2
    <2>4. z[q[Len(q)]] < MaxGroupSize
      <3>1. z[q[Len(q)]] \in 0..MaxGroupSize
        BY ONLY <1>2, <2>3
      <3>2. ~(z[q[Len(q)]] >= MaxGroupSize)
        BY ONLY <2>1
      <3> QED BY ONLY <1>m, <3>1, <3>2
    <2> QED BY ONLY <1>4, <2>1, <2>2, <2>3, <2>4
  <1>5. CASE NoRoom(q, z)
    <2>1. Taken(q, z) = Len(q) + 1 /\ (Len(q) = 0 \/ z[q[Len(q)]] >= MaxGroupSize)
      BY ONLY <1>3, <1>5 DEF NoRoom, Taken
    <2>2. ASSUME NEW g \in 1..Len(q)
          PROVE  z[g] = MaxGroupSize
      <3>1. Len(q) \in 1..Len(q)
        BY ONLY <1>1, <2>2
      <3>2. z[q[Len(q)]] \in 0..MaxGroupSize
        BY ONLY <1>1, <1>2, <3>1
      <3>3. z[q[Len(q)]] = MaxGroupSize
        <4>1. Len(q) # 0
          BY ONLY <1>m, <3>1
        <4>2. z[q[Len(q)]] >= MaxGroupSize
          BY ONLY <2>1, <4>1
        <4> QED BY ONLY <1>m, <3>2, <4>2
      <3>4. PICK i \in 1..Len(q) : q[i] = g
        BY ONLY <1>2, <2>2
      <3>5. CASE i = Len(q)
        BY ONLY <3>3, <3>4, <3>5
      <3>6. CASE i # Len(q)
        <4>1. i < Len(q)
          <5>1. i \in 1..Len(q)
            OBVIOUS
          <5> QED BY ONLY <1>m, <3>6, <5>1
        <4> QED BY ONLY <1>2, <3>1, <3>3, <3>4, <4>1
      <3> QED BY ONLY <3>5, <3>6
    <2>3. \A g \in 1..Len(q) : z[g] # 0
      BY ONLY <1>1, <2>2
    <2>4. Len(q) <= Cardinality(os)
      BY <2>3, GroupsUsed
    <2>5. Len(q) + 1 \in Groups
      BY ONLY <1>1, <2>4
    <2>6. Len(q) + 1 \notin 1..Len(q)
      BY ONLY <1>1
    <2>7. Members(os, s, Len(q) + 1) = {}
      BY ONLY <1>2, <2>6 DEF Members
    <2>8. z[Len(q) + 1] = 0
      BY ONLY <1>2, <2>5, <2>7, FS_EmptySet
    <2> QED BY ONLY <1>1, <1>5, <2>1, <2>5, <2>8
  <1> QED BY ONLY <1>4, <1>5

(* The sock_states os keep their groups. *)
SameGroups(os, s2, s) == \A p \in os : s2[p].grp = s[p].grp

(* A sock_state joins group g. *)
LEMMA Joins ==
  ASSUME NEW os \in SUBSET Objs, NEW s, NEW q, NEW z, GroupsOK(os, s, q, z),
         NEW o, o \notin os, NEW s2, NEW g \in Groups, s2[o].grp = g, SameGroups(os, s2, s)
  PROVE  \A h \in Groups : Cardinality(Members(os \cup {o}, s2, h)) = IF h = g THEN z[h] + 1 ELSE z[h]
  <1>1. \A h : IsFiniteSet(Members(os, s, h))
    BY GroupTypes
  <1>2. \A h \in Groups : z[h] = Cardinality(Members(os, s, h))
    BY DEF GroupsOK
  <1>3. ASSUME NEW h \in Groups
        PROVE  Cardinality(Members(os \cup {o}, s2, h)) = IF h = g THEN z[h] + 1 ELSE z[h]
    <2>1. CASE h = g
      <3>1. Members(os \cup {o}, s2, h) = Members(os, s, h) \cup {o} /\ o \notin Members(os, s, h)
        BY <2>1 DEF Members, SameGroups
      <3>2. Cardinality(Members(os, s, h) \cup {o}) = Cardinality(Members(os, s, h)) + 1
        BY ONLY <1>1, <3>1, FS_AddElement
      <3> QED BY ONLY <1>2, <1>3, <2>1, <3>1, <3>2
    <2>2. CASE h # g
      <3>1. Members(os \cup {o}, s2, h) = Members(os, s, h)
        BY <2>2 DEF Members, SameGroups
      <3> QED BY ONLY <1>2, <1>3, <2>2, <3>1
    <2> QED BY ONLY <2>1, <2>2
  <1> QED BY ONLY <1>3

(* Group g of os with fields s has one sock_state less than z says. *)
OneLess(os, s, z, g) ==
    \A h \in Groups : Cardinality(Members(os, s, h)) = IF h = g THEN z[h] - 1 ELSE z[h]

(* A sock_state leaves its group. *)
LEMMA Leaves ==
  ASSUME NEW os \in SUBSET Objs, NEW s, NEW q, NEW z, GroupsOK(os, s, q, z),
         NEW o \in os, NEW s2, SameGroups(os \ {o}, s2, s)
  PROVE  /\ s[o].grp \in Groups /\ z[s[o].grp] > 0
         /\ OneLess(os \ {o}, s2, z, s[o].grp)
  <1>0. s[o].grp \in Groups
    <2>1. s[o].grp \in 1..Len(q) /\ \A g \in 1..Len(q) : g \in Groups
      BY GroupTypes DEF GroupsOK
    <2> QED BY ONLY <2>1
  <1>1. \A h : IsFiniteSet(Members(os, s, h))
    BY GroupTypes
  <1>2. \A h \in Groups : z[h] = Cardinality(Members(os, s, h))
    BY DEF GroupsOK
  <1>3. ASSUME NEW h \in Groups
        PROVE  Cardinality(Members(os \ {o}, s2, h)) = IF h = s[o].grp THEN z[h] - 1 ELSE z[h]
    <2>1. CASE h = s[o].grp
      <3>1. Members(os \ {o}, s2, h) = Members(os, s, h) \ {o} /\ o \in Members(os, s, h)
        BY <2>1 DEF Members, SameGroups
      <3>2. Cardinality(Members(os, s, h) \ {o}) = Cardinality(Members(os, s, h)) - 1
        BY ONLY <1>1, <3>1, FS_RemoveElement
      <3> QED BY ONLY <1>2, <1>3, <2>1, <3>1, <3>2
    <2>2. CASE h # s[o].grp
      <3>1. Members(os \ {o}, s2, h) = Members(os, s, h)
        BY <2>2 DEF Members, SameGroups
      <3> QED BY ONLY <1>2, <1>3, <2>2, <3>1
    <2> QED BY ONLY <2>1, <2>2
  <1>4. z[s[o].grp] > 0
    <2>1. o \in Members(os, s, s[o].grp)
      BY DEF Members
    <2>2. Cardinality(Members(os, s, s[o].grp)) # 0
      BY ONLY <1>1, <2>1, FS_EmptySet
    <2>3. Cardinality(Members(os, s, s[o].grp)) \in Nat
      BY ONLY <1>1, FS_CardinalityType
    <2>4. z[s[o].grp] = Cardinality(Members(os, s, s[o].grp))
      BY ONLY <1>0, <1>2
    <2> QED BY ONLY <2>2, <2>3, <2>4
  <1> QED BY ONLY <1>0, <1>3, <1>4 DEF OneLess

(* poll_group_release() *)
LEMMA Released ==
  ASSUME NEW os \in SUBSET Objs, NEW s, NEW q, NEW z, GroupsOK(os, s, q, z),
         NEW o \in os, NEW s2, SameGroups(os \ {o}, s2, s),
         NEW q2, q2 = Append(Without(q, s[o].grp), s[o].grp),
         NEW z2, z2 = [z EXCEPT ![s[o].grp] = @ - 1]
  PROVE  GroupsOK(os \ {o}, s2, q2, z2)
  <1>1. /\ s[o].grp \in Groups /\ z[s[o].grp] > 0
        /\ OneLess(os \ {o}, s2, z, s[o].grp)
    <2>1. os \in SUBSET Objs /\ GroupsOK(os, s, q, z) /\ o \in os /\ SameGroups(os \ {o}, s2, s)
      OBVIOUS
    <2> QED BY ONLY <2>1, Leaves, Zenon
  <1>2. /\ q \in Seq(Nat) /\ Dealt(q) /\ Packed(q, z) /\ Len(q) <= Cardinality(Objs) + 1
        /\ z \in [Groups -> 0..MaxGroupSize] /\ \A p \in os : s[p].grp \in 1..Len(q)
    BY DEF GroupsOK
  <1>3. Len(q) \in Nat /\ DOMAIN q = 1..Len(q) /\ MaxGroupSize \in Nat /\ \A g \in 1..Len(q) : g \in Groups
    BY GroupTypes
  <1>4. PICK g : g = s[o].grp
    OBVIOUS
  <1>5. g \in 1..Len(q) /\ g \in Groups /\ z[g] > 0 /\ z[g] \in 0..MaxGroupSize
    BY <1>1, <1>2, <1>4
  <1>6. /\ z2 \in [Groups -> 0..MaxGroupSize]
        /\ \A h \in Groups : z2[h] = IF h = g THEN z[h] - 1 ELSE z[h]
        /\ z2[g] # MaxGroupSize
    <2>1. z2 = [z EXCEPT ![g] = z[g] - 1]
      BY <1>4
    <2>2. z[g] - 1 \in 0..MaxGroupSize /\ z[g] - 1 # MaxGroupSize
      BY ONLY <1>3, <1>5
    <2> QED BY ONLY <1>2, <1>5, <2>1, <2>2
  <1>7. PICK k \in 1..Len(q) : q[k] = g
    BY ONLY <1>2, <1>3, <1>5 DEF Dealt
  <1>8. AtEnd(q2, Without(q, q[k]), q[k])
    BY <1>4, <1>7 DEF AtEnd
  <1>9. OnlyAt(q[k], z2, z, Len(q)) /\ z2[q[k]] # MaxGroupSize
    BY ONLY <1>3, <1>6, <1>7 DEF OnlyAt
  <1>10. q2 \in Seq(Nat) /\ Len(q2) = Len(q) /\ Dealt(q2) /\ Packed(q2, z2)
    <2>1. q \in Seq(Nat) /\ Dealt(q) /\ Packed(q, z)
      BY ONLY <1>2
    <2> QED BY ONLY <2>1, <1>7, <1>8, <1>9, ToLast, Zenon
  <1>11. \A p \in os \ {o} : s2[p].grp \in 1..Len(q2)
    BY <1>2, <1>10 DEF SameGroups
  <1>12. \A h \in Groups : z2[h] = Cardinality(Members(os \ {o}, s2, h))
    BY ONLY <1>1, <1>4, <1>6 DEF OneLess
  <1> QED BY ONLY <1>2, <1>6, <1>10, <1>11, <1>12 DEF GroupsOK

(* poll_group_acquire() *)
LEMMA Acquired ==
  ASSUME NEW os \in SUBSET Objs, NEW s, NEW q, NEW z, GroupsOK(os, s, q, z),
         NEW o, o \notin os, NEW s2, NEW g, g = Taken(q, z), s2[o].grp = g, SameGroups(os, s2, s),
         NEW q2, q2 = IF z[g] + 1 = MaxGroupSize THEN <<g>> \o Without(q, g)
                      ELSE IF NoRoom(q, z) THEN Append(q, g) ELSE q,
         NEW z2, z2 = [z EXCEPT ![g] = @ + 1]
  PROVE  GroupsOK(os \cup {o}, s2, q2, z2)
  <1>1. /\ g \in Groups /\ z[g] < MaxGroupSize
        /\ NoRoom(q, z) => g = Len(q) + 1 /\ z[g] = 0
        /\ ~NoRoom(q, z) => Len(q) \in 1..Len(q) /\ g = q[Len(q)]
    BY GroupFound
  <1>2. \A h \in Groups : Cardinality(Members(os \cup {o}, s2, h)) = IF h = g THEN z[h] + 1 ELSE z[h]
    BY <1>1, Joins
  <1>3. /\ q \in Seq(Nat) /\ Dealt(q) /\ Packed(q, z) /\ Len(q) <= Cardinality(Objs) + 1
        /\ z \in [Groups -> 0..MaxGroupSize] /\ \A p \in os : s[p].grp \in 1..Len(q)
    BY DEF GroupsOK
  <1>4. /\ Len(q) \in Nat /\ DOMAIN q = 1..Len(q) /\ MaxGroupSize \in Nat /\ \A h \in 1..Len(q) : h \in Groups
        /\ Groups = 1..(Cardinality(Objs) + 1) /\ Cardinality(Objs) \in Nat
    BY GroupTypes
  <1>5. /\ z2 \in [Groups -> 0..MaxGroupSize]
        /\ \A h \in Groups : z2[h] = IF h = g THEN z[h] + 1 ELSE z[h]
    <2>1. z2 = [z EXCEPT ![g] = z[g] + 1] /\ z[g] \in 0..MaxGroupSize
      BY <1>1, <1>3
    <2>2. z[g] + 1 \in 0..MaxGroupSize
      BY ONLY <1>1, <1>4, <2>1
    <2> QED BY ONLY <1>1, <1>3, <2>1, <2>2
  <1>6. (\A h \in 1..Len(q) : h # g => z2[h] = z[h]) /\ z2[g] = z[g] + 1
    BY ONLY <1>1, <1>4, <1>5
  <1>7. /\ q2 \in Seq(Nat) /\ Dealt(q2) /\ Packed(q2, z2) /\ g \in 1..Len(q2)
        /\ Len(q2) >= Len(q) /\ Len(q2) \in Nat /\ Len(q2) <= Cardinality(Objs) + 1
    <2>1. CASE NoRoom(q, z)
      <3>1. g = Len(q) + 1 /\ \A h \in 1..Len(q) : z2[h] = z[h]
        BY ONLY <1>1, <1>4, <1>6, <2>1
      <3>2. CASE z[g] + 1 = MaxGroupSize
        <4>1. InFront(q2, g, q)
          <5>1. Without(q, g) = q
            BY ONLY <1>3, <3>1, WithoutOff
          <5>2. q2 = <<g>> \o Without(q, g)
            BY <3>2
          <5> QED BY ONLY <5>1, <5>2 DEF InFront
        <4>2. z2[g] = MaxGroupSize
          BY ONLY <1>6, <3>2
        <4>3. q2 \in Seq(Nat) /\ Len(q2) = Len(q) + 1 /\ Dealt(q2) /\ Packed(q2, z2)
          <5>1. q \in Seq(Nat) /\ Dealt(q) /\ Packed(q, z) /\ g = Len(q) + 1 /\ \A h \in 1..Len(q) : z2[h] = z[h]
            BY ONLY <1>3, <3>1
          <5> QED BY ONLY <5>1, <4>1, <4>2, NewFirst
        <4> QED BY ONLY <1>1, <1>4, <3>1, <4>3
      <3>3. CASE z[g] + 1 # MaxGroupSize
        <4>1. AtEnd(q2, q, Len(q) + 1)
          BY <2>1, <3>1, <3>3 DEF AtEnd
        <4>2. z2[Len(q) + 1] # MaxGroupSize
          BY ONLY <1>6, <3>1, <3>3
        <4>3. q2 \in Seq(Nat) /\ Len(q2) = Len(q) + 1 /\ Dealt(q2) /\ Packed(q2, z2)
          <5>1. q \in Seq(Nat) /\ Dealt(q) /\ Packed(q, z) /\ \A h \in 1..Len(q) : z2[h] = z[h]
            BY ONLY <1>3, <3>1
          <5> QED BY ONLY <5>1, <4>1, <4>2, NewLast
        <4> QED BY ONLY <1>1, <1>4, <3>1, <4>3
      <3> QED BY ONLY <3>2, <3>3
    <2>2. CASE ~NoRoom(q, z)
      <3>1. PICK k \in 1..Len(q) : k = Len(q) /\ q[k] = g
        BY ONLY <1>1, <2>2
      <3>2. g \in 1..Len(q)
        BY ONLY <1>3, <1>4, <3>1 DEF Dealt
      <3>3. CASE z[g] + 1 = MaxGroupSize
        <4>1. InFront(q2, g, Without(q, g))
          BY <3>3 DEF InFront
        <4>2. z2[g] = MaxGroupSize
          BY ONLY <1>6, <3>3
        <4>3. q2 \in Seq(Nat) /\ Len(q2) = Len(q) /\ Dealt(q2) /\ Packed(q2, z2)
          BY ONLY <1>3, <1>6, <3>1, <4>1, <4>2, ToFirst
        <4> QED BY ONLY <1>3, <1>4, <3>2, <4>3
      <3>4. CASE z[g] + 1 # MaxGroupSize
        <4>1. q2 = q
          BY <2>2, <3>4
        <4>2. ASSUME NEW i \in 1..Len(q), NEW j \in 1..Len(q), i < j, z2[q[j]] = MaxGroupSize
              PROVE  z2[q[i]] = MaxGroupSize
          <5>1. q[j] # g
            BY ONLY <1>6, <3>4, <4>2
          <5>2. i # k
            <6>1. i \in 1..Len(q) /\ j \in 1..Len(q) /\ i < j /\ Len(q) \in Nat /\ k = Len(q)
              BY ONLY <1>4, <3>1, <4>2
            <6> QED BY ONLY <6>1
          <5>3. q[i] # g /\ q[i] \in 1..Len(q) /\ q[j] \in 1..Len(q)
            BY ONLY <1>3, <1>4, <3>1, <4>2, <5>2 DEF Dealt
          <5>4. z[q[j]] = MaxGroupSize
            BY ONLY <1>6, <4>2, <5>1, <5>3
          <5>5. z[q[i]] = MaxGroupSize
            BY ONLY <1>3, <1>4, <4>2, <5>4 DEF Packed
          <5> QED BY ONLY <1>6, <5>3, <5>5
        <4>3. Packed(q, z2)
          BY ONLY <1>4, <4>2 DEF Packed
        <4> QED BY ONLY <1>3, <1>4, <3>2, <4>1, <4>3
      <3> QED BY ONLY <3>3, <3>4
    <2> QED BY ONLY <2>1, <2>2
  <1>8. \A p \in os \cup {o} : s2[p].grp \in 1..Len(q2)
    <2>1. ASSUME NEW p \in os PROVE s2[p].grp \in 1..Len(q2)
      <3>1. s2[p].grp \in 1..Len(q)
        BY <1>3 DEF SameGroups
      <3> QED BY ONLY <1>4, <1>7, <3>1
    <2>2. s2[o].grp \in 1..Len(q2)
      BY <1>7
    <2> QED BY ONLY <2>1, <2>2
  <1>9. \A h \in Groups : z2[h] = Cardinality(Members(os \cup {o}, s2, h))
    BY ONLY <1>2, <1>5
  <1> QED BY ONLY <1>5, <1>7, <1>8, <1>9 DEF GroupsOK

(* poll_group_acquire() undone by sock_new()'s error path *)
LEMMA Undone ==
  ASSUME NEW os \in SUBSET Objs, NEW s, NEW q, NEW z, GroupsOK(os, s, q, z),
         NEW g, g = Taken(q, z), NEW q2, q2 = Append(Without(q, g), g)
  PROVE  GroupsOK(os, s, q2, z)
  <1>1. /\ g \in Groups /\ z[g] < MaxGroupSize
        /\ NoRoom(q, z) => g = Len(q) + 1 /\ z[g] = 0
        /\ ~NoRoom(q, z) => Len(q) \in 1..Len(q) /\ g = q[Len(q)]
    BY GroupFound
  <1>2. /\ q \in Seq(Nat) /\ Dealt(q) /\ Packed(q, z) /\ Len(q) <= Cardinality(Objs) + 1
        /\ z \in [Groups -> 0..MaxGroupSize] /\ \A p \in os : s[p].grp \in 1..Len(q)
        /\ \A h \in Groups : z[h] = Cardinality(Members(os, s, h))
    BY DEF GroupsOK
  <1>3. /\ Len(q) \in Nat /\ DOMAIN q = 1..Len(q) /\ MaxGroupSize \in Nat /\ z[g] # MaxGroupSize
        /\ Groups = 1..(Cardinality(Objs) + 1) /\ Cardinality(Objs) \in Nat
    <2>1. z[g] \in 0..MaxGroupSize
      BY ONLY <1>1, <1>2
    <2>2. /\ Len(q) \in Nat /\ DOMAIN q = 1..Len(q) /\ MaxGroupSize \in Nat
          /\ Groups = 1..(Cardinality(Objs) + 1) /\ Cardinality(Objs) \in Nat
      BY GroupTypes
    <2>3. z[g] # MaxGroupSize
      BY ONLY <1>1, <2>1, <2>2
    <2> QED BY ONLY <2>2, <2>3
  <1>4. /\ q2 \in Seq(Nat) /\ Dealt(q2) /\ Packed(q2, z)
        /\ Len(q2) >= Len(q) /\ Len(q2) \in Nat /\ Len(q2) <= Cardinality(Objs) + 1
    <2>1. CASE NoRoom(q, z)
      <3>1. g = Len(q) + 1 /\ Without(q, Len(q) + 1) = q
        BY ONLY <1>1, <1>2, <2>1, WithoutOff
      <3>2. AtEnd(q2, q, Len(q) + 1) /\ z[Len(q) + 1] # MaxGroupSize
        BY <1>3, <3>1 DEF AtEnd
      <3>3. \A h \in 1..Len(q) : z[h] = z[h]
        OBVIOUS
      <3>4. q2 \in Seq(Nat) /\ Len(q2) = Len(q) + 1 /\ Dealt(q2) /\ Packed(q2, z)
        BY ONLY <1>2, <3>2, <3>3, NewLast
      <3> QED BY ONLY <1>1, <1>3, <3>1, <3>4
    <2>2. CASE ~NoRoom(q, z)
      <3>1. PICK k \in 1..Len(q) : q[k] = g
        BY ONLY <1>1, <2>2
      <3>2. AtEnd(q2, Without(q, q[k]), q[k]) /\ z[q[k]] # MaxGroupSize
        BY <1>3, <3>1 DEF AtEnd
      <3>3. OnlyAt(q[k], z, z, Len(q)) /\ q \in Seq(Nat) /\ Dealt(q) /\ Packed(q, z)
        BY ONLY <1>2 DEF OnlyAt
      <3>4. q2 \in Seq(Nat) /\ Len(q2) = Len(q) /\ Dealt(q2) /\ Packed(q2, z)
        BY ONLY <3>1, <3>2, <3>3, ToLast, Zenon
      <3> QED BY ONLY <1>2, <1>3, <3>4
    <2> QED BY ONLY <2>1, <2>2
  <1>5. \A p \in os : s[p].grp \in 1..Len(q2)
    BY ONLY <1>2, <1>3, <1>4
  <1> QED BY ONLY <1>2, <1>4, <1>5 DEF GroupsOK
=============================================================================

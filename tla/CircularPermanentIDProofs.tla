--------------------- MODULE CircularPermanentIDProofs ---------------------
(***************************************************************************)
(* The ring of permanent ids keeps its promise, for every word size.       *)
(*                                                                         *)
(* Nothing in the invariant mentions the ids: the id table is a function   *)
(* of the ring, and every push is a push of the table.  The work is in the *)
(* arithmetic of the places: what id % capacity becomes after a step       *)
(* around the ring (ModAdd, Span), which ids share a place (Apart), and    *)
(* what becomes of the places when the capacity doubles (ModDouble,        *)
(* DoublePlace).  All of it comes from the division with remainder, which  *)
(* is derived from the well-foundedness of the naturals (CanDivide).       *)
(***************************************************************************)
EXTENDS CircularPermanentID, FiniteSetTheorems, NaturalsInduction, WellFoundedInduction, TLAPS

----------------------------------------------------------------------------
(* Division *)

\* Quotient and remainder are the only numbers with this property.
LEMMA DivUnique ==
    ASSUME NEW w \in Nat, w >= 1, NEW q \in Nat, NEW r \in Nat, r < w
    PROVE  (w * q + r) % w = r /\ (w * q + r) \div w = q
<1>1. (w * q + r) % w = r
  OBVIOUS
<1>2. (w * q + r) \div w = q
  OBVIOUS
<1> QED
  BY <1>1, <1>2

\* n has a quotient and a remainder.
Divides(n, w) == \E q, r \in Nat : n = w * q + r /\ r < w

\* A nonempty set of naturals has a least element.
LEMMA LeastNat ==
    ASSUME NEW T, T \subseteq Nat, T # {}
    PROVE  \E x \in T : \A y \in T : x <= y
<1> DEFINE R == OpToRel(<, Nat)
<1>1. IsWellFoundedOn(R, Nat)
  BY NatLessThanWellFounded
<1>2. \A x, y \in Nat : <<y, x>> \notin R => x <= y
  BY DEF OpToRel
<1> HIDE DEF R
<1>3. \E x \in T : \A y \in T : ~ (<<y, x>> \in R)
  BY <1>1, WFMin
<1> QED
  BY <1>2, <1>3

\* Every natural number can be divided.
LEMMA CanDivide ==
    ASSUME NEW w \in Nat, w >= 1
    PROVE  \A n \in Nat : Divides(n, w)
<1> DEFINE S == {n \in Nat : ~Divides(n, w)}
<1>1. SUFFICES ASSUME S # {} PROVE FALSE
  OBVIOUS
<1>2. PICK m \in S : \A n \in S : m <= n
  <2>1. S \subseteq Nat
    OBVIOUS
  <2> HIDE DEF S
  <2> QED
    BY <1>1, <2>1, LeastNat
<1>3. Divides(0, w)
  <2>1. 0 = w * 0 + 0
    OBVIOUS
  <2> QED
    BY <2>1 DEF Divides
<1>4. m \in Nat /\ m # 0 /\ m - 1 \in Nat
  BY <1>3
<1>5. Divides(m - 1, w)
  <2>1. m - 1 \notin S
    BY <1>2, <1>4
  <2> QED
    BY <2>1, <1>4
<1>6. PICK q, r \in Nat : m - 1 = w * q + r /\ r < w
  BY <1>5 DEF Divides
<1>7. PICK p \in Nat : p = w * q
  OBVIOUS
<1>8. m = p + r + 1
  BY <1>4, <1>6, <1>7
<1>9. CASE r + 1 < w
  <2>1. m = w * q + (r + 1) /\ r + 1 \in Nat
    BY <1>7, <1>8
  <2>2. Divides(m, w)
    BY <2>1, <1>9 DEF Divides
  <2> QED
    BY <2>2
<1>10. CASE r + 1 = w
  <2>1. w * (q + 1) = p + w
    BY <1>7
  <2>2. m = w * (q + 1) + 0
    BY <2>1, <1>8, <1>10
  <2>3. Divides(m, w)
    <3>1. q + 1 \in Nat /\ 0 < w
      OBVIOUS
    <3> QED
      BY <2>2, <3>1 DEF Divides
  <2> QED
    BY <2>3
<1> QED
  BY <1>6, <1>9, <1>10

\* A number is its quotient times the divisor, and the remainder.
LEMMA DivMod ==
    ASSUME NEW w \in Nat, w >= 1, NEW n \in Nat
    PROVE  n = w * (n \div w) + (n % w) /\ n \div w \in Nat /\ n % w \in Nat /\ n % w < w
<1>1. PICK q, r \in Nat : n = w * q + r /\ r < w
  BY CanDivide DEF Divides
<1>2. n % w = r /\ n \div w = q
  BY <1>1, DivUnique
<1> QED
  BY <1>1, <1>2

\* The same, with the number named.
LEMMA DivIs ==
    ASSUME NEW w \in Nat, w >= 1, NEW n, NEW q \in Nat, NEW r \in Nat, r < w, n = w * q + r
    PROVE  n % w = r
  BY DivUnique

\* The place after d steps around a ring of w places.
LEMMA ModAdd ==
    ASSUME NEW w \in Nat, w >= 1, NEW n \in Nat, NEW d \in Nat, d < w
    PROVE  (n + d) % w = IF (n % w) + d < w THEN (n % w) + d ELSE (n % w) + d - w
<1>1. PICK q, r \in Nat : n = w * q + r /\ r < w /\ r = n % w
  BY DivMod
<1>2. PICK p \in Nat : p = w * q /\ n = p + r
  <2>1. w * q \in Nat
    OBVIOUS
  <2> QED
    BY <1>1, <2>1
<1>3. PICK m \in Nat : m = n + d
  OBVIOUS
<1>4. CASE r + d < w
  <2>1. PICK e \in Nat : e = r + d
    OBVIOUS
  <2>2. m = w * q + e
    <3>1. m = p + e
      BY ONLY <1>2, <1>3, <2>1, n \in Nat, d \in Nat, r \in Nat, p \in Nat
    <3> QED
      BY ONLY <3>1, <1>2
  <2>3. e < w
    BY <2>1, <1>4
  <2>4. m % w = e
    BY ONLY <2>2, <2>3, DivIs, w \in Nat, w >= 1, m \in Nat, e \in Nat, q \in Nat
  <2> QED
    BY <2>1, <2>4, <1>1, <1>3, <1>4
<1>5. CASE ~(r + d < w)
  <2>1. PICK e \in Nat : e = r + d - w
    BY <1>5
  <2>2. PICK t \in Nat : t = q + 1
    OBVIOUS
  <2>3. w * t = p + w
    BY <1>2, <2>2
  <2>4. m = w * t + e
    <3>1. n = p + r
      BY <1>2
    <3>2. m = (p + w) + e
      BY ONLY <3>1, <1>3, <2>1, n \in Nat, d \in Nat, r \in Nat, p \in Nat, w \in Nat
    <3> QED
      BY ONLY <3>2, <2>3
  <2>5. e < w
    BY <2>1, <1>1
  <2>6. m % w = e
    BY ONLY <2>4, <2>5, DivIs, w \in Nat, w >= 1, m \in Nat, e \in Nat, t \in Nat
  <2> QED
    BY <2>1, <2>6, <1>1, <1>3, <1>5
<1> QED
  BY <1>4, <1>5

\* The distance from b to a in a ring of w places.
LEMMA ModSub ==
    ASSUME NEW w \in Nat, w >= 1, NEW a \in 0..(w - 1), NEW b \in 0..(w - 1)
    PROVE  (a - b) % w = IF b <= a THEN a - b ELSE a - b + w
<1>1. CASE b <= a
  <2>1. a - b = w * 0 + (a - b) /\ a - b \in Nat /\ a - b < w
    BY <1>1
  <2>2. (a - b) % w = a - b
    BY <2>1, DivUnique
  <2> QED
    BY <2>2, <1>1
<1>2. CASE ~(b <= a)
  <2>1. PICK e \in Int : e = a - b /\ e < 0 /\ e + w > 0
    BY <1>2
  <2>2. e % w = e + w
    BY <2>1
  <2> QED
    BY <2>1, <2>2, <1>2
<1> QED
  BY <1>1, <1>2

\* The places of a ring and of one twice as large.
LEMMA ModDouble ==
    ASSUME NEW w \in Nat, w >= 1, NEW n \in Nat
    PROVE  n % (2 * w) = IF (n \div w) % 2 = 1 THEN (n % w) + w ELSE n % w
<1>1. PICK q, r \in Nat : n = w * q + r /\ r < w /\ r = n % w /\ q = n \div w
  BY DivMod
<1>2. PICK p, b \in Nat : q = 2 * p + b /\ b < 2 /\ b = q % 2
  <2>1. 2 \in Nat /\ 2 >= 1
    OBVIOUS
  <2> QED
    BY <2>1, DivMod
<1>3. PICK v \in Nat : v = 2 * w /\ v >= 1
  OBVIOUS
<1>4. w * (2 * p) = v * p
  BY <1>3
<1>5. PICK s \in Nat : s = v * p
  OBVIOUS
<1>6. PICK z \in Nat : z = w * q /\ n = z + r
  <2>1. w * q \in Nat
    OBVIOUS
  <2> QED
    BY <1>1, <2>1
<1>7. CASE b = 0
  <2>1. n = v * p + r
    <3>1. q = 2 * p
      BY <1>2, <1>7
    <3>2. w * q = v * p
      BY ONLY <3>1, <1>4
    <3> QED
      BY ONLY <3>2, <1>6
  <2>2. n % v = r
    <3>1. r < v
      BY <1>1, <1>3
    <3> QED
      BY ONLY <2>1, <3>1, <1>3, DivIs, v \in Nat, p \in Nat, r \in Nat, n \in Nat
  <2> QED
    BY <2>2, <1>1, <1>2, <1>3, <1>7
<1>8. CASE b = 1
  <2>1. w * q = v * p + w
    <3>1. w * (2 * p + 1) = w * (2 * p) + w
      OBVIOUS
    <3> QED
      BY <3>1, <1>2, <1>4, <1>8
  <2>2. PICK e \in Nat : e = r + w
    OBVIOUS
  <2>3. n = v * p + e
    <3>1. z = s + w
      BY ONLY <2>1, <1>5, <1>6
    <3>2. n = s + e
      BY ONLY <3>1, <1>6, <2>2, s \in Nat, w \in Nat, r \in Nat, z \in Nat
    <3> QED
      BY ONLY <3>2, <1>5
  <2>4. n % v = e
    <3>1. e < v
      BY <1>1, <1>3, <2>2
    <3> QED
      BY ONLY <2>3, <3>1, <1>3, DivIs, v \in Nat, p \in Nat, e \in Nat, n \in Nat
  <2> QED
    BY <2>2, <2>4, <1>1, <1>2, <1>3, <1>8
<1> QED
  BY <1>2, <1>7, <1>8

\* The distance from the place of n to the place of n + d.
LEMMA Span ==
    ASSUME NEW w \in Nat, w >= 1, NEW n \in Nat, NEW d \in Nat, d < w
    PROVE  (((n + d) % w) - (n % w)) % w = d
<1>1. PICK r \in 0..(w - 1) : r = n % w
  BY DivMod
<1>2. PICK t \in 0..(w - 1) : t = (n + d) % w /\ t = IF r + d < w THEN r + d ELSE r + d - w
  <2>1. (n + d) % w = IF r + d < w THEN r + d ELSE r + d - w
    BY <1>1, ModAdd
  <2>2. (IF r + d < w THEN r + d ELSE r + d - w) \in 0..(w - 1)
    BY ONLY r \in 0..(w - 1), d \in Nat, d < w, w \in Nat
  <2> QED
    BY <2>1, <2>2
<1>3. (t - r) % w = IF r <= t THEN t - r ELSE t - r + w
  BY ModSub
<1>4. (t - r) % w = d
  BY ONLY <1>2, <1>3, r \in 0..(w - 1), t \in 0..(w - 1), w \in Nat, d \in Nat, d < w
<1> QED
  BY <1>1, <1>2, <1>4

\* Numbers that are less than w apart have different places.
LEMMA Apart ==
    ASSUME NEW w \in Nat, w >= 1, NEW n \in Nat, NEW m \in Nat, n < m, m < n + w
    PROVE  n % w # m % w
<1>1. PICK d \in Nat : m = n + d /\ d > 0 /\ d < w
  <2>1. m - n \in Nat
    OBVIOUS
  <2> QED
    BY <2>1
<1>2. PICK r \in 0..(w - 1) : r = n % w
  BY DivMod
<1>3. m % w = IF r + d < w THEN r + d ELSE r + d - w
  BY <1>1, <1>2, ModAdd
<1>4. m % w # r
  BY ONLY <1>1, <1>3, r \in 0..(w - 1), w \in Nat, d \in Nat
<1> QED
  BY <1>2, <1>4

----------------------------------------------------------------------------
(* The table *)

\* The arrays have the capacity the code believes they have, the tail is inside.
IdInv ==
    /\ m_cap \in Nat /\ m_cap >= 2
    /\ m_tail \in 0..(m_cap - 1) /\ m_min_id \in Nat
    /\ m_objects = [i \in 0..(m_cap - 1) |-> m_objects[i]]
    /\ m_dropped \in [0..(m_cap - 1) -> BOOLEAN]

\* The table that the array stands for.
Entries == [id \in Used |-> m_objects[id % m_cap]]

\* The ids in use are below max_id, less than the capacity apart; the tail is where max_id goes.
LEMMA IdRange ==
    ASSUME IdInv
    PROVE  /\ head \in 0..(m_cap - 1) /\ VirtTail \in 0..(m_cap - 1)
           /\ VirtTail = IF head <= m_tail THEN m_tail - head ELSE m_tail - head + m_cap
           /\ max_id \in Nat /\ m_min_id <= max_id /\ max_id < m_min_id + m_cap
           /\ max_id % m_cap = m_tail
<1>1. m_cap \in Nat /\ m_cap >= 1 /\ m_tail \in 0..(m_cap - 1) /\ m_min_id \in Nat
  BY DEF IdInv
<1>2. head \in 0..(m_cap - 1)
  BY <1>1, DivMod DEF head
<1>3. VirtTail = IF head <= m_tail THEN m_tail - head ELSE m_tail - head + m_cap
  BY <1>1, <1>2, ModSub DEF VirtTail
<1>4. VirtTail \in 0..(m_cap - 1)
  BY ONLY <1>1, <1>2, <1>3
<1>5. max_id \in Nat /\ m_min_id <= max_id /\ max_id < m_min_id + m_cap
  BY ONLY <1>1, <1>4 DEF max_id
<1>6. max_id % m_cap = IF head + VirtTail < m_cap THEN head + VirtTail ELSE head + VirtTail - m_cap
  <2>1. VirtTail \in Nat /\ VirtTail < m_cap
    BY <1>1, <1>4
  <2> QED
    BY <1>1, <2>1, ModAdd DEF max_id, head
<1>7. max_id % m_cap = m_tail
  BY ONLY <1>1, <1>2, <1>3, <1>6
<1> QED
  BY <1>2, <1>3, <1>4, <1>5, <1>7

\* What push needs of the arrays it writes to: the ids from min on are where they belong, with
\* their bits, there is room for one more, and t is its place.
Ready(objects, dropped, cap, min, t) ==
    /\ cap \in Nat /\ cap >= 2 /\ min \in Nat /\ t \in 0..(cap - 1)
    /\ objects = [i \in 0..(cap - 1) |-> objects[i]]
    /\ dropped \in [0..(cap - 1) -> BOOLEAN]
    /\ m_min_id <= min /\ min <= max_id /\ max_id + 1 < min + cap
    /\ max_id % cap = t
    /\ \A id \in m_min_id..(max_id - 1) : id < min => m_dropped[id % m_cap]
    /\ \A id \in min..(max_id - 1) :
            dropped[id % cap] = m_dropped[id % m_cap] /\ objects[id % cap] = m_objects[id % m_cap]

\* A push into arrays that are ready gives out the next id.
LEMMA PushNext ==
    ASSUME IdInv, NEW x, NEW objects, NEW dropped, NEW cap, NEW min, NEW t, NEW v,
           Ready(objects, dropped, cap, min, t), DoPush(x, objects, dropped, cap, min, t, v)
    PROVE  /\ IdInv'
           /\ max_id' = max_id + 1
           /\ Entries' = [id \in Used \cup {max_id} |-> IF id = max_id THEN x ELSE Entries[id]]
<1>1. /\ cap \in Nat /\ cap >= 1 /\ cap >= 2 /\ min \in Nat /\ t \in 0..(cap - 1)
      /\ m_min_id <= min /\ min <= max_id /\ max_id + 1 < min + cap
      /\ max_id % cap = t
  BY DEF Ready
<1>2. /\ m_min_id \in Nat /\ m_cap \in Nat /\ m_cap >= 1 /\ max_id \in Nat
  BY IdRange DEF IdInv
<1>3. /\ m_cap' = cap /\ m_min_id' = min /\ m_tail' = (t + 1) % cap
      /\ m_objects' = [objects EXCEPT ![t] = x] /\ m_dropped' = [dropped EXCEPT ![t] = FALSE]
  BY DEF DoPush
<1>4. m_tail' = (max_id + 1) % cap /\ (max_id + 1) % cap \in 0..(cap - 1)
  <2>1. max_id + 1 \in Nat
    BY <1>2
  <2>2. (max_id + 1) % cap \in 0..(cap - 1)
    BY <1>1, <2>1, DivMod
  <2>3. 1 \in Nat /\ 1 < cap
    BY <1>1, <1>2
  <2>4. (max_id + 1) % cap = IF t + 1 < cap THEN t + 1 ELSE t + 1 - cap
    BY <1>1, <1>2, <2>3, ModAdd
  <2>5. t \in Nat /\ t % cap = t
    <3>1. t = cap * 0 + t /\ t \in Nat /\ t < cap
      BY <1>1
    <3> QED
      BY <3>1, <1>1, DivIs
  <2>6. (t + 1) % cap = IF (t % cap) + 1 < cap THEN (t % cap) + 1 ELSE (t % cap) + 1 - cap
    BY ONLY <2>3, <2>5, <1>1, ModAdd
  <2>7. (t + 1) % cap = (max_id + 1) % cap
    BY ONLY <2>4, <2>5, <2>6
  <2> QED
    BY <2>2, <2>7, <1>3
<1>5. max_id' = max_id + 1
  <2>1. PICK d \in Nat : max_id + 1 = min + d /\ d < cap
    <3>1. max_id + 1 - min \in Nat
      BY <1>1, <1>2
    <3> QED
      BY <3>1, <1>1, <1>2
  <2>2. (((max_id + 1) % cap) - (min % cap)) % cap = d
    BY <1>1, <2>1, Span
  <2>3. max_id' = min + ((((max_id + 1) % cap) - (min % cap)) % cap)
    BY <1>3, <1>4 DEF max_id, VirtTail, head
  <2> QED
    BY <2>1, <2>2, <2>3
<1>6. IdInv'
  <2>1. m_objects' = [i \in 0..(cap - 1) |-> m_objects'[i]]
    BY <1>3 DEF Ready
  <2>2. m_dropped' \in [0..(cap - 1) -> BOOLEAN]
    BY <1>3 DEF Ready
  <2> QED
    BY <2>1, <2>2, <1>1, <1>3, <1>4 DEF IdInv
<1>7. /\ \A id \in min..(max_id - 1) : id % cap # t /\ id % cap \in 0..(cap - 1)
      /\ \A id \in min..(max_id - 1) :
            m_dropped'[id % cap] = m_dropped[id % m_cap] /\ m_objects'[id % cap] = m_objects[id % m_cap]
      /\ m_dropped'[t] = FALSE /\ m_objects'[t] = x
  <2>1. ASSUME NEW id \in min..(max_id - 1)
        PROVE  id % cap # t /\ id % cap \in 0..(cap - 1)
    <3>1. id \in Nat /\ id < max_id /\ max_id < id + cap
      BY <1>1, <1>2
    <3>2. id % cap # t
      BY <3>1, <1>1, <1>2, Apart
    <3>3. id % cap \in 0..(cap - 1)
      BY <3>1, <1>1, DivMod
    <3> QED
      BY <3>2, <3>3
  <2>2. ASSUME NEW id \in min..(max_id - 1)
        PROVE  m_dropped'[id % cap] = m_dropped[id % m_cap] /\ m_objects'[id % cap] = m_objects[id % m_cap]
    <3>1. dropped[id % cap] = m_dropped[id % m_cap] /\ objects[id % cap] = m_objects[id % m_cap]
      BY DEF Ready
    <3>2. m_dropped'[id % cap] = dropped[id % cap] /\ m_objects'[id % cap] = objects[id % cap]
      BY <2>1, <1>3 DEF Ready
    <3> QED
      BY <3>1, <3>2
  <2>3. m_dropped'[t] = FALSE /\ m_objects'[t] = x
    BY <1>1, <1>3 DEF Ready
  <2> QED
    BY <2>1, <2>2, <2>3
<1>8. Used' = Used \cup {max_id}
  <2>1. Used' = {id \in min..max_id : ~m_dropped'[id % cap]}
    <3>1. max_id' - 1 = max_id
      BY <1>2, <1>5
    <3> QED
      BY <3>1, <1>3 DEF Used
  <2>2. Used = {id \in m_min_id..(max_id - 1) : ~m_dropped[id % m_cap]}
    BY DEF Used
  <2>3. ASSUME NEW id \in Used' PROVE id \in Used \cup {max_id}
    <3>1. id \in min..max_id /\ ~m_dropped'[id % cap]
      BY <2>1
    <3>2. CASE id \in min..(max_id - 1)
      <4>1. id \in m_min_id..(max_id - 1)
        BY <3>2, <1>1, <1>2
      <4> QED
        BY <4>1, <3>1, <3>2, <1>7, <2>2
    <3>3. id = max_id \/ id \in min..(max_id - 1)
      BY <3>1, <1>1, <1>2
    <3> QED
      BY <3>2, <3>3
  <2>4. ASSUME NEW id \in Used PROVE id \in Used'
    <3>1. id \in m_min_id..(max_id - 1) /\ ~m_dropped[id % m_cap]
      BY <2>2
    <3>2. ~(id < min)
      BY <3>1 DEF Ready
    <3>3. id \in min..(max_id - 1) /\ id \in min..max_id
      BY <3>1, <3>2, <1>1, <1>2
    <3> QED
      BY <3>1, <3>3, <1>7, <2>1
  <2>5. max_id \in Used'
    <3>1. max_id \in min..max_id
      BY <1>1, <1>2
    <3> QED
      BY <3>1, <1>1, <1>7, <2>1
  <2> QED
    BY <2>3, <2>4, <2>5
<1>9. ASSUME NEW id \in Used
      PROVE  id # max_id /\ m_objects'[id % cap] = m_objects[id % m_cap]
  <2>1. id \in m_min_id..(max_id - 1) /\ ~m_dropped[id % m_cap]
    BY DEF Used
  <2>2. ~(id < min)
    BY <2>1 DEF Ready
  <2>3. id \in min..(max_id - 1) /\ id # max_id
    BY <2>1, <2>2, <1>1, <1>2
  <2> QED
    BY <2>3, <1>7
<1>10. Entries' = [id \in Used \cup {max_id} |-> m_objects'[id % cap]]
  BY <1>3, <1>8 DEF Entries
<1>11. \A id \in Used \cup {max_id} : m_objects'[id % cap] = IF id = max_id THEN x ELSE Entries[id]
  BY <1>1, <1>7, <1>9 DEF Entries
<1> QED
  BY <1>5, <1>6, <1>10, <1>11

\* The place of an id in arrays of twice the capacity: with its bit, it moves up.
LEMMA DoublePlace ==
    ASSUME IdInv, NEW id \in m_min_id..(m_min_id + m_cap - 1)
    PROVE  /\ id % (2 * m_cap) = IF (NewBit <=> head <= id % m_cap) THEN (id % m_cap) + m_cap ELSE id % m_cap
           /\ id % m_cap = IF head + (id - m_min_id) < m_cap THEN head + (id - m_min_id)
                           ELSE head + (id - m_min_id) - m_cap
           /\ id % m_cap \in 0..(m_cap - 1)
<1>1. PICK c \in Nat : c = m_cap /\ c >= 1
  BY DEF IdInv
<1>2. PICK n \in Nat : n = m_min_id
  BY DEF IdInv
<1>3. PICK d \in Nat : id = n + d /\ d < c /\ id \in Nat
  <2>1. id - n \in Nat
    BY <1>1, <1>2
  <2> QED
    BY <1>1, <1>2, <2>1
<1>4. PICK q, r \in Nat : n = c * q + r /\ r < c /\ r = n % c /\ q = n \div c
  BY <1>1, DivMod
<1>5. id % c = IF r + d < c THEN r + d ELSE r + d - c
  <2>1. d < c /\ c >= 1
    BY <1>1, <1>3
  <2>2. (n + d) % c = IF (n % c) + d < c THEN (n % c) + d ELSE (n % c) + d - c
    BY ONLY <2>1, ModAdd, n \in Nat, d \in Nat, c \in Nat
  <2> QED
    BY ONLY <2>2, <1>3, <1>4
<1>6. PICK p \in 0..(c - 1) : p = id % c /\ p = IF r + d < c THEN r + d ELSE r + d - c
  <2>1. (IF r + d < c THEN r + d ELSE r + d - c) \in 0..(c - 1)
    BY ONLY <1>3, <1>4, r \in Nat, d \in Nat, c \in Nat
  <2> QED
    BY <1>5, <2>1
<1>7. (r <= p) <=> (r + d < c)
  <2>1. r < c /\ d < c /\ p = IF r + d < c THEN r + d ELSE r + d - c
    BY <1>3, <1>4, <1>6
  <2> QED
    BY ONLY <2>1, r \in Nat, d \in Nat, c \in Nat
<1>8. id \div c = IF r + d < c THEN q ELSE q + 1
  <2>1. PICK s \in Nat : s = c * q /\ n = s + r
    <3>1. c * q \in Nat
      OBVIOUS
    <3> QED
      BY <1>4, <3>1
  <2>2. CASE r + d < c
    <3>1. PICK e \in Nat : e = r + d
      OBVIOUS
    <3>2. id = s + e
      BY ONLY <2>1, <3>1, <1>3, s \in Nat, r \in Nat, d \in Nat
    <3>3. id = c * q + e /\ e < c
      BY <3>1, <3>2, <2>1, <2>2
    <3>4. id \div c = q
      BY ONLY <3>3, DivUnique, c \in Nat, <1>1, q \in Nat, e \in Nat
    <3> QED
      BY <3>4, <2>2
  <2>3. CASE ~(r + d < c)
    <3>1. PICK e \in Nat : e = r + d - c
      BY <2>3
    <3>2. PICK t \in Nat : t = q + 1
      OBVIOUS
    <3>3. c * t = s + c
      BY <2>1, <3>2
    <3>4. id = (s + c) + e
      <4>1. n = s + r
        BY <2>1
      <4> QED
        BY ONLY <4>1, <3>1, <1>3, s \in Nat, r \in Nat, d \in Nat, c \in Nat
    <3>5. id = c * t + e /\ e < c
      <4>1. e < c
        BY <3>1, <1>3, <1>4
      <4> QED
        BY ONLY <4>1, <3>3, <3>4
    <3>6. id \div c = t
      BY ONLY <3>5, DivUnique, c \in Nat, <1>1, t \in Nat, e \in Nat
    <3> QED
      BY <3>6, <3>2, <2>3
  <2> QED
    BY <2>2, <2>3
<1>9. id % (2 * c) = IF (id \div c) % 2 = 1 THEN p + c ELSE p
  <2>1. id \in Nat /\ c >= 1
    BY <1>1, <1>3
  <2>2. id % (2 * c) = IF (id \div c) % 2 = 1 THEN (id % c) + c ELSE id % c
    BY ONLY <2>1, ModDouble, c \in Nat
  <2> QED
    BY ONLY <2>2, <1>6
<1>10. ((id \div c) % 2 = 1) <=> ((q % 2 = 1) <=> (r <= p))
  BY ONLY <1>7, <1>8, q \in Nat
<1>11. (NewBit <=> q % 2 = 1) /\ head = r
  BY <1>1, <1>2, <1>4 DEF NewBit, head
<1> QED
  BY <1>1, <1>2, <1>3, <1>6, <1>9, <1>10, <1>11

\* What a growing array holds.
LEMMA MoveUpHolds ==
    ASSUME NEW f, NEW a, NEW b, NEW g, m_cap \in Nat
    PROVE  /\ MoveUp(f, a, b, g) = [i \in 0..(2 * m_cap - 1) |-> MoveUp(f, a, b, g)[i]]
           /\ \A p \in 0..(m_cap - 1) : /\ MoveUp(f, a, b, g)[p] = f[p]
                                        /\ p \in a..b => MoveUp(f, a, b, g)[p + m_cap] = f[p]
<1>1. MoveUp(f, a, b, g) = [i \in 0..(2 * m_cap - 1) |-> MoveUp(f, a, b, g)[i]]
  BY DEF MoveUp
<1>2. ASSUME NEW p \in 0..(m_cap - 1)
      PROVE  MoveUp(f, a, b, g)[p] = f[p] /\ (p \in a..b => MoveUp(f, a, b, g)[p + m_cap] = f[p])
  <2>1. /\ p \in 0..(2 * m_cap - 1) /\ p + m_cap \in 0..(2 * m_cap - 1) /\ (p + m_cap) - m_cap = p
        /\ p < m_cap /\ ~(p + m_cap < m_cap)
    OBVIOUS
  <2> QED
    BY <2>1 DEF MoveUp
<1> QED
  BY <1>1, <1>2

\* The bits stay bits.
LEMMA MoveUpBits ==
    ASSUME IdInv, NEW a, NEW b, NEW g \in BOOLEAN
    PROVE  MoveUp(m_dropped, a, b, g) \in [0..(2 * m_cap - 1) -> BOOLEAN]
<1>1. ASSUME NEW i \in 0..(2 * m_cap - 1) PROVE MoveUp(m_dropped, a, b, g)[i] \in BOOLEAN
  <2>1. i < m_cap => i \in 0..(m_cap - 1)
    BY DEF IdInv
  <2>2. ~(i < m_cap) => i - m_cap \in 0..(m_cap - 1)
    BY DEF IdInv
  <2> QED
    BY <2>1, <2>2 DEF MoveUp, IdInv
<1> QED
  BY <1>1 DEF MoveUp

\* A full table that has doubled is ready: all places whose ids have the new bit were moved.
LEMMA GrowReady ==
    ASSUME IdInv, IsFull, NEW a, NEW b, NEW u, NEW v, NEW g \in BOOLEAN, NEW t,
           t = IF (NewBit <=> head <= m_tail) THEN m_tail + m_cap ELSE m_tail,
           \A p \in 0..(m_cap - 1) : p # m_tail /\ (NewBit <=> head <= p) => p \in a..b /\ p \in u..v
    PROVE  Ready(MoveUp(m_objects, a, b, Garbage), MoveUp(m_dropped, u, v, g), 2 * m_cap, m_min_id, t)
<1> DEFINE O == MoveUp(m_objects, a, b, Garbage)
           D == MoveUp(m_dropped, u, v, g)
<1>1. m_cap \in Nat /\ m_cap >= 2 /\ m_min_id \in Nat /\ m_tail \in 0..(m_cap - 1)
  BY DEF IdInv
<1>2. max_id = m_min_id + m_cap - 1 /\ max_id \in Nat /\ max_id % m_cap = m_tail
  BY <1>1, IdRange DEF IsFull, max_id
<1>3. 2 * m_cap \in Nat /\ 2 * m_cap >= 2 /\ t \in 0..(2 * m_cap - 1)
  BY <1>1
<1>4. m_min_id <= max_id /\ max_id + 1 < m_min_id + 2 * m_cap
  BY <1>1, <1>2
<1>5. max_id % (2 * m_cap) = t
  <2>1. max_id \in m_min_id..(m_min_id + m_cap - 1)
    BY <1>1, <1>2
  <2>2. max_id % (2 * m_cap) = IF (NewBit <=> head <= max_id % m_cap) THEN (max_id % m_cap) + m_cap ELSE max_id % m_cap
    BY <2>1, DoublePlace
  <2> QED
    BY ONLY <2>2, <1>2, t = IF (NewBit <=> head <= m_tail) THEN m_tail + m_cap ELSE m_tail
<1>6. O = [i \in 0..(2 * m_cap - 1) |-> O[i]] /\ D \in [0..(2 * m_cap - 1) -> BOOLEAN]
  BY <1>1, MoveUpHolds, MoveUpBits
<1>7. ASSUME NEW id \in m_min_id..(max_id - 1)
      PROVE  D[id % (2 * m_cap)] = m_dropped[id % m_cap] /\ O[id % (2 * m_cap)] = m_objects[id % m_cap]
  <2>1. id \in m_min_id..(m_min_id + m_cap - 1) /\ id \in Nat /\ id < max_id /\ max_id < id + m_cap
    BY <1>1, <1>2
  <2>2. PICK p \in 0..(m_cap - 1) : p = id % m_cap
    BY <2>1, DoublePlace
  <2>3. id % (2 * m_cap) = IF (NewBit <=> head <= p) THEN p + m_cap ELSE p
    BY <2>1, <2>2, DoublePlace
  <2>4. p # m_tail
    <3>1. m_cap >= 1 /\ m_cap \in Nat /\ max_id \in Nat
      BY <1>1, <1>2
    <3>2. id % m_cap # max_id % m_cap
      BY ONLY <3>1, <2>1, Apart
    <3> QED
      BY <3>2, <2>2, <1>2
  <2>5. /\ O[p] = m_objects[p] /\ D[p] = m_dropped[p]
        /\ (NewBit <=> head <= p) => O[p + m_cap] = m_objects[p] /\ D[p + m_cap] = m_dropped[p]
    <3>1. (NewBit <=> head <= p) => p \in a..b /\ p \in u..v
      BY <2>4
    <3>2. O[p] = m_objects[p] /\ (p \in a..b => O[p + m_cap] = m_objects[p])
      BY <1>1, MoveUpHolds
    <3>3. D[p] = m_dropped[p] /\ (p \in u..v => D[p + m_cap] = m_dropped[p])
      BY <1>1, MoveUpHolds
    <3> HIDE DEF O, D
    <3> QED
      BY ONLY <3>1, <3>2, <3>3
  <2> HIDE DEF O, D
  <2> QED
    BY <2>2, <2>3, <2>5
<1>8. \A id \in m_min_id..(max_id - 1) : ~(id < m_min_id)
  BY <1>1
<1> HIDE DEF O, D
<1>9. Ready(O, D, 2 * m_cap, m_min_id, t)
  <2> DEFINE C == 2 * m_cap
  <2>1. C \in Nat /\ C >= 2 /\ t \in 0..(C - 1) /\ m_min_id <= max_id /\ max_id + 1 < m_min_id + C
    BY <1>3, <1>4
  <2>2. max_id % C = t /\ O = [i \in 0..(C - 1) |-> O[i]] /\ D \in [0..(C - 1) -> BOOLEAN]
    BY <1>5, <1>6
  <2>3. \A id \in m_min_id..(max_id - 1) : D[id % C] = m_dropped[id % m_cap] /\ O[id % C] = m_objects[id % m_cap]
    BY <1>7
  <2> HIDE DEF C
  <2>4. m_min_id <= m_min_id /\ m_min_id \in Nat
    BY <1>1
  <2>5. Ready(O, D, C, m_min_id, t)
    BY ONLY <2>1, <2>2, <2>3, <2>4, <1>8 DEF Ready
  <2> QED
    BY <2>5 DEF C
<1> QED
  BY <1>9 DEF O, D

\* What a push does, seen from outside.
Pushed(x) ==
    /\ IdInv'
    /\ max_id' = max_id + 1
    /\ Entries' = [id \in Used \cup {max_id} |-> IF id = max_id THEN x ELSE Entries[id]]

\* PushNext for a push that has found its arrays.
LEMMA PushReady ==
    ASSUME IdInv, NEW x, NEW objects, NEW dropped, NEW cap, NEW min, NEW t, NEW v,
           Ready(objects, dropped, cap, min, t), DoPush(x, objects, dropped, cap, min, t, v)
    PROVE  Pushed(x)
  BY PushNext DEF Pushed

\* There is room.
LEMMA RoomPushed ==
    ASSUME IdInv, NEW x, PushRoom(x)
    PROVE  Pushed(x)
<1>1. m_cap \in Nat /\ m_cap >= 2 /\ m_min_id \in Nat
  BY DEF IdInv
<1>2. max_id \in Nat /\ m_min_id <= max_id /\ max_id + 1 < m_min_id + m_cap /\ max_id % m_cap = m_tail
  BY <1>1, IdRange DEF PushRoom, IsFull, max_id
<1>3. Ready(m_objects, m_dropped, m_cap, m_min_id, m_tail)
  BY <1>1, <1>2 DEF IdInv, Ready
<1> QED
  BY <1>3, PushReady DEF PushRoom

\* The first id is a dropped one, and makes room.
LEMMA ReusePushed ==
    ASSUME IdInv, NEW x, PushReuse(x)
    PROVE  Pushed(x)
<1>1. m_cap \in Nat /\ m_cap >= 2 /\ m_min_id \in Nat
  BY DEF IdInv
<1>2. max_id = m_min_id + m_cap - 1 /\ max_id \in Nat /\ max_id % m_cap = m_tail
  BY <1>1, IdRange DEF PushReuse, IsFull, max_id
<1>3. m_dropped[m_min_id % m_cap]
  BY DEF PushReuse, head
<1>4. PICK n \in Nat : n = m_min_id + 1
  BY <1>1
<1>5. m_min_id <= n /\ n <= max_id /\ max_id + 1 < n + m_cap
  BY <1>1, <1>2, <1>4
<1>6. \A id \in m_min_id..(max_id - 1) : id < n => id = m_min_id
  BY <1>1, <1>4
<1>7. Ready(m_objects, m_dropped, m_cap, n, m_tail)
  BY <1>1, <1>2, <1>3, <1>5, <1>6 DEF IdInv, Ready
<1> QED
  BY <1>4, <1>7, PushReady DEF PushReuse

\* Whole words are moved: at least the places asked for.
LEMMA Words ==
    ASSUME NEW i \in Nat
    PROVE  WordFloor(i) \in Int /\ WordFloor(i) <= i /\ WordCeil(i) \in Int /\ i <= WordCeil(i)
<1>1. Word \in Nat /\ Word >= 1
  BY PermanentIDAssumption
<1>2. i % Word \in Nat
  BY <1>1, DivMod
<1>3. (i + Word - 1) % Word \in Nat /\ (i + Word - 1) % Word < Word
  <2>1. i + Word - 1 \in Nat
    BY <1>1
  <2> QED
    BY <1>1, <2>1, DivMod
<1> QED
  BY <1>1, <1>2, <1>3 DEF WordFloor, WordCeil

\* The ring wraps around, and doubles.
LEMMA GrowPushed ==
    ASSUME IdInv, NEW x, PushGrow(x)
    PROVE  Pushed(x)
<1>1. m_cap \in Nat /\ m_cap >= 2 /\ m_tail \in 0..(m_cap - 1) /\ head \in 0..(m_cap - 1) /\ IsFull
  BY IdRange DEF IdInv, PushGrow
<1>2. m_tail = head - 1
  BY <1>1, IdRange DEF PushGrow, IsFull
<1>3. /\ WordFloor(head) \in Int /\ WordFloor(head) <= head
      /\ WordCeil(m_tail) \in Int /\ m_tail <= WordCeil(m_tail)
  BY <1>1, Words
<1>4. PICK g \in BOOLEAN :
          \/ /\ NewBit
             /\ DoPush(x, MoveUp(m_objects, head, m_cap - 1, Garbage),
                          MoveUp(m_dropped, WordFloor(head), m_cap - 1, g),
                       2 * m_cap, m_min_id, m_tail, (m_tail - (head + m_cap)) % (2 * m_cap))
          \/ /\ ~NewBit
             /\ DoPush(x, MoveUp(m_objects, 0, m_tail - 1, Garbage),
                          MoveUp(m_dropped, 0, WordCeil(m_tail) - 1, g),
                       2 * m_cap, m_min_id, m_tail + m_cap, m_tail + m_cap - head)
  BY DEF PushGrow
<1>5. ~(head <= m_tail)
  BY <1>1, <1>2
<1>6. CASE NewBit
  <2>1. \A p \in 0..(m_cap - 1) : p # m_tail /\ (NewBit <=> head <= p)
            => p \in head..(m_cap - 1) /\ p \in WordFloor(head)..(m_cap - 1)
    BY ONLY <1>1, <1>3, <1>6
  <2>2. m_tail = IF (NewBit <=> head <= m_tail) THEN m_tail + m_cap ELSE m_tail
    BY <1>5, <1>6
  <2>3. Ready(MoveUp(m_objects, head, m_cap - 1, Garbage), MoveUp(m_dropped, WordFloor(head), m_cap - 1, g),
              2 * m_cap, m_min_id, m_tail)
    BY ONLY IdInv, <1>1, <2>1, <2>2, g \in BOOLEAN, GrowReady
  <2> QED
    BY <1>4, <1>6, <2>3, PushReady
<1>7. CASE ~NewBit
  <2>1. \A p \in 0..(m_cap - 1) : p # m_tail /\ (NewBit <=> head <= p)
            => p \in 0..(m_tail - 1) /\ p \in 0..(WordCeil(m_tail) - 1)
    BY ONLY <1>1, <1>2, <1>3, <1>7
  <2>2. m_tail + m_cap = IF (NewBit <=> head <= m_tail) THEN m_tail + m_cap ELSE m_tail
    BY <1>5, <1>7
  <2>3. Ready(MoveUp(m_objects, 0, m_tail - 1, Garbage), MoveUp(m_dropped, 0, WordCeil(m_tail) - 1, g),
              2 * m_cap, m_min_id, m_tail + m_cap)
    BY ONLY IdInv, <1>1, <2>1, <2>2, g \in BOOLEAN, GrowReady
  <2> QED
    BY <1>4, <1>7, <2>3, PushReady
<1> QED
  BY <1>6, <1>7

\* The ring starts at index 0, and doubles.
LEMMA GrowAlignedPushed ==
    ASSUME IdInv, NEW x, PushGrowAligned(x)
    PROVE  Pushed(x)
<1>1. m_cap \in Nat /\ m_cap >= 2 /\ m_tail \in 0..(m_cap - 1) /\ head \in 0..(m_cap - 1) /\ IsFull
  BY IdRange DEF IdInv, PushGrowAligned
<1>2. head = 0 /\ m_tail = m_cap - 1
  BY <1>1, IdRange DEF PushGrowAligned, IsFull
<1>3. PICK g \in BOOLEAN :
          \/ /\ NewBit
             /\ DoPush(x, MoveUp(m_objects, 0, m_cap - 2, Garbage), MoveUp(m_dropped, 0, m_cap - 1, g),
                       2 * m_cap, m_min_id, m_tail + m_cap, m_tail + m_cap)
          \/ /\ ~NewBit
             /\ DoPush(x, MoveUp(m_objects, 1, 0, Garbage), MoveUp(m_dropped, 1, 0, g),
                       2 * m_cap, m_min_id, m_tail, VirtTail)
  BY DEF PushGrowAligned
<1>4. head <= m_tail
  BY <1>1, <1>2
<1>5. CASE NewBit
  <2>1. \A p \in 0..(m_cap - 1) : p # m_tail /\ (NewBit <=> head <= p)
            => p \in 0..(m_cap - 2) /\ p \in 0..(m_cap - 1)
    BY ONLY <1>1, <1>2
  <2>2. m_tail + m_cap = IF (NewBit <=> head <= m_tail) THEN m_tail + m_cap ELSE m_tail
    BY <1>4, <1>5
  <2>3. Ready(MoveUp(m_objects, 0, m_cap - 2, Garbage), MoveUp(m_dropped, 0, m_cap - 1, g),
              2 * m_cap, m_min_id, m_tail + m_cap)
    BY ONLY IdInv, <1>1, <2>1, <2>2, g \in BOOLEAN, GrowReady
  <2> QED
    BY <1>3, <1>5, <2>3, PushReady
<1>6. CASE ~NewBit
  <2>1. \A p \in 0..(m_cap - 1) : p # m_tail /\ (NewBit <=> head <= p) => p \in 1..0 /\ p \in 1..0
    BY ONLY <1>1, <1>2, <1>6
  <2>2. m_tail = IF (NewBit <=> head <= m_tail) THEN m_tail + m_cap ELSE m_tail
    BY <1>4, <1>6
  <2>3. Ready(MoveUp(m_objects, 1, 0, Garbage), MoveUp(m_dropped, 1, 0, g), 2 * m_cap, m_min_id, m_tail)
    BY ONLY IdInv, <1>1, <2>1, <2>2, g \in BOOLEAN, GrowReady
  <2> QED
    BY <1>3, <1>6, <2>3, PushReady
<1> QED
  BY <1>5, <1>6

\* Every push gives out the next id.
LEMMA PushPushed ==
    ASSUME IdInv, NEW x, push(x)
    PROVE  Pushed(x)
  BY RoomPushed, ReusePushed, GrowPushed, GrowAlignedPushed DEF push

\* What a drop does, seen from outside.
Dropped(id) ==
    /\ IdInv'
    /\ max_id' = max_id
    /\ Entries' = [i \in Used \ {id} |-> Entries[i]]

\* The first id goes: the ring begins at the next one.
LEMMA FirstDropped ==
    ASSUME IdInv, NEW id \in Used, id = m_min_id, drop(id)
    PROVE  Dropped(id)
<1>1. m_cap \in Nat /\ m_cap >= 2 /\ m_min_id \in Nat /\ max_id \in Nat /\ max_id < m_min_id + m_cap
  BY IdRange DEF IdInv
<1>2. m_min_id < max_id
  <2>1. id \in m_min_id..(max_id - 1)
    BY DEF Used
  <2> QED
    BY <2>1, <1>1
<1>3. m_min_id' = m_min_id + 1 /\ UNCHANGED <<m_objects, m_dropped, m_cap, m_tail>>
  BY DEF drop
<1>4. IdInv'
  BY <1>1, <1>3 DEF IdInv
<1>5. max_id' = max_id
  <2>1. PICK d \in Nat : max_id = (m_min_id + 1) + d /\ d < m_cap
    <3>1. max_id - (m_min_id + 1) \in Nat
      BY <1>1, <1>2
    <3> QED
      BY <3>1, <1>1
  <2>2. PICK n \in Nat : n = m_min_id + 1 /\ max_id = n + d
    BY <1>1, <2>1
  <2>3. (((n + d) % m_cap) - (n % m_cap)) % m_cap = d
    <3>1. m_cap >= 1 /\ m_cap \in Nat
      BY <1>1
    <3> QED
      BY ONLY <3>1, <2>1, Span, n \in Nat, d \in Nat
  <2>4. m_tail = (n + d) % m_cap
    BY <2>2, IdRange
  <2>5. max_id' = n + ((m_tail - (n % m_cap)) % m_cap)
    BY <1>3, <2>2 DEF max_id, VirtTail, head
  <2> QED
    BY ONLY <2>2, <2>3, <2>4, <2>5
<1>6. Used' = Used \ {id}
  <2>1. Used' = {i \in (m_min_id + 1)..(max_id - 1) : ~m_dropped[i % m_cap]}
    BY <1>3, <1>5 DEF Used
  <2>2. \A i : i \in (m_min_id + 1)..(max_id - 1) <=> i \in m_min_id..(max_id - 1) /\ i # m_min_id
    BY <1>1
  <2> QED
    BY <2>1, <2>2 DEF Used
<1> QED
  BY <1>3, <1>4, <1>5, <1>6 DEF Dropped, Entries

\* Another id goes: its bit is set.
LEMMA OtherDropped ==
    ASSUME IdInv, NEW id \in Used, id # m_min_id, drop(id)
    PROVE  Dropped(id)
<1>1. m_cap \in Nat /\ m_cap >= 1 /\ m_min_id \in Nat /\ max_id \in Nat /\ max_id < m_min_id + m_cap
  BY IdRange DEF IdInv
<1>2. /\ m_dropped' = [m_dropped EXCEPT ![id % m_cap] = TRUE]
      /\ UNCHANGED <<m_min_id, m_objects, m_cap, m_tail>>
  BY DEF drop
<1>3. max_id' = max_id
  BY <1>2 DEF max_id, VirtTail, head
<1>4. id \in m_min_id..(max_id - 1) /\ id \in Nat
  BY <1>1 DEF Used
<1>5. id % m_cap \in 0..(m_cap - 1)
  BY <1>1, <1>4, DivMod
<1>6. ASSUME NEW i \in m_min_id..(max_id - 1)
      PROVE  m_dropped'[i % m_cap] = IF i = id THEN TRUE ELSE m_dropped[i % m_cap]
  <2>1. i \in Nat /\ i < id + m_cap /\ id < i + m_cap
    BY <1>1, <1>4
  <2>2. i % m_cap \in 0..(m_cap - 1)
    BY <1>1, <2>1, DivMod
  <2>3. i # id => i % m_cap # id % m_cap
    <3>1. CASE i < id
      BY ONLY <3>1, <2>1, <1>1, <1>4, Apart
    <3>2. CASE id < i
      BY ONLY <3>2, <2>1, <1>1, <1>4, Apart
    <3> QED
      BY <3>1, <3>2, <2>1, <1>4
  <2> QED
    BY <1>2, <2>2, <2>3 DEF IdInv
<1>7. Used' = Used \ {id}
  <2>1. Used' = {i \in m_min_id..(max_id - 1) : ~m_dropped'[i % m_cap]}
    BY <1>2, <1>3 DEF Used
  <2> QED
    BY <2>1, <1>6 DEF Used
<1>8. IdInv'
  BY <1>2 DEF IdInv
<1> QED
  BY <1>2, <1>3, <1>7, <1>8 DEF Dropped, Entries

----------------------------------------------------------------------------
(* The theorem *)

\* The first state.
LEMMA IdStart == Init => IdInv /\ Table!Init
<1> SUFFICES ASSUME Init PROVE IdInv /\ Table!Init
  OBVIOUS
<1>1. Word \in Nat /\ Word >= 2
  BY PermanentIDAssumption
<1>2. IdInv
  BY <1>1 DEF Init, IdInv
<1>3. max_id = 0
  <2>1. 0 % Word = 0 /\ (0 - 0) % Word = 0
    <3>1. 0 = Word * 0 + 0 /\ 0 < Word
      BY <1>1
    <3> QED
      BY <3>1, <1>1, DivIs
  <2> QED
    BY <2>1 DEF Init, max_id, VirtTail, head
<1>4. Used = {}
  BY <1>3 DEF Used, Init
<1>5. Entries = [i \in {} |-> 0]
  BY <1>4 DEF Entries
<1> QED
  BY <1>2, <1>3, <1>5 DEF Table!Init, Entries

\* Every step.
LEMMA IdStep ==
    ASSUME IdInv, [Next]_vars
    PROVE  IdInv' /\ [Table!Next]_<<Entries, max_id>>
<1>1. CASE Push
  <2>1. PICK x \in Objects : push(x) /\ max_id < MaxId
    BY <1>1 DEF Push
  <2>2. Pushed(x)
    BY <2>1, PushPushed
  <2>3. Table!Push(x)
    BY <2>1, <2>2 DEF Pushed, Table!Push, Entries
  <2> QED
    BY <2>2, <2>3 DEF Pushed, Table!Next, Entries
<1>2. CASE Drop
  <2>1. PICK id \in Used : drop(id)
    BY <1>2 DEF Drop
  <2>2. Dropped(id)
    BY <2>1, FirstDropped, OtherDropped
  <2>3. Table!Drop(id)
    BY <2>1, <2>2 DEF Dropped, Table!Drop, Entries
  <2> QED
    BY <2>2, <2>3 DEF Dropped, Table!Next, Entries
<1>3. CASE UNCHANGED vars
  <2>1. IdInv'
    BY <1>3 DEF vars, IdInv
  <2>2. max_id' = max_id
    BY <1>3 DEF vars, max_id, VirtTail, head
  <2>3. Entries' = Entries
    BY <1>3, <2>2 DEF vars, Entries, Used
  <2> QED
    BY <2>1, <2>2, <2>3
<1> QED
  BY <1>1, <1>2, <1>3 DEF Next, Stopped

\* CircularPermanentID keeps its promise for every word size and any number of ids: ids are
\* given out one after the other, and an id names its object until it is dropped, wherever the
\* ring stands when it wraps, reuses a dropped place or doubles.
THEOREM IdsAreKept == Spec => KeepsIds
<1>1. Init => IdInv /\ Table!Init
  BY IdStart
<1>2. IdInv /\ [Next]_vars => IdInv' /\ [Table!Next]_<<Entries, max_id>>
  BY IdStep
<1> QED
  BY <1>1, <1>2, PTL DEF Spec, KeepsIds, Table!Spec, Entries

----------------------------------------------------------------------------
(* num_used *)

\* The inductive invariant of the count.
CountInv == IdInv /\ m_num_free \in Int /\ IsFiniteSet(Used) /\ UsedIsCounted

\* The ids in use are those of the table.
LEMMA UsedAre == Used = DOMAIN Entries /\ Used' = DOMAIN Entries'
  BY DEF Entries

\* num_used with the ids in place of the index: max_id is VirtTail ids after m_min_id.
LEMMA CountedIds ==
    ASSUME IdInv
    PROVE  VirtTail = max_id - m_min_id /\ m_min_id \in Nat /\ max_id \in Nat
<1>1. VirtTail \in 0..(m_cap - 1) /\ m_cap \in Nat /\ m_min_id \in Nat
  BY IdRange DEF IdInv
<1>2. VirtTail \in Nat
  BY <1>1
<1> QED
  BY <1>1, <1>2 DEF max_id

\* A distance around a ring of c places is a natural number.
LEMMA RingDistance ==
    ASSUME NEW c \in Nat, c >= 1, NEW t \in 0..(c - 1), NEW n \in Nat
    PROVE  (t - (n % c)) % c \in Nat
<1>1. PICK r \in 0..(c - 1) : r = n % c
  BY DivMod
<1>2. (t - r) % c = IF r <= t THEN t - r ELSE t - r + c
  BY ModSub
<1> QED
  BY <1>1, <1>2

\* CountedIds after a step.
LEMMA CountedIdsNext ==
    ASSUME IdInv'
    PROVE  VirtTail' = max_id' - m_min_id' /\ m_min_id' \in Nat /\ max_id' \in Nat
<1>1. m_cap' \in Nat /\ m_cap' >= 1 /\ m_tail' \in 0..(m_cap' - 1) /\ m_min_id' \in Nat
  BY DEF IdInv
<1>2. VirtTail' \in Nat
  BY <1>1, RingDistance DEF VirtTail, head
<1>3. PICK v \in Nat : v = VirtTail'
  BY <1>2
<1>4. PICK n \in Nat : n = m_min_id'
  BY <1>1
<1>5. max_id' = n + v
  BY <1>3, <1>4 DEF max_id
<1>6. n + v \in Nat /\ v = (n + v) - n
  OBVIOUS
<1> QED
  BY <1>3, <1>4, <1>5, <1>6

\* What a push does to the counter: a place is reused, or m_min_id stays.
LEMMA PushCounts ==
    ASSUME m_num_free \in Int, m_min_id \in Nat, NEW x, push(x)
    PROVE  m_num_free' \in Int /\ m_num_free' + m_min_id' = m_num_free + m_min_id
<1>1. CASE PushRoom(x)
  BY <1>1 DEF PushRoom, DoPush
<1>2. CASE PushReuse(x)
  BY <1>2 DEF PushReuse, DoPush
<1>3. CASE PushGrow(x)
  BY <1>3 DEF PushGrow, DoPush
<1>4. CASE PushGrowAligned(x)
  BY <1>4 DEF PushGrowAligned, DoPush
<1> QED
  BY <1>1, <1>2, <1>3, <1>4 DEF push

\* A push makes one id more, and counts one more.
LEMMA PushCounted ==
    ASSUME CountInv, NEW x, push(x)
    PROVE  CountInv'
<1>1. IdInv /\ m_num_free \in Int /\ IsFiniteSet(Used) /\ VirtTail - m_num_free = Cardinality(Used)
  BY DEF CountInv, UsedIsCounted
<1>2. Pushed(x)
  BY <1>1, PushPushed
<1>3. IdInv' /\ max_id' = max_id + 1 /\ Used' = Used \cup {max_id}
  BY <1>2, UsedAre DEF Pushed
<1>4. VirtTail = max_id - m_min_id /\ m_min_id \in Nat /\ max_id \in Nat
  BY <1>1, CountedIds
<1>5. VirtTail' = max_id' - m_min_id' /\ m_min_id' \in Nat /\ max_id' \in Nat
  BY <1>3, CountedIdsNext
<1>6. max_id \notin Used
  BY <1>4 DEF Used
<1>7. IsFiniteSet(Used') /\ Cardinality(Used') = Cardinality(Used) + 1 /\ Cardinality(Used) \in Nat
  BY <1>1, <1>3, <1>6, FS_AddElement, FS_CardinalityType
<1>8. m_num_free' \in Int /\ m_num_free' + m_min_id' = m_num_free + m_min_id
  BY <1>1, <1>4, PushCounts
<1>9. VirtTail' - m_num_free' = Cardinality(Used')
  <2>1. max_id - m_min_id - m_num_free = Cardinality(Used)
    BY <1>1, <1>4
  <2>2. max_id' - m_min_id' - m_num_free' = max_id - m_min_id - m_num_free + 1
    <3>1. PICK m, n, f \in Int : m = max_id /\ n = m_min_id /\ f = m_num_free
      BY <1>1, <1>4
    <3>2. PICK n2, f2 \in Int : n2 = m_min_id' /\ f2 = m_num_free'
      BY <1>5, <1>8
    <3>3. max_id' = m + 1
      BY <1>3, <3>1
    <3>4. f2 + n2 = f + n
      BY <3>1, <3>2, <1>8
    <3>5. max_id' - n2 - f2 = m - n - f + 1
      BY <3>3, <3>4
    <3> QED
      BY <3>1, <3>2, <3>5
  <2>3. max_id' - m_min_id' - m_num_free' = Cardinality(Used')
    BY <2>1, <2>2, <1>7
  <2> QED
    BY <2>3, <1>5
<1> QED
  BY <1>3, <1>7, <1>8, <1>9 DEF CountInv, UsedIsCounted

\* A drop makes one id less, and counts one less.
LEMMA DropCounted ==
    ASSUME CountInv, NEW id \in Used, drop(id)
    PROVE  CountInv'
<1>1. IdInv /\ m_num_free \in Int /\ IsFiniteSet(Used) /\ VirtTail - m_num_free = Cardinality(Used)
  BY DEF CountInv, UsedIsCounted
<1>2. Dropped(id)
  BY <1>1, FirstDropped, OtherDropped
<1>3. IdInv' /\ max_id' = max_id /\ Used' = Used \ {id}
  BY <1>2, UsedAre DEF Dropped
<1>4. VirtTail = max_id - m_min_id /\ m_min_id \in Nat /\ max_id \in Nat
  BY <1>1, CountedIds
<1>5. VirtTail' = max_id' - m_min_id' /\ m_min_id' \in Nat /\ max_id' \in Nat
  BY <1>3, CountedIdsNext
<1>6. IsFiniteSet(Used') /\ Cardinality(Used') = Cardinality(Used) - 1 /\ Cardinality(Used) \in Nat
  BY <1>1, <1>3, FS_RemoveElement, FS_CardinalityType
<1>7. m_num_free' \in Int /\ m_num_free' + m_min_id' = m_num_free + m_min_id + 1
  BY <1>1, <1>4 DEF drop
<1>8. VirtTail' - m_num_free' = Cardinality(Used')
  <2>1. max_id - m_min_id - m_num_free = Cardinality(Used)
    BY <1>1, <1>4
  <2>2. max_id' - m_min_id' - m_num_free' = max_id - m_min_id - m_num_free - 1
    <3>1. PICK m, n, f \in Int : m = max_id /\ n = m_min_id /\ f = m_num_free
      BY <1>1, <1>4
    <3>2. PICK n2, f2 \in Int : n2 = m_min_id' /\ f2 = m_num_free'
      BY <1>5, <1>7
    <3>3. max_id' = m
      BY <1>3, <3>1
    <3>4. f2 + n2 = f + n + 1
      BY <3>1, <3>2, <1>7
    <3>5. max_id' - n2 - f2 = m - n - f - 1
      BY <3>3, <3>4
    <3> QED
      BY <3>1, <3>2, <3>5
  <2>3. max_id' - m_min_id' - m_num_free' = Cardinality(Used')
    BY <2>1, <2>2, <1>6
  <2> QED
    BY <2>3, <1>5
<1> QED
  BY <1>3, <1>6, <1>7, <1>8 DEF CountInv, UsedIsCounted

\* num_used() of CircularPermanentID (VirtTail - m_num_free) is the number of ids in use, for every
\* word size, through wrap-around, reuse of dropped ids and doubling; so m_num_free never goes below 0.
THEOREM UseIsCounted == Spec => [](UsedIsCounted /\ m_num_free \in Nat)
<1>1. Init => CountInv
  <2> SUFFICES ASSUME Init PROVE CountInv
    OBVIOUS
  <2>1. IdInv
    BY IdStart
  <2>2. head = 0 /\ VirtTail = 0 /\ m_num_free = 0 /\ m_min_id = 0
    <3>1. m_cap \in Nat /\ m_cap >= 2 /\ m_tail = 0 /\ m_min_id = 0 /\ m_num_free = 0
      BY <2>1 DEF Init, IdInv
    <3>2. 0 % m_cap = 0
      BY <3>1, ModSub
    <3> QED
      BY <3>1, <3>2 DEF head, VirtTail
  <2>3. Used = {}
    BY <2>2 DEF Used, max_id
  <2> QED
    BY <2>1, <2>2, <2>3, FS_EmptySet DEF CountInv, UsedIsCounted
<1>2. CountInv /\ [Next]_vars => CountInv'
  <2> SUFFICES ASSUME CountInv, [Next]_vars PROVE CountInv'
    OBVIOUS
  <2>1. CASE Push
    BY <2>1, PushCounted DEF Push
  <2>2. CASE Drop
    BY <2>2, DropCounted DEF Drop
  <2>3. CASE Stopped \/ UNCHANGED vars
    BY <2>3 DEF Stopped, vars, CountInv, IdInv, UsedIsCounted, Used, VirtTail, max_id, head
  <2> QED
    BY <2>1, <2>2, <2>3 DEF Next
<1>3. CountInv => UsedIsCounted /\ m_num_free \in Nat
  <2> SUFFICES ASSUME CountInv PROVE UsedIsCounted /\ m_num_free \in Nat
    OBVIOUS
  <2>1. IdInv /\ m_num_free \in Int /\ UsedIsCounted /\ VirtTail - m_num_free = Cardinality(Used)
    BY DEF CountInv, UsedIsCounted
  <2>2. VirtTail = max_id - m_min_id /\ m_min_id \in Nat /\ max_id \in Nat /\ m_min_id <= max_id
    BY <2>1, CountedIds, IdRange
  <2>3. /\ IsFiniteSet(m_min_id..(max_id - 1))
        /\ Cardinality(m_min_id..(max_id - 1)) = VirtTail
    <3>1. /\ IsFiniteSet(m_min_id..(max_id - 1))
          /\ Cardinality(m_min_id..(max_id - 1)) = IF m_min_id > max_id - 1 THEN 0 ELSE max_id - 1 - m_min_id + 1
      BY <2>2, FS_Interval
    <3> QED
      BY <3>1, <2>2
  <2>4. Used \subseteq m_min_id..(max_id - 1)
    BY DEF Used
  <2>5. Cardinality(Used) <= VirtTail
    BY <2>3, <2>4, FS_Subset
  <2> QED
    BY <2>1, <2>2, <2>5
<1> QED
  BY <1>1, <1>2, <1>3, PTL DEF Spec
=============================================================================

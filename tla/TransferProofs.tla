---------------------------- MODULE TransferProofs ----------------------------
(***************************************************************************)
(* Theorems about Transfer and its timers, for any setups, delays, clocks   *)
(* and amounts of data.                                                    *)
(***************************************************************************)
EXTENDS Transfer, SequenceTheorems, WellFoundedInduction, TLAPS

-----------------------------------------------------------------------------
(* A sorted list without duplicates *)

LEMMA Smallest ==
    ASSUME NEW S, S \subseteq Nat, S # {}
    PROVE  Min(S) \in S /\ \A n \in S : Min(S) <= n
<1>1. \E m \in S : \A n \in S : ~ (<<n, m>> \in OpToRel(<, Nat))
  BY WFMin, NatLessThanWellFounded, Zenon
<1>2. PICK m \in S : \A n \in S : ~ (n < m)
  BY <1>1, Zenon DEF OpToRel
<1>3. \A n \in S : m <= n
  BY <1>2
<1> QED
  BY <1>3, Zenon DEF Min

LEMMA Inserted ==
    ASSUME NEW order \in Seq(Timer), NEW at \in 1 .. Len(order) + 1, NEW t \in Timer
    PROVE  LET new == SubSeq(order, 1, at - 1) \o <<t>> \o SubSeq(order, at, Len(order)) IN
           /\ new \in Seq(Timer) /\ Len(new) = Len(order) + 1 /\ new[at] = t
           /\ \A k \in 1 .. at - 1 : new[k] = order[k]
           /\ \A k \in at + 1 .. Len(order) + 1 : new[k] = order[k - 1]
<1> DEFINE n == Len(order)
           front == SubSeq(order, 1, at - 1)
           back == SubSeq(order, at, n)
           new == SubSeq(order, 1, at - 1) \o <<t>> \o SubSeq(order, at, Len(order))
           half == front \o <<t>>
<1>1. n \in Nat /\ at \in 1 .. n + 1 /\ at \in Int /\ \A k \in 1 .. n : order[k] \in Timer
  BY LenProperties, ElementOfSeq
<1>2. /\ front \in Seq(Timer) /\ Len(front) = at - 1
      /\ \A k \in 1 .. at - 1 : front[k] = order[k]
  <2>1. \A k \in 1 .. at - 1 : order[k] \in Timer
    BY <1>1
  <2> QED
    BY <1>1, <2>1, SubSeqProperties
<1>3. /\ back \in Seq(Timer) /\ Len(back) = n - at + 1
      /\ \A k \in 1 .. n - at + 1 : back[k] = order[at + k - 1]
  <2>1. \A k \in at .. n : order[k] \in Timer
    BY <1>1
  <2> QED
    BY <1>1, <2>1, SubSeqProperties
<1>4. <<t>> \in Seq(Timer) /\ Len(<<t>>) = 1 /\ <<t>>[1] = t
  OBVIOUS
<1> HIDE DEF n, front, back, new
<1>5. /\ half \in Seq(Timer) /\ Len(half) = at
      /\ \A k \in 1 .. at : half[k] = IF k <= at - 1 THEN front[k] ELSE <<t>>[k - (at - 1)]
  BY <1>1, <1>2, <1>4, ConcatProperties
<1>6. half[at] = t
  BY <1>1, <1>4, <1>5
<1> HIDE DEF half
<1>7. /\ new \in Seq(Timer) /\ Len(new) = n + 1
      /\ \A k \in 1 .. n + 1 : new[k] = IF k <= at THEN half[k] ELSE back[k - at]
  <2>1. new = half \o back
    BY DEF half, front, back, n, new
  <2>2. /\ half \o back \in Seq(Timer) /\ Len(half \o back) = Len(half) + Len(back)
        /\ \A k \in 1 .. Len(half) + Len(back) :
              (half \o back)[k] = IF k <= Len(half) THEN half[k] ELSE back[k - Len(half)]
    BY <1>3, <1>5, ConcatProperties
  <2>3. Len(half) + Len(back) = n + 1
    BY <1>1, <1>3, <1>5
  <2> QED
    BY <1>5, <2>1, <2>2, <2>3
<1>8. \A k \in at + 1 .. n + 1 : new[k] = order[k - 1]
  <2>1. ASSUME NEW k \in at + 1 .. n + 1 PROVE new[k] = order[k - 1]
    <3>1. /\ k \in 1 .. n + 1 /\ ~(k <= at) /\ k - at \in 1 .. n - at + 1
          /\ at + (k - at) - 1 = k - 1
      BY <1>1
    <3>2. new[k] = back[k - at]
      BY <1>7, <3>1
    <3> QED
      BY <1>3, <3>1, <3>2
  <2> QED
    BY <2>1
<1>9. \A k \in 1 .. at - 1 : new[k] = order[k]
  <2>1. ASSUME NEW k \in 1 .. at - 1 PROVE new[k] = order[k]
    <3>1. k \in 1 .. n + 1 /\ k \in 1 .. at /\ k <= at /\ k <= at - 1
      BY <1>1
    <3>2. new[k] = half[k] /\ half[k] = front[k]
      BY <1>5, <1>7, <3>1
    <3> QED
      BY <1>2, <3>2
  <2> QED
    BY <2>1
<1>10. new[at] = t
  <2>1. at \in 1 .. n + 1 /\ at <= at
    BY <1>1
  <2> QED
    BY <1>6, <1>7, <2>1
<1> QED
  BY <1>7, <1>8, <1>9, <1>10 DEF n, new

LEMMA TakenOut ==
    ASSUME NEW order \in Seq(Timer), NEW at \in 1 .. Len(order)
    PROVE  LET new == SubSeq(order, 1, at - 1) \o SubSeq(order, at + 1, Len(order)) IN
           /\ new \in Seq(Timer) /\ Len(new) = Len(order) - 1
           /\ \A k \in 1 .. at - 1 : new[k] = order[k]
           /\ \A k \in at .. Len(order) - 1 : new[k] = order[k + 1]
<1> DEFINE n == Len(order)
           front == SubSeq(order, 1, at - 1)
           back == SubSeq(order, at + 1, n)
           new == SubSeq(order, 1, at - 1) \o SubSeq(order, at + 1, Len(order))
<1>1. n \in Nat /\ at \in 1 .. n /\ at \in Int /\ \A k \in 1 .. n : order[k] \in Timer
  BY LenProperties, ElementOfSeq
<1>2. /\ front \in Seq(Timer) /\ Len(front) = at - 1
      /\ \A k \in 1 .. at - 1 : front[k] = order[k]
  <2>1. \A k \in 1 .. at - 1 : order[k] \in Timer
    BY <1>1
  <2> QED
    BY <1>1, <2>1, SubSeqProperties
<1>3. /\ back \in Seq(Timer) /\ Len(back) = n - at
      /\ \A k \in 1 .. n - at : back[k] = order[at + k]
  <2>1. \A k \in at + 1 .. n : order[k] \in Timer
    BY <1>1
  <2>2. /\ back \in Seq(Timer)
        /\ Len(back) = IF at + 1 <= n THEN n - (at + 1) + 1 ELSE 0
        /\ \A k \in 1 .. n - (at + 1) + 1 : back[k] = order[at + 1 + k - 1]
    BY <1>1, <2>1, SubSeqProperties
  <2> QED
    BY <1>1, <2>2
<1> HIDE DEF n, front, back, new
<1>4. /\ new \in Seq(Timer) /\ Len(new) = n - 1
      /\ \A k \in 1 .. n - 1 : new[k] = IF k <= at - 1 THEN front[k] ELSE back[k - (at - 1)]
  <2>1. new = front \o back
    BY DEF front, back, n, new
  <2>2. /\ front \o back \in Seq(Timer) /\ Len(front \o back) = Len(front) + Len(back)
        /\ \A k \in 1 .. Len(front) + Len(back) :
              (front \o back)[k] = IF k <= Len(front) THEN front[k] ELSE back[k - Len(front)]
    BY <1>2, <1>3, ConcatProperties
  <2>3. Len(front) + Len(back) = n - 1
    BY <1>1, <1>2, <1>3
  <2> QED
    BY <1>2, <2>1, <2>2, <2>3
<1>5. \A k \in at .. n - 1 : new[k] = order[k + 1]
  <2>1. ASSUME NEW k \in at .. n - 1 PROVE new[k] = order[k + 1]
    <3>1. /\ k \in 1 .. n - 1 /\ ~(k <= at - 1) /\ k - (at - 1) \in 1 .. n - at
          /\ at + (k - (at - 1)) = k + 1
      BY <1>1
    <3>2. new[k] = back[k - (at - 1)]
      BY <1>4, <3>1
    <3> QED
      BY <1>3, <3>1, <3>2
  <2> QED
    BY <2>1
<1>6. \A k \in 1 .. at - 1 : new[k] = order[k]
  BY <1>1, <1>2, <1>4
<1> QED
  BY <1>4, <1>5, <1>6 DEF n, new

InList(order, t) == \E k \in 1 .. Len(order) : order[k] = t

SortedBy(due, order) ==
    \A j, k \in 1 .. Len(order) :
        j < k => due[order[j]] <= due[order[k]] /\ order[j] # order[k]

(* b comes right after a *)
Adjacent(order, a, b) ==
    \E k \in 1 .. Len(order) - 1 : order[k] = a /\ order[k + 1] = b

(* Whatever comes after a is due later *)
LastOfItsTime(due, order, a) ==
    \A j, k \in 1 .. Len(order) : order[j] = a /\ j < k => due[a] < due[order[k]]

LEMMA Place ==
    ASSUME NEW order \in Seq(Timer), NEW due \in [Timer -> Nat], NEW t \in Timer,
           SortedBy(due, order)
    PROVE  \E at \in 1 .. Len(order) + 1 :
              /\ ListAdd(order, due, t)
                   = SubSeq(order, 1, at - 1) \o <<t>> \o SubSeq(order, at, Len(order))
              /\ \A k \in 1 .. at - 1 : due[order[k]] <= due[t]
              /\ \A k \in at .. Len(order) : due[t] < due[order[k]]
<1> DEFINE n == Len(order)
           later == {k \in DOMAIN order : due[t] < due[order[k]]}
           at == IF later = {} THEN n + 1 ELSE Min(later)
<1>1. n \in Nat /\ DOMAIN order = 1 .. n /\ \A k \in 1 .. n : order[k] \in Timer
  BY LenProperties, ElementOfSeq
<1>2. \A k \in 1 .. n : due[order[k]] \in Nat /\ due[t] \in Nat
  BY <1>1
<1>3. ListAdd(order, due, t)
        = SubSeq(order, 1, at - 1) \o <<t>> \o SubSeq(order, at, n)
  BY DEF ListAdd
<1>4. CASE later = {}
  <2>1. at = n + 1
    BY <1>4
  <2> HIDE DEF at
  <2>2. at \in 1 .. n + 1
    BY <1>1, <2>1
  <2>3. \A k \in 1 .. at - 1 : due[order[k]] <= due[t]
    BY <1>1, <1>2, <1>4, <2>1
  <2>4. \A k \in at .. n : due[t] < due[order[k]]
    BY <1>1, <2>1
  <2> QED
    BY <1>3, <2>2, <2>3, <2>4
<1>5. CASE later # {}
  <2>1. later \subseteq Nat
    BY <1>1
  <2>2. at \in later /\ \A k \in later : at <= k
    BY <1>5, <2>1, Smallest
  <2> HIDE DEF at
  <2>3. at \in 1 .. n + 1 /\ at \in 1 .. n /\ due[t] < due[order[at]]
    BY <1>1, <2>2
  <2>4. ASSUME NEW k \in 1 .. at - 1 PROVE due[order[k]] <= due[t]
    <3>1. k \in 1 .. n /\ ~(at <= k)
      BY <1>1, <2>3
    <3>2. ~(due[t] < due[order[k]])
      BY <1>1, <2>2, <3>1
    <3> QED
      BY <1>2, <3>1, <3>2
  <2>5. ASSUME NEW k \in at .. n PROVE due[t] < due[order[k]]
    <3>1. k \in 1 .. n /\ (k = at \/ at < k)
      BY <1>1, <2>3
    <3>2. k # at => due[order[at]] <= due[order[k]]
      BY <2>3, <3>1 DEF SortedBy
    <3> QED
      BY <1>2, <2>3, <3>1, <3>2
  <2> QED
    BY <1>3, <2>3, <2>4, <2>5
<1> QED
  BY <1>4, <1>5

LEMMA Adding ==
    ASSUME NEW order \in Seq(Timer), NEW due \in [Timer -> Nat], NEW t \in Timer,
           SortedBy(due, order), ~InList(order, t)
    PROVE  LET new == ListAdd(order, due, t) IN
           /\ new \in Seq(Timer) /\ SortedBy(due, new)
           /\ \A u : InList(new, u) <=> u = t \/ InList(order, u)
           /\ LastOfItsTime(due, new, t)
           /\ \A a, b : Adjacent(order, a, b) /\ due[a] = due[b] => Adjacent(new, a, b)
           /\ \A a : /\ InList(order, a) /\ LastOfItsTime(due, order, a)
                     /\ due[a] = due[t]
                     => Adjacent(new, a, t)
<1> DEFINE n == Len(order)
           new == ListAdd(order, due, t)
<1>1. n \in Nat /\ \A k \in 1 .. n : order[k] \in Timer
  BY LenProperties, ElementOfSeq
<1>2. PICK at \in 1 .. n + 1 :
         /\ new = SubSeq(order, 1, at - 1) \o <<t>> \o SubSeq(order, at, n)
         /\ \A k \in 1 .. at - 1 : due[order[k]] <= due[t]
         /\ \A k \in at .. n : due[t] < due[order[k]]
  BY Place
<1>3. /\ new \in Seq(Timer) /\ Len(new) = n + 1 /\ new[at] = t
      /\ \A k \in 1 .. at - 1 : new[k] = order[k]
      /\ \A k \in at + 1 .. n + 1 : new[k] = order[k - 1]
  <2>1. LET ins == SubSeq(order, 1, at - 1) \o <<t>> \o SubSeq(order, at, Len(order)) IN
        /\ ins \in Seq(Timer) /\ Len(ins) = Len(order) + 1 /\ ins[at] = t
        /\ \A k \in 1 .. at - 1 : ins[k] = order[k]
        /\ \A k \in at + 1 .. Len(order) + 1 : ins[k] = order[k - 1]
    BY Inserted
  <2> HIDE DEF new
  <2> QED
    BY <1>2, <2>1
<1>4. \A k \in 1 .. n : due[order[k]] \in Nat /\ due[t] \in Nat
  BY <1>1
<1> HIDE DEF n, new
(* old positions and new ones *)
<1>5. \A k \in 1 .. n : \/ k < at /\ new[k] = order[k]
                        \/ k >= at /\ new[k + 1] = order[k]
  <2>1. ASSUME NEW k \in 1 .. n, k >= at PROVE new[k + 1] = order[k]
    <3>1. k + 1 \in at + 1 .. n + 1 /\ (k + 1) - 1 = k
      BY <1>1, <2>1
    <3> QED
      BY <1>3, <3>1
  <2>2. ASSUME NEW k \in 1 .. n, k < at PROVE new[k] = order[k]
    <3>1. k \in 1 .. at - 1
      BY <1>1, <2>2
    <3> QED
      BY <1>3, <3>1
  <2>3. \A k \in 1 .. n : k < at \/ k >= at
    BY <1>1
  <2> QED
    BY <2>1, <2>2, <2>3
<1>6. \A k \in 1 .. n + 1 : \/ k < at /\ k \in 1 .. n /\ new[k] = order[k]
                            \/ k = at /\ new[k] = t
                            \/ k > at /\ k - 1 \in 1 .. n /\ new[k] = order[k - 1]
  <2>1. ASSUME NEW k \in 1 .. n + 1
        PROVE  \/ k < at /\ k \in 1 .. n /\ k \in 1 .. at - 1
               \/ k = at
               \/ k > at /\ k - 1 \in 1 .. n /\ k \in at + 1 .. n + 1
    BY <1>1
  <2> QED
    BY <1>3, <2>1
<1>7. \A k \in 1 .. n : order[k] # t
  BY DEF InList, n
<1>8. SortedBy(due, new)
  <2>1. ASSUME NEW j \in 1 .. n + 1, NEW k \in 1 .. n + 1, j < k
        PROVE  due[new[j]] <= due[new[k]] /\ new[j] # new[k]
    <3>1. CASE k < at
      <4>1. /\ j \in 1 .. n /\ k \in 1 .. n
            /\ new[j] = order[j] /\ new[k] = order[k]
        BY <1>1, <1>6, <2>1, <3>1
      <4> QED
        BY <2>1, <4>1 DEF SortedBy, n
    <3>2. CASE k = at
      <4>1. j \in 1 .. at - 1 /\ j \in 1 .. n /\ new[j] = order[j] /\ new[k] = t
        BY <1>1, <1>6, <2>1, <3>2
      <4> QED
        BY <1>2, <1>7, <4>1
    <3>3. CASE k > at
      <4>1. k - 1 \in 1 .. n /\ k - 1 \in at .. n /\ new[k] = order[k - 1]
        BY <1>1, <1>6, <2>1, <3>3
      <4>2. CASE j < at
        <5>1. j \in 1 .. n /\ new[j] = order[j] /\ j < k - 1
          BY <1>1, <1>6, <2>1, <3>3, <4>2
        <5> QED
          BY <4>1, <5>1 DEF SortedBy, n
      <4>3. CASE j = at
        <5>1. new[j] = t /\ due[t] < due[order[k - 1]]
          BY <1>2, <1>3, <4>1, <4>3
        <5> QED
          BY <1>4, <1>7, <4>1, <5>1
      <4>4. CASE j > at
        <5>1. j - 1 \in 1 .. n /\ new[j] = order[j - 1] /\ j - 1 < k - 1
          BY <1>1, <1>6, <2>1, <4>4
        <5> QED
          BY <4>1, <5>1 DEF SortedBy, n
      <4> QED
        BY <4>2, <4>3, <4>4
    <3> QED
      BY <3>1, <3>2, <3>3
  <2> QED
    BY <1>3, <2>1 DEF SortedBy
<1>9. \A u : InList(new, u) <=> u = t \/ InList(order, u)
  <2>1. ASSUME NEW u, InList(new, u) PROVE u = t \/ InList(order, u)
    BY <1>3, <1>6, <2>1 DEF InList, n
  <2>2. InList(new, t)
    BY <1>1, <1>3 DEF InList
  <2>3. ASSUME NEW u, InList(order, u) PROVE InList(new, u)
    <3>1. PICK k \in 1 .. n : order[k] = u
      BY <2>3 DEF InList, n
    <3>2. k \in 1 .. n + 1 /\ k + 1 \in 1 .. n + 1
      BY <1>1
    <3> QED
      BY <1>3, <1>5, <3>1, <3>2 DEF InList
  <2> QED
    BY <2>1, <2>2, <2>3
<1>10. LastOfItsTime(due, new, t)
  <2>1. ASSUME NEW j \in 1 .. n + 1, NEW k \in 1 .. n + 1, new[j] = t, j < k
        PROVE  due[t] < due[new[k]]
    <3>1. j = at
      BY <1>6, <1>7, <2>1
    <3>2. k - 1 \in at .. n /\ new[k] = order[k - 1]
      BY <1>1, <1>6, <2>1, <3>1
    <3> QED
      BY <1>2, <3>2
  <2> QED
    BY <1>3, <2>1 DEF LastOfItsTime
<1>11. ASSUME NEW a, NEW b, Adjacent(order, a, b), due[a] = due[b]
       PROVE  Adjacent(new, a, b)
  <2>1. PICK k \in 1 .. n - 1 : order[k] = a /\ order[k + 1] = b
    BY <1>11 DEF Adjacent, n
  <2>2. k \in 1 .. n /\ k + 1 \in 1 .. n
    BY <1>1
  <2>3. CASE k + 1 < at
    <3>1. new[k] = a /\ new[k + 1] = b /\ k \in 1 .. n
      BY <1>1, <1>5, <2>1, <2>2, <2>3
    <3> QED
      BY <1>1, <1>3, <3>1 DEF Adjacent
  <2>4. CASE k + 1 = at
    <3>1. k \in 1 .. at - 1 /\ k + 1 \in at .. n
      BY <1>1, <2>2, <2>4
    <3>2. due[a] <= due[t] /\ due[t] < due[b]
      BY <1>2, <2>1, <3>1
    <3> QED
      BY <1>4, <1>11, <2>1, <2>2, <3>2
  <2>5. CASE k + 1 > at
    <3>1. k >= at /\ k + 1 >= at /\ k + 1 \in 1 .. n
      BY <1>1, <2>2, <2>5
    <3>2. new[k + 1] = a /\ new[k + 1 + 1] = b
      BY <1>5, <2>1, <2>2, <3>1
    <3> QED
      BY <1>1, <1>3, <3>1, <3>2 DEF Adjacent
  <2> QED
    BY <1>1, <2>2, <2>3, <2>4, <2>5
<1>12. ASSUME NEW a, InList(order, a), LastOfItsTime(due, order, a), due[a] = due[t]
       PROVE  Adjacent(new, a, t)
  <2>1. PICK k \in 1 .. n : order[k] = a
    BY <1>12 DEF InList, n
  <2>2. k < at
    <3>1. CASE k \in at .. n
      BY <1>2, <1>4, <1>12, <2>1, <3>1
    <3> QED
      BY <1>1, <3>1
  <2>3. ~(k < at - 1)
    <3>1. CASE k < at - 1
      <4>1. at - 1 \in 1 .. n /\ at - 1 \in 1 .. at - 1
        BY <1>1, <3>1
      <4>2. due[a] < due[order[at - 1]] /\ due[order[at - 1]] <= due[t]
        BY <1>2, <1>12, <2>1, <3>1, <4>1 DEF LastOfItsTime, n
      <4> QED
        BY <1>4, <1>12, <4>1, <4>2
    <3> QED
      BY <3>1
  <2>4. k + 1 = at /\ k \in 1 .. n
    BY <1>1, <2>2, <2>3
  <2> QED
    BY <1>1, <1>3, <1>5, <2>1, <2>2, <2>4 DEF Adjacent
<1> QED
  BY <1>3, <1>8, <1>9, <1>10, <1>11, <1>12 DEF new

LEMMA Removing ==
    ASSUME NEW order \in Seq(Timer), NEW due \in [Timer -> Nat], NEW t \in Timer,
           SortedBy(due, order), InList(order, t)
    PROVE  LET new == ListRemove(order, t) IN
           /\ new \in Seq(Timer) /\ SortedBy(due, new)
           /\ \A u : InList(new, u) <=> u # t /\ InList(order, u)
           /\ \A a, b : Adjacent(order, a, b) /\ a # t /\ b # t => Adjacent(new, a, b)
           /\ \A a : LastOfItsTime(due, order, a) => LastOfItsTime(due, new, a)
<1> DEFINE n == Len(order)
           at == CHOOSE i \in Positions(order, t) : TRUE
           new == ListRemove(order, t)
<1>1. n \in Nat /\ DOMAIN order = 1 .. n /\ \A k \in 1 .. n : order[k] \in Timer
  BY LenProperties, ElementOfSeq
<1>2. at \in 1 .. n /\ order[at] = t
  <2>1. Positions(order, t) # {}
    BY <1>1 DEF InList, Positions
  <2>2. at \in Positions(order, t)
    BY <2>1, Zenon
  <2> QED
    BY <1>1, <2>2 DEF Positions
<1>3. new = SubSeq(order, 1, at - 1) \o SubSeq(order, at + 1, Len(order))
  BY DEF ListRemove
<1> HIDE DEF at, new
<1>4. /\ new \in Seq(Timer) /\ Len(new) = n - 1
      /\ \A k \in 1 .. at - 1 : new[k] = order[k]
      /\ \A k \in at .. n - 1 : new[k] = order[k + 1]
  <2>1. LET out == SubSeq(order, 1, at - 1) \o SubSeq(order, at + 1, Len(order)) IN
        /\ out \in Seq(Timer) /\ Len(out) = Len(order) - 1
        /\ \A k \in 1 .. at - 1 : out[k] = order[k]
        /\ \A k \in at .. Len(order) - 1 : out[k] = order[k + 1]
    BY <1>2, TakenOut
  <2> QED
    BY <1>3, <2>1
<1>5. \A k \in 1 .. n : order[k] = t => k = at
  <2>1. ASSUME NEW k \in 1 .. n, order[k] = t, k # at PROVE FALSE
    <3>1. k < at \/ at < k
      BY <1>1, <1>2, <2>1
    <3> QED
      BY <1>2, <2>1, <3>1 DEF SortedBy, n
  <2> QED
    BY <2>1
<1> HIDE DEF n
(* old positions and new ones *)
<1>6. \A k \in 1 .. n : \/ k < at /\ k \in 1 .. n - 1 /\ new[k] = order[k]
                        \/ k = at
                        \/ k > at /\ k - 1 \in 1 .. n - 1 /\ new[k - 1] = order[k]
  <2>1. ASSUME NEW k \in 1 .. n
        PROVE  \/ k < at /\ k \in 1 .. n - 1 /\ k \in 1 .. at - 1
               \/ k = at
               \/ k > at /\ k - 1 \in 1 .. n - 1 /\ k - 1 \in at .. n - 1
                  /\ k - 1 + 1 = k
    BY <1>1, <1>2
  <2> QED
    BY <1>4, <2>1
<1>7. \A k \in 1 .. n - 1 : \/ k < at /\ k \in 1 .. n /\ new[k] = order[k]
                            \/ k >= at /\ k + 1 \in 1 .. n /\ new[k] = order[k + 1]
  <2>1. ASSUME NEW k \in 1 .. n - 1
        PROVE  \/ k < at /\ k \in 1 .. n /\ k \in 1 .. at - 1
               \/ k >= at /\ k + 1 \in 1 .. n /\ k \in at .. n - 1
    BY <1>1, <1>2
  <2> QED
    BY <1>4, <2>1
(* two places keep their order *)
<1>8. ASSUME NEW j \in 1 .. n - 1, NEW k \in 1 .. n - 1, j < k
      PROVE  \E i, l \in 1 .. n : i < l /\ new[j] = order[i] /\ new[k] = order[l]
  <2>1. CASE k < at
    <3>1. j \in 1 .. n /\ k \in 1 .. n /\ j < at
      BY <1>1, <1>8, <2>1, <1>2
    <3>2. new[j] = order[j] /\ new[k] = order[k]
      BY <1>2, <1>7, <2>1, <3>1
    <3> QED
      BY <1>8, <3>1, <3>2
  <2>2. CASE k >= at /\ j < at
    <3>1. j \in 1 .. n /\ k + 1 \in 1 .. n /\ j < k + 1
      BY <1>1, <1>8, <2>2
    <3>2. new[j] = order[j] /\ new[k] = order[k + 1]
      BY <1>2, <1>7, <2>2
    <3> QED
      BY <3>1, <3>2
  <2>3. CASE j >= at
    <3>1. j + 1 \in 1 .. n /\ k + 1 \in 1 .. n /\ j + 1 < k + 1 /\ k >= at
      BY <1>1, <1>2, <1>8, <2>3
    <3>2. new[j] = order[j + 1] /\ new[k] = order[k + 1]
      BY <1>2, <1>7, <2>3, <3>1
    <3> QED
      BY <3>1, <3>2
  <2> QED
    BY <1>1, <1>2, <2>1, <2>2, <2>3
<1>9. SortedBy(due, new)
  <2>1. ASSUME NEW j \in 1 .. n - 1, NEW k \in 1 .. n - 1, j < k
        PROVE  due[new[j]] <= due[new[k]] /\ new[j] # new[k]
    <3>1. PICK i \in 1 .. n, l \in 1 .. n :
             i < l /\ new[j] = order[i] /\ new[k] = order[l]
      BY <1>8, <2>1
    <3> QED
      BY <3>1 DEF SortedBy, n
  <2> QED
    BY <1>4, <2>1 DEF SortedBy
<1>10. \A u : InList(new, u) <=> u # t /\ InList(order, u)
  <2>1. ASSUME NEW u, InList(new, u) PROVE u # t /\ InList(order, u)
    <3>1. PICK k \in 1 .. n - 1 : new[k] = u
      BY <1>4, <2>1 DEF InList
    <3>2. CASE k < at
      <4>1. k \in 1 .. n /\ order[k] = u /\ k # at
        BY <1>1, <1>2, <1>7, <3>1, <3>2
      <4> QED
        BY <1>5, <4>1 DEF InList, n
    <3>3. CASE k >= at
      <4>1. k + 1 \in 1 .. n /\ order[k + 1] = u /\ k + 1 # at
        BY <1>1, <1>2, <1>7, <3>1, <3>3
      <4> QED
        BY <1>5, <4>1 DEF InList, n
    <3> QED
      BY <1>1, <1>2, <3>2, <3>3
  <2>2. ASSUME NEW u, u # t, InList(order, u) PROVE InList(new, u)
    <3>1. PICK k \in 1 .. n : order[k] = u
      BY <2>2 DEF InList, n
    <3>2. k # at
      BY <1>2, <2>2, <3>1
    <3> QED
      BY <1>4, <1>6, <3>1, <3>2 DEF InList
  <2> QED
    BY <2>1, <2>2
<1>11. ASSUME NEW a, NEW b, Adjacent(order, a, b), a # t, b # t
       PROVE  Adjacent(new, a, b)
  <2>1. PICK k \in 1 .. n - 1 : order[k] = a /\ order[k + 1] = b
    BY <1>11 DEF Adjacent, n
  <2>2. k \in 1 .. n /\ k + 1 \in 1 .. n /\ k # at /\ k + 1 # at
    BY <1>1, <1>2, <1>11, <2>1
  <2>3. CASE k < at
    <3>1. k + 1 < at /\ k \in 1 .. n - 2
      BY <1>1, <1>2, <2>2, <2>3
    <3>2. new[k] = a
      BY <1>2, <1>6, <2>1, <2>2, <2>3
    <3>3. new[k + 1] = b
      BY <1>2, <1>6, <2>1, <2>2, <3>1
    <3> QED
      BY <1>1, <1>4, <3>1, <3>2, <3>3 DEF Adjacent
  <2>4. CASE k > at
    <3>1. /\ ~(k < at) /\ ~(k + 1 < at) /\ k - 1 \in 1 .. n - 2
          /\ (k + 1) - 1 = k /\ (k - 1) + 1 = k
      BY <1>1, <1>2, <2>2, <2>4
    <3>2. new[k - 1] = order[k] /\ new[(k + 1) - 1] = order[k + 1]
      BY <1>6, <2>2, <3>1, Zenon
    <3> QED
      BY <1>1, <1>4, <2>1, <3>1, <3>2 DEF Adjacent
  <2> QED
    BY <1>1, <1>2, <2>2, <2>3, <2>4
<1>12. ASSUME NEW a, LastOfItsTime(due, order, a) PROVE LastOfItsTime(due, new, a)
  <2>1. ASSUME NEW j \in 1 .. n - 1, NEW k \in 1 .. n - 1, new[j] = a, j < k
        PROVE  due[a] < due[new[k]]
    <3>1. PICK i \in 1 .. n, l \in 1 .. n :
             i < l /\ new[j] = order[i] /\ new[k] = order[l]
      BY <1>8, <2>1
    <3> QED
      BY <1>12, <2>1, <3>1 DEF LastOfItsTime, n
  <2> QED
    BY <1>4, <2>1 DEF LastOfItsTime
<1> QED
  BY <1>4, <1>9, <1>10, <1>11, <1>12 DEF new

(* Places in a sorted list are unique *)
LEMMA OnlyPlace ==
    ASSUME NEW order \in Seq(Timer), NEW due \in [Timer -> Nat], SortedBy(due, order),
           NEW j \in 1 .. Len(order), NEW k \in 1 .. Len(order), order[j] = order[k]
    PROVE  j = k
<1>1. j \in Nat /\ k \in Nat
  OBVIOUS
<1>2. CASE j < k
  BY <1>2 DEF SortedBy
<1>3. CASE k < j
  BY <1>3 DEF SortedBy
<1> QED
  BY <1>1, <1>2, <1>3

LEMMA Neighbours ==
    ASSUME NEW order \in Seq(Timer), NEW due \in [Timer -> Nat], SortedBy(due, order),
           NEW a, NEW b, Adjacent(order, a, b)
    PROVE  /\ InList(order, a) /\ InList(order, b) /\ order[1] # b /\ a # b
           /\ due[a] <= due[b]
           /\ \A c : Adjacent(order, c, b) => c = a
<1> DEFINE n == Len(order)
<1>1. n \in Nat
  BY LenProperties
<1>2. PICK k \in 1 .. n - 1 : order[k] = a /\ order[k + 1] = b
  BY DEF Adjacent
<1> HIDE DEF n
<1>3. k \in 1 .. n /\ k + 1 \in 1 .. n /\ 1 \in 1 .. n /\ k < k + 1 /\ k + 1 # 1
  BY <1>1
<1>4. due[order[k]] <= due[order[k + 1]] /\ order[k] # order[k + 1]
  BY <1>3 DEF SortedBy, n
<1>5. order[1] # b
  BY <1>2, <1>3, OnlyPlace DEF n
<1>6. ASSUME NEW c, Adjacent(order, c, b) PROVE c = a
  <2>1. PICK j \in 1 .. n - 1 : order[j] = c /\ order[j + 1] = b
    BY <1>6 DEF Adjacent, n
  <2>2. j + 1 \in 1 .. n
    BY <1>1
  <2>3. j + 1 = k + 1
    BY <1>2, <1>3, <2>1, <2>2, OnlyPlace DEF n
  <2>4. j = k
    BY <1>1, <2>3
  <2> QED
    BY <1>2, <2>1, <2>4
<1> QED
  BY <1>2, <1>3, <1>4, <1>5, <1>6 DEF InList, n

(* The time of a timer that is not in the list does not matter *)
LEMMA NewTime ==
    ASSUME NEW order \in Seq(Timer), NEW due \in [Timer -> Nat], SortedBy(due, order),
           NEW t \in Timer, NEW time \in Nat, ~InList(order, t)
    PROVE  LET other == [due EXCEPT ![t] = time] IN
           /\ other \in [Timer -> Nat] /\ SortedBy(other, order)
           /\ \A a : InList(order, a) => other[a] = due[a]
           /\ \A a : InList(order, a) /\ LastOfItsTime(due, order, a)
                      => LastOfItsTime(other, order, a)
<1> DEFINE n == Len(order)
           other == [due EXCEPT ![t] = time]
<1>1. \A k \in 1 .. n : order[k] \in Timer /\ order[k] # t
  BY ElementOfSeq DEF InList
<1>2. other \in [Timer -> Nat] /\ \A u \in Timer : u # t => other[u] = due[u]
  OBVIOUS
<1> HIDE DEF n, other
<1>3. \A k \in 1 .. n : other[order[k]] = due[order[k]]
  BY <1>1, <1>2
<1>4. SortedBy(other, order)
  BY <1>3 DEF SortedBy, n
<1>5. ASSUME NEW a, InList(order, a) PROVE other[a] = due[a]
  BY <1>3, <1>5 DEF InList, n
<1>6. ASSUME NEW a, InList(order, a), LastOfItsTime(due, order, a)
      PROVE  LastOfItsTime(other, order, a)
  BY <1>3, <1>5, <1>6 DEF LastOfItsTime, n
<1> QED
  BY <1>2, <1>4, <1>5, <1>6 DEF other

-----------------------------------------------------------------------------
(* What the functions of timer.c do to a queue *)

Queue == [order : Seq(Timer), due : [Timer -> Nat]]
Good(q) == q \in Queue /\ SortedBy(q.due, q.order)

LEMMA ArmedIsInList ==
    ASSUME NEW q \in Queue, NEW t
    PROVE  Armed(q, t) <=> InList(q.order, t)
<1>1. q.order \in Seq(Timer)
  BY DEF Queue
<1>2. DOMAIN q.order = 1 .. Len(q.order)
  BY <1>1, LenProperties
<1> QED
  BY <1>2 DEF Armed, Positions, InList

LEMMA SortedIsSortedBy ==
    ASSUME NEW q \in Queue, SortedBy(q.due, q.order)
    PROVE  Sorted(q)
<1>1. q.order \in Seq(Timer)
  BY DEF Queue
<1>2. DOMAIN q.order = 1 .. Len(q.order)
  BY <1>1, LenProperties
<1> QED
  BY <1>2 DEF Sorted, SortedBy

LEMMA FollowingIs ==
    ASSUME NEW q \in Queue, SortedBy(q.due, q.order), NEW t, InList(q.order, t)
    PROVE  LET f == Following(q, t) IN
           /\ f = NoTimer \/ Adjacent(q.order, t, f)
           /\ \A b : Adjacent(q.order, t, b) => f = b
<1> DEFINE order == q.order
           n == Len(order)
           i == CHOOSE j \in Positions(order, t) : TRUE
           f == Following(q, t)
<1>1. order \in Seq(Timer) /\ q.due \in [Timer -> Nat]
  BY DEF Queue
<1>2. n \in Nat /\ DOMAIN order = 1 .. n
  BY <1>1, LenProperties
<1>3. i \in 1 .. n /\ order[i] = t
  <2>1. Positions(order, t) # {}
    BY <1>2 DEF InList, Positions
  <2>2. i \in Positions(order, t)
    BY <2>1, Zenon
  <2> QED
    BY <1>2, <2>2 DEF Positions
<1>4. f = IF i = n THEN NoTimer ELSE order[i + 1]
  BY DEF Following
<1> HIDE DEF i, f
<1>5. f = NoTimer \/ Adjacent(order, t, f)
  <2>1. CASE i = n
    BY <1>4, <2>1
  <2>2. CASE i # n
    <3>1. i \in 1 .. n - 1
      BY <1>2, <1>3, <2>2
    <3> QED
      BY <1>3, <1>4, <2>2, <3>1 DEF Adjacent
  <2> QED
    BY <2>1, <2>2
<1>6. ASSUME NEW b, Adjacent(order, t, b) PROVE f = b
  <2>1. PICK k \in 1 .. n - 1 : order[k] = t /\ order[k + 1] = b
    BY <1>6 DEF Adjacent
  <2>2. k \in 1 .. n
    BY <1>2
  <2>3. k = i
    BY <1>1, <1>3, <2>1, <2>2, OnlyPlace
  <2>4. i # n
    BY <1>2, <2>3
  <2> QED
    BY <1>4, <2>1, <2>3, <2>4
<1> QED
  BY <1>5, <1>6 DEF f

LEMMA Cancelled ==
    ASSUME NEW q, Good(q), NEW t \in Timer, InList(q.order, t)
    PROVE  LET p == Cancel(q, t) IN
           /\ Good(p) /\ p.due = q.due
           /\ \A u : InList(p.order, u) <=> u # t /\ InList(q.order, u)
           /\ \A a, b : Adjacent(q.order, a, b) /\ a # t /\ b # t => Adjacent(p.order, a, b)
           /\ \A a : LastOfItsTime(q.due, q.order, a) => LastOfItsTime(p.due, p.order, a)
<1> DEFINE p == Cancel(q, t)
<1>1. q \in Queue /\ q.order \in Seq(Timer) /\ q.due \in [Timer -> Nat]
      /\ SortedBy(q.due, q.order)
  BY DEF Good, Queue
<1>2. p.order = ListRemove(q.order, t) /\ p.due = q.due
      /\ p = [order |-> ListRemove(q.order, t), due |-> q.due]
  BY <1>1 DEF Cancel, Queue
<1>3. LET new == ListRemove(q.order, t) IN
      /\ new \in Seq(Timer) /\ SortedBy(q.due, new)
      /\ \A u : InList(new, u) <=> u # t /\ InList(q.order, u)
      /\ \A a, b : Adjacent(q.order, a, b) /\ a # t /\ b # t => Adjacent(new, a, b)
      /\ \A a : LastOfItsTime(q.due, q.order, a) => LastOfItsTime(q.due, new, a)
  BY <1>1, Removing
<1> HIDE DEF p
<1>4. Good(p)
  BY <1>1, <1>2, <1>3 DEF Good, Queue
<1> QED
  BY <1>2, <1>3, <1>4 DEF p

(* tmr_create, of a timer that has none in the list *)
LEMMA Placed ==
    ASSUME NEW order \in Seq(Timer), NEW due \in [Timer -> Nat], SortedBy(due, order),
           NEW t \in Timer, NEW time \in Nat, ~InList(order, t)
    PROVE  LET later == [due EXCEPT ![t] = time]
               p == [order |-> ListAdd(order, later, t), due |-> later]
           IN
           /\ Good(p) /\ p.due[t] = time
           /\ \A u : InList(p.order, u) <=> u = t \/ InList(order, u)
           /\ \A u : InList(order, u) => p.due[u] = due[u]
           /\ LastOfItsTime(p.due, p.order, t)
           /\ \A a, b : Adjacent(order, a, b) /\ due[a] = due[b] => Adjacent(p.order, a, b)
           /\ \A a : /\ InList(order, a) /\ LastOfItsTime(due, order, a)
                     /\ due[a] = time
                     => Adjacent(p.order, a, t)
<1> DEFINE later == [due EXCEPT ![t] = time]
           new == ListAdd(order, later, t)
           p == [order |-> new, due |-> later]
<1>1. /\ later \in [Timer -> Nat] /\ SortedBy(later, order)
      /\ \A a : InList(order, a) => later[a] = due[a]
      /\ \A a : InList(order, a) /\ LastOfItsTime(due, order, a)
                 => LastOfItsTime(later, order, a)
  BY NewTime
<1>2. later[t] = time
  OBVIOUS
<1> HIDE DEF later
<1>3. /\ new \in Seq(Timer) /\ SortedBy(later, new)
      /\ \A u : InList(new, u) <=> u = t \/ InList(order, u)
      /\ LastOfItsTime(later, new, t)
      /\ \A a, b : Adjacent(order, a, b) /\ later[a] = later[b] => Adjacent(new, a, b)
      /\ \A a : /\ InList(order, a) /\ LastOfItsTime(later, order, a)
                /\ later[a] = later[t]
                => Adjacent(new, a, t)
  BY <1>1, Adding
<1> HIDE DEF new
<1>4. p.order = new /\ p.due = later /\ p \in Queue
  BY <1>1, <1>3 DEF Queue
<1>5. ASSUME NEW a, NEW b, Adjacent(order, a, b), due[a] = due[b]
      PROVE  Adjacent(new, a, b)
  <2>1. InList(order, a) /\ InList(order, b)
    BY <1>5, Neighbours
  <2> QED
    BY <1>1, <1>3, <1>5, <2>1
<1>6. ASSUME NEW a, InList(order, a), LastOfItsTime(due, order, a), due[a] = time
      PROVE  Adjacent(new, a, t)
  BY <1>1, <1>2, <1>3, <1>6
<1> HIDE DEF p
<1>7. Good(p)
  BY <1>1, <1>3, <1>4 DEF Good
<1> QED
  BY <1>1, <1>2, <1>3, <1>4, <1>5, <1>6, <1>7 DEF p, new, later

(* p is the list q after t has been put into it, to be due at time *)
Joins(q, p, t, time) ==
    /\ Good(p) /\ p.due[t] = time
    /\ \A u : InList(p.order, u) <=> u = t \/ InList(q.order, u)
    /\ \A u : InList(q.order, u) /\ u # t => p.due[u] = q.due[u]
    /\ LastOfItsTime(p.due, p.order, t)
    /\ \A a, b : /\ Adjacent(q.order, a, b) /\ q.due[a] = q.due[b]
                 /\ a # t /\ b # t
                 => Adjacent(p.order, a, b)
    /\ \A a : /\ InList(q.order, a) /\ a # t /\ q.due[a] = time
              /\ LastOfItsTime(q.due, q.order, a)
              => Adjacent(p.order, a, t)

(* tmr_create *)
LEMMA Created ==
    ASSUME NEW q, Good(q), NEW t \in Timer, ~InList(q.order, t),
           NEW from \in Nat, NEW usecs \in Nat
    PROVE  Joins(q, Create(q, t, from, usecs), t, from + usecs)
<1> DEFINE p == Create(q, t, from, usecs)
<1>1. PICK time \in Nat : time = from + usecs
  OBVIOUS
<1>2. q.order \in Seq(Timer) /\ q.due \in [Timer -> Nat] /\ SortedBy(q.due, q.order)
  BY DEF Good, Queue
<1>3. p = [order |-> ListAdd(q.order, [q.due EXCEPT ![t] = time], t),
           due |-> [q.due EXCEPT ![t] = time]]
  BY <1>1 DEF Create
<1> HIDE DEF p
<1>4. LET later == [q.due EXCEPT ![t] = time]
          r == [order |-> ListAdd(q.order, later, t), due |-> later]
      IN
      /\ Good(r) /\ r.due[t] = time
      /\ \A u : InList(r.order, u) <=> u = t \/ InList(q.order, u)
      /\ \A u : InList(q.order, u) => r.due[u] = q.due[u]
      /\ LastOfItsTime(r.due, r.order, t)
      /\ \A a, b : Adjacent(q.order, a, b) /\ q.due[a] = q.due[b] => Adjacent(r.order, a, b)
      /\ \A a : /\ InList(q.order, a) /\ LastOfItsTime(q.due, q.order, a)
                /\ q.due[a] = time
                => Adjacent(r.order, a, t)
  BY <1>2, Placed
<1>5. Joins(q, p, t, time)
  BY <1>3, <1>4 DEF Joins
<1> QED
  BY <1>1, <1>5 DEF p

(* list_resort after the time of a timer has been changed *)
LEMMA Moved ==
    ASSUME NEW q, Good(q), NEW t \in Timer, NEW time \in Nat, InList(q.order, t)
    PROVE  Joins(q, MoveTo(q, t, time), t, time)
<1> DEFINE p == MoveTo(q, t, time)
           out == ListRemove(q.order, t)
<1>1. q.order \in Seq(Timer) /\ q.due \in [Timer -> Nat] /\ SortedBy(q.due, q.order)
  BY DEF Good, Queue
<1>2. /\ out \in Seq(Timer) /\ SortedBy(q.due, out)
      /\ \A u : InList(out, u) <=> u # t /\ InList(q.order, u)
      /\ \A a, b : Adjacent(q.order, a, b) /\ a # t /\ b # t => Adjacent(out, a, b)
      /\ \A a : LastOfItsTime(q.due, q.order, a) => LastOfItsTime(q.due, out, a)
  BY <1>1, Removing
<1>3. p = [order |-> ListAdd(out, [q.due EXCEPT ![t] = time], t),
           due |-> [q.due EXCEPT ![t] = time]]
  BY DEF MoveTo
<1> HIDE DEF p, out
<1>4. LET later == [q.due EXCEPT ![t] = time]
          r == [order |-> ListAdd(out, later, t), due |-> later]
      IN
      /\ Good(r) /\ r.due[t] = time
      /\ \A u : InList(r.order, u) <=> u = t \/ InList(out, u)
      /\ \A u : InList(out, u) => r.due[u] = q.due[u]
      /\ LastOfItsTime(r.due, r.order, t)
      /\ \A a, b : Adjacent(out, a, b) /\ q.due[a] = q.due[b] => Adjacent(r.order, a, b)
      /\ \A a : /\ InList(out, a) /\ LastOfItsTime(q.due, out, a)
                /\ q.due[a] = time
                => Adjacent(r.order, a, t)
  BY <1>1, <1>2, Placed
<1>5. /\ Good(p) /\ p.due[t] = time
      /\ \A u : InList(p.order, u) <=> u = t \/ InList(out, u)
      /\ \A u : InList(out, u) => p.due[u] = q.due[u]
      /\ LastOfItsTime(p.due, p.order, t)
      /\ \A a, b : Adjacent(out, a, b) /\ q.due[a] = q.due[b] => Adjacent(p.order, a, b)
      /\ \A a : /\ InList(out, a) /\ LastOfItsTime(q.due, out, a)
                /\ q.due[a] = time
                => Adjacent(p.order, a, t)
  BY <1>3, <1>4
<1> QED
  BY <1>2, <1>5 DEF p, Joins

-----------------------------------------------------------------------------
(* The list of a host whose interval is i, while its tmr_run is at w and    *)
(* was called at time from: the statistics and the report are armed         *)
(* together, and the statistics stand right before the report but for the   *)
(* moment between the two                                                   *)
Together(q, w, i) ==
    IF w = "reporter"
    THEN /\ q.due["stats"] = q.due["reporter"] + i
         /\ LastOfItsTime(q.due, q.order, "stats")
    ELSE /\ q.due["stats"] = q.due["reporter"]
         /\ Adjacent(q.order, "stats", "reporter")

QueueInv(q, w, from, i) ==
    /\ Good(q)
    /\ w \in Timer \cup {NoTimer}
    /\ InList(q.order, "stats") <=> i > 0
    /\ InList(q.order, "reporter") <=> i > 0
    /\ w # NoTimer => InList(q.order, w) /\ q.due[w] <= from
    /\ i > 0 => Together(q, w, i)

(* Where tmr_run goes from a timer, once the callback has made the list q'  *)
Onward(q, next, from) == IF IsDue(q, next, from) THEN next ELSE NoTimer

LEMMA Onwards ==
    ASSUME NEW q, Good(q), NEW from \in Nat, NEW next,
           next = NoTimer \/ InList(q.order, next)
    PROVE  LET w == Onward(q, next, from) IN
           /\ w \in Timer \cup {NoTimer}
           /\ w # NoTimer => w = next /\ InList(q.order, w) /\ q.due[w] <= from
<1>1. q.order \in Seq(Timer)
  BY DEF Good, Queue
<1>2. \A u : InList(q.order, u) => u \in Timer
  BY <1>1, ElementOfSeq DEF InList
<1> QED
  BY <1>2 DEF Onward, IsDue, NoTimer

(* The timer of the test: cancelled, and the report does not come next *)
LEMMA WalkTimer ==
    ASSUME NEW q, NEW from \in Nat, NEW i \in Nat, NEW t \in {"timer", "omit"},
           QueueInv(q, t, from, i)
    PROVE  LET p == Cancel(q, t)
               w == Onward(p, Following(q, t), from)
           IN  /\ QueueInv(p, w, from, i) /\ w # "reporter"
               /\ InList(p.order, "omit") => InList(q.order, "omit")
<1> DEFINE p == Cancel(q, t)
           f == Following(q, t)
           w == Onward(p, f, from)
<1>1. /\ Good(q) /\ t \in Timer /\ InList(q.order, t) /\ q \in Queue
      /\ q.order \in Seq(Timer) /\ q.due \in [Timer -> Nat] /\ SortedBy(q.due, q.order)
  BY DEF QueueInv, Good, Queue, Timer, NoTimer
<1>2. /\ Good(p) /\ p.due = q.due
      /\ \A u : InList(p.order, u) <=> u # t /\ InList(q.order, u)
      /\ \A a, b : Adjacent(q.order, a, b) /\ a # t /\ b # t => Adjacent(p.order, a, b)
  BY <1>1, Cancelled
<1>3. f = NoTimer \/ Adjacent(q.order, t, f)
  BY <1>1, FollowingIs
<1> HIDE DEF p, f, w
<1>4. f = NoTimer \/ InList(p.order, f)
  BY <1>1, <1>2, <1>3, Neighbours
<1>5. /\ w \in Timer \cup {NoTimer}
      /\ w # NoTimer => w = f /\ InList(p.order, w) /\ p.due[w] <= from
  BY <1>2, <1>4, Onwards DEF w
<1>6. i > 0 => Adjacent(q.order, "stats", "reporter") /\ q.due["stats"] = q.due["reporter"]
  BY DEF QueueInv, Together, NoTimer
<1>7. i > 0 => w # "reporter"
  <2>1. ASSUME i > 0, w = "reporter" PROVE FALSE
    <3>1. Adjacent(q.order, t, "reporter")
      BY <1>3, <1>5, <2>1 DEF NoTimer
    <3>2. t = "stats"
      BY <1>1, <1>6, <2>1, <3>1, Neighbours
    <3> QED
      BY <3>2
  <2> QED
    BY <2>1
<1>8. i > 0 => Together(p, w, i)
  BY <1>2, <1>6, <1>7 DEF Together
<1>9. QueueInv(p, w, from, i)
  BY <1>1, <1>2, <1>5, <1>8 DEF QueueInv
<1>10. w # "reporter"
  BY <1>7, <1>9 DEF QueueInv, NoTimer
<1> QED
  BY <1>2, <1>9, <1>10 DEF p, w, f

(* The statistics: they move, and the report is next *)
LEMMA WalkStats ==
    ASSUME NEW q, NEW from \in Nat, NEW i \in Nat, QueueInv(q, "stats", from, i)
    PROVE  LET p == Reschedule(q, "stats", i)
               w == Onward(p, Following(q, "stats"), from)
           IN  /\ i > 0 /\ QueueInv(p, w, from, i) /\ w = "reporter"
               /\ InList(p.order, "omit") => InList(q.order, "omit")
<1> DEFINE p == Reschedule(q, "stats", i)
           f == Following(q, "stats")
           w == Onward(p, f, from)
<1>1. /\ Good(q) /\ "stats" \in Timer /\ InList(q.order, "stats") /\ q \in Queue /\ i > 0
      /\ q.order \in Seq(Timer) /\ q.due \in [Timer -> Nat] /\ SortedBy(q.due, q.order)
      /\ Adjacent(q.order, "stats", "reporter") /\ q.due["stats"] = q.due["reporter"]
      /\ q.due["stats"] <= from /\ InList(q.order, "reporter")
  BY DEF QueueInv, Good, Queue, Timer, NoTimer, Together
<1>2. PICK time \in Nat : time = q.due["stats"] + i
  BY <1>1
<1>3. p = MoveTo(q, "stats", time)
  BY <1>2 DEF Reschedule
<1> HIDE DEF p, f, w
<1>4. /\ Good(p) /\ p.due["stats"] = time
      /\ \A u : InList(p.order, u) <=> InList(q.order, u)
      /\ \A u : InList(q.order, u) /\ u # "stats" => p.due[u] = q.due[u]
      /\ LastOfItsTime(p.due, p.order, "stats")
  <2>1. Joins(q, p, "stats", time)
    BY <1>1, <1>2, <1>3, Moved
  <2> QED
    BY <1>1, <2>1 DEF Joins
<1>5. f = "reporter"
  BY <1>1, FollowingIs DEF f
<1>6. p.due["reporter"] = q.due["reporter"]
  BY <1>1, <1>4
<1>7. w = "reporter"
  BY <1>1, <1>5, <1>6 DEF w, Onward, IsDue, NoTimer
<1>8. Together(p, "reporter", i)
  BY <1>1, <1>2, <1>4, <1>6 DEF Together
<1>9. QueueInv(p, w, from, i)
  BY <1>1, <1>4, <1>6, <1>7, <1>8 DEF QueueInv, Timer
<1> QED
  BY <1>1, <1>4, <1>7, <1>9 DEF p, f, w

(* The report: it joins the statistics again *)
LEMMA WalkReporter ==
    ASSUME NEW q, NEW from \in Nat, NEW i \in Nat, QueueInv(q, "reporter", from, i)
    PROVE  LET p == Reschedule(q, "reporter", i)
               w == Onward(p, Following(q, "reporter"), from)
           IN  /\ i > 0 /\ QueueInv(p, w, from, i) /\ w # "reporter"
               /\ InList(p.order, "omit") => InList(q.order, "omit")
<1> DEFINE p == Reschedule(q, "reporter", i)
           f == Following(q, "reporter")
           w == Onward(p, f, from)
<1>1. /\ Good(q) /\ "reporter" \in Timer /\ InList(q.order, "reporter") /\ q \in Queue
      /\ q.order \in Seq(Timer) /\ q.due \in [Timer -> Nat] /\ SortedBy(q.due, q.order)
      /\ i > 0 /\ q.due["stats"] = q.due["reporter"] + i
      /\ LastOfItsTime(q.due, q.order, "stats") /\ InList(q.order, "stats")
  BY DEF QueueInv, Good, Queue, Timer, NoTimer, Together
<1>2. PICK time \in Nat : time = q.due["reporter"] + i
  BY <1>1
<1>3. p = MoveTo(q, "reporter", time)
  BY <1>2 DEF Reschedule
<1> HIDE DEF p, f, w
<1>4. /\ Good(p) /\ p.due["reporter"] = time
      /\ \A u : InList(p.order, u) <=> InList(q.order, u)
      /\ \A u : InList(q.order, u) /\ u # "reporter" => p.due[u] = q.due[u]
      /\ \A a : /\ InList(q.order, a) /\ a # "reporter"
                /\ q.due[a] = time
                /\ LastOfItsTime(q.due, q.order, a)
                => Adjacent(p.order, a, "reporter")
  <2>1. Joins(q, p, "reporter", time)
    BY <1>1, <1>2, <1>3, Moved
  <2> QED
    BY <1>1, <2>1 DEF Joins
<1>5. p.due["stats"] = p.due["reporter"] /\ Adjacent(p.order, "stats", "reporter")
  BY <1>1, <1>2, <1>4
<1>6. f = NoTimer \/ Adjacent(q.order, "reporter", f)
  BY <1>1, FollowingIs DEF f
<1>7. f = NoTimer \/ InList(p.order, f)
  BY <1>1, <1>4, <1>6, Neighbours
<1>8. f # "reporter"
  BY <1>1, <1>6, Neighbours DEF NoTimer
<1>9. /\ w \in Timer \cup {NoTimer} /\ w # "reporter"
      /\ w # NoTimer => InList(p.order, w) /\ p.due[w] <= from
  BY <1>4, <1>7, <1>8, Onwards DEF w, NoTimer
<1>10. Together(p, w, i)
  BY <1>5, <1>9 DEF Together
<1>11. QueueInv(p, w, from, i)
  BY <1>1, <1>4, <1>9, <1>10 DEF QueueInv
<1> QED
  BY <1>1, <1>4, <1>9, <1>11 DEF p, f, w

(* The end of omitting: both move to one time, the report behind *)
LEMMA BothReset ==
    ASSUME NEW q, NEW from \in Nat, NEW i \in Nat, QueueInv(q, "omit", from, i)
    PROVE  LET p == Reset(Reset(q, "stats", from, i), "reporter", from, i) IN
           QueueInv(p, "omit", from, i) /\ \A u : InList(p.order, u) <=> InList(q.order, u)
<1> DEFINE m == Reset(q, "stats", from, i)
           p == Reset(m, "reporter", from, i)
<1>1. /\ Good(q) /\ q \in Queue /\ "stats" \in Timer /\ "reporter" \in Timer
      /\ InList(q.order, "omit") /\ q.due["omit"] <= from
      /\ InList(q.order, "stats") <=> i > 0
      /\ InList(q.order, "reporter") <=> i > 0
  BY DEF QueueInv, Good, Timer, NoTimer
<1>2. CASE i = 0
  <2>1. m = q
    BY <1>1, <1>2, ArmedIsInList DEF Reset
  <2>2. p = q
    BY <1>1, <1>2, <2>1, ArmedIsInList DEF Reset
  <2> QED
    BY <2>2
<1>3. CASE i > 0
  <2>1. PICK time \in Nat : time = from + i
    OBVIOUS
  <2>2. m = MoveTo(q, "stats", time)
    BY <1>1, <1>3, <2>1, ArmedIsInList DEF Reset
  <2>3. Joins(q, m, "stats", time)
    BY <1>1, <1>3, <2>2, Moved
  <2> HIDE DEF m, p
  <2>4. /\ Good(m) /\ m \in Queue /\ m.due["stats"] = time
        /\ \A u : InList(m.order, u) <=> InList(q.order, u)
        /\ \A u : InList(q.order, u) /\ u # "stats" => m.due[u] = q.due[u]
        /\ LastOfItsTime(m.due, m.order, "stats")
    BY <1>1, <1>3, <2>3 DEF Joins, Good
  <2>5. p = MoveTo(m, "reporter", time)
    BY <1>1, <1>3, <2>1, <2>4, ArmedIsInList DEF Reset, p
  <2>6. Joins(m, p, "reporter", time)
    BY <1>1, <1>3, <2>4, <2>5, Moved
  <2>7. /\ Good(p) /\ p.due["reporter"] = time
        /\ \A u : InList(p.order, u) <=> InList(m.order, u)
        /\ \A u : InList(m.order, u) /\ u # "reporter" => p.due[u] = m.due[u]
        /\ \A a : /\ InList(m.order, a) /\ a # "reporter" /\ m.due[a] = time
                  /\ LastOfItsTime(m.due, m.order, a)
                  => Adjacent(p.order, a, "reporter")
    BY <1>1, <1>3, <2>4, <2>6 DEF Joins
  <2>8. InList(m.order, "stats") /\ p.due["stats"] = time /\ p.due["omit"] = q.due["omit"]
    BY <1>1, <1>3, <2>4, <2>7
  <2>9. Adjacent(p.order, "stats", "reporter")
    BY <2>4, <2>7, <2>8
  <2>10. Together(p, "omit", i)
    BY <2>7, <2>8, <2>9 DEF Together
  <2>11. QueueInv(p, "omit", from, i)
    BY <1>1, <2>4, <2>7, <2>8, <2>10 DEF QueueInv, Timer
  <2> QED
    BY <2>4, <2>7, <2>11 DEF p, m
<1> QED
  BY <1>2, <1>3

LEMMA WalkOmit ==
    ASSUME NEW q, NEW from \in Nat, NEW i \in Nat, QueueInv(q, "omit", from, i)
    PROVE  LET m == Reset(Reset(q, "stats", from, i), "reporter", from, i)
               p == Cancel(m, "omit")
               w == Onward(p, Following(q, "omit"), from)
           IN  /\ QueueInv(p, w, from, i) /\ w # "reporter"
               /\ ~InList(p.order, "omit")
<1> DEFINE m == Reset(Reset(q, "stats", from, i), "reporter", from, i)
           p == Cancel(m, "omit")
           f == Following(q, "omit")
           w == Onward(p, f, from)
<1>1. QueueInv(m, "omit", from, i) /\ \A u : InList(m.order, u) <=> InList(q.order, u)
  BY BothReset
<1>2. /\ Good(q) /\ q \in Queue /\ "omit" \in Timer /\ InList(q.order, "omit")
      /\ q.order \in Seq(Timer) /\ q.due \in [Timer -> Nat] /\ SortedBy(q.due, q.order)
  BY DEF QueueInv, Good, Queue, Timer, NoTimer
<1>3. f = NoTimer \/ Adjacent(q.order, "omit", f)
  BY <1>2, FollowingIs
<1> HIDE DEF m, f
<1>4. Good(m) /\ InList(m.order, "omit")
  BY <1>1 DEF QueueInv, NoTimer
<1>5. /\ Good(p) /\ p.due = m.due
      /\ \A u : InList(p.order, u) <=> u # "omit" /\ InList(m.order, u)
      /\ \A a, b : /\ Adjacent(m.order, a, b) /\ a # "omit" /\ b # "omit"
                   => Adjacent(p.order, a, b)
  BY <1>2, <1>4, Cancelled
<1> HIDE DEF p, w
<1>6. f = NoTimer \/ InList(p.order, f)
  BY <1>1, <1>2, <1>3, <1>5, Neighbours
<1>7. /\ w \in Timer \cup {NoTimer}
      /\ w # NoTimer => w = f /\ InList(p.order, w) /\ p.due[w] <= from
  BY <1>5, <1>6, Onwards DEF w
<1>8. i > 0 => Adjacent(q.order, "stats", "reporter")
  BY DEF QueueInv, Together
<1>9. i > 0 => Adjacent(m.order, "stats", "reporter") /\ m.due["stats"] = m.due["reporter"]
  BY <1>1 DEF QueueInv, Together
<1>10. i > 0 => w # "reporter"
  <2>1. ASSUME i > 0, w = "reporter" PROVE FALSE
    <3>1. Adjacent(q.order, "omit", "reporter")
      BY <1>3, <1>7, <2>1 DEF NoTimer
    <3> QED
      BY <1>2, <1>8, <2>1, <3>1, Neighbours
  <2> QED
    BY <2>1
<1>11. i > 0 => Together(p, w, i)
  BY <1>5, <1>9, <1>10 DEF Together
<1>12. QueueInv(p, w, from, i)
  BY <1>1, <1>5, <1>7, <1>11 DEF QueueInv
<1>13. w # "reporter"
  BY <1>10, <1>12 DEF QueueInv, NoTimer
<1> QED
  BY <1>5, <1>12, <1>13 DEF p, m, f, w

(* tmr_run begins with the first timer: it is not the report *)
LEMMA WalkStarts ==
    ASSUME NEW q, NEW from \in Nat, NEW i \in Nat, NEW was \in Nat,
           QueueInv(q, NoTimer, was, i), IsDue(q, First(q), from)
    PROVE  QueueInv(q, First(q), from, i) /\ First(q) # "reporter"
<1>1. /\ Good(q) /\ q.order \in Seq(Timer) /\ q.due \in [Timer -> Nat]
      /\ SortedBy(q.due, q.order)
  BY DEF QueueInv, Good, Queue
<1>2. q.order # <<>> /\ First(q) = Head(q.order) /\ q.due[First(q)] <= from
  BY DEF IsDue, First, NoTimer
<1>3. First(q) = q.order[1] /\ First(q) \in Timer /\ InList(q.order, First(q))
  <2>1. Len(q.order) \in Nat /\ Len(q.order) # 0 /\ Head(q.order) = q.order[1]
    BY <1>1, <1>2, EmptySeq, LenProperties, HeadTailProperties
  <2>2. 1 \in 1 .. Len(q.order)
    BY <2>1
  <2>3. q.order[1] \in Timer
    BY <1>1, <2>2, ElementOfSeq
  <2> QED
    BY <1>2, <2>1, <2>2, <2>3 DEF InList
<1>4. i > 0 => Adjacent(q.order, "stats", "reporter") /\ q.due["stats"] = q.due["reporter"]
  BY DEF QueueInv, Together, NoTimer
<1>5. First(q) # "reporter"
  <2>1. CASE i > 0
    BY <1>1, <1>3, <1>4, <2>1, Neighbours
  <2>2. CASE ~(i > 0)
    BY <1>3, <2>2 DEF QueueInv
  <2> QED
    BY <2>1, <2>2
<1> QED
  BY <1>1, <1>2, <1>3, <1>4, <1>5 DEF QueueInv, Together

(* create_client_timers and create_client_omit_timer, on the server alike *)
LEMMA Creating ==
    ASSUME NEW s \in Setups, NEW h \in Host
    PROVE  LET q == CreateOmitTimer(s, h, CreateTimers(s, h)) IN
           /\ QueueInv(q, NoTimer, 0, s.interval[h])
           /\ InList(q.order, "omit") => s.omit # 0
<1> DEFINE i == s.interval[h]
           due0 == [t \in Timer |-> 0]
           empty == [order |-> <<>>, due |-> due0]
           end == s.duration + s.omit + IF h = "server" THEN Grace ELSE 0
           q1 == Create(empty, "timer", 0, end)
           q2 == Create(q1, "stats", 0, i)
           q3 == Create(q2, "reporter", 0, i)
           qi == IF i = 0 THEN q1 ELSE q3
           q == CreateOmitTimer(s, h, qi)
<1>1. i \in Nat /\ end \in Nat /\ s.omit \in Nat /\ s.late[h] \in Nat
  BY TransferAssumption DEF Host
<1>2. /\ "timer" \in Timer /\ "stats" \in Timer /\ "reporter" \in Timer
      /\ "omit" \in Timer
  BY DEF Timer
<1>3. q = CreateOmitTimer(s, h, CreateTimers(s, h))
  BY DEF CreateTimers
<1> HIDE DEF i, end, q
<1>5. Good(empty) /\ \A u : ~InList(empty.order, u)
  <2>1. empty.order = <<>> /\ empty.due = due0 /\ due0 \in [Timer -> Nat]
    OBVIOUS
  <2>2. <<>> \in Seq(Timer) /\ Len(<<>>) = 0
    OBVIOUS
  <2>3. SortedBy(empty.due, empty.order) /\ \A u : ~InList(empty.order, u)
    BY <2>1, <2>2 DEF SortedBy, InList
  <2> QED
    BY <2>1, <2>2, <2>3 DEF Good, Queue
<1> HIDE DEF empty
<1>6. Good(q1) /\ \A u : InList(q1.order, u) <=> u = "timer"
  <2>1. Joins(empty, q1, "timer", 0 + end)
    BY <1>1, <1>2, <1>5, Created
  <2> QED
    BY <1>5, <2>1 DEF Joins
<1> HIDE DEF q1
<1>7. /\ Good(q2) /\ q2.due["stats"] = i
      /\ \A u : InList(q2.order, u) <=> u = "stats" \/ u = "timer"
      /\ LastOfItsTime(q2.due, q2.order, "stats")
  <2>1. Joins(q1, q2, "stats", 0 + i)
    BY <1>1, <1>2, <1>6, Created
  <2> QED
    BY <1>1, <1>6, <2>1 DEF Joins
<1> HIDE DEF q2
<1>8. /\ Good(q3) /\ q3.due["reporter"] = i /\ q3.due["stats"] = i
      /\ \A u : InList(q3.order, u) <=> u \in {"reporter", "stats", "timer"}
      /\ Adjacent(q3.order, "stats", "reporter")
  <2>1. Joins(q2, q3, "reporter", 0 + i)
    BY <1>1, <1>2, <1>7, Created
  <2> QED
    BY <1>1, <1>7, <2>1 DEF Joins
<1> HIDE DEF q3
<1>9. /\ Good(qi) /\ ~InList(qi.order, "omit")
      /\ InList(qi.order, "stats") <=> i > 0
      /\ InList(qi.order, "reporter") <=> i > 0
      /\ i > 0 => /\ qi.due["stats"] = qi.due["reporter"]
                  /\ Adjacent(qi.order, "stats", "reporter")
  BY <1>1, <1>6, <1>8
<1> HIDE DEF qi
<1>10. CASE s.omit = 0
  <2>1. q = qi
    BY <1>10 DEF q, CreateOmitTimer
  <2> QED
    BY <1>3, <1>9, <1>10, <2>1 DEF QueueInv, Together, NoTimer, i
<1>11. CASE s.omit # 0
  <2>1. q = Create(qi, "omit", s.late[h], s.omit)
    BY <1>11 DEF q, CreateOmitTimer
  <2>2. /\ Good(q)
        /\ \A u : InList(q.order, u) <=> u = "omit" \/ InList(qi.order, u)
        /\ \A u : InList(qi.order, u) /\ u # "omit" => q.due[u] = qi.due[u]
        /\ \A a, b : /\ Adjacent(qi.order, a, b) /\ qi.due[a] = qi.due[b]
                     /\ a # "omit" /\ b # "omit"
                     => Adjacent(q.order, a, b)
    <3>1. Joins(qi, q, "omit", s.late[h] + s.omit)
      BY <1>1, <1>2, <1>9, <2>1, Created
    <3> QED
      BY <1>9, <3>1 DEF Joins
  <2> QED
    BY <1>3, <1>9, <1>11, <2>2 DEF QueueInv, Together, NoTimer, i
<1> QED
  BY <1>10, <1>11

-----------------------------------------------------------------------------
(* The timers of both hosts *)

Walk == [at : Timer \cup {NoTimer}, now : Nat]

QueuesInv ==
    /\ setup \in Setups /\ now \in Nat
    /\ queue \in [Host -> Queue] /\ walk \in [Host -> Walk]
    /\ \A h \in Host :
         /\ QueueInv(queue[h], walk[h].at, walk[h].now, setup.interval[h])
         /\ walk[h].at = NoTimer => walk[h] = Idle
         /\ InList(queue[h].order, "omit") => setup.omit # 0

LEMMA Intervals ==
    ASSUME setup \in Setups, NEW h \in Host
    PROVE  setup.interval[h] \in Nat
  BY TransferAssumption DEF Host

LEMMA QueuesInit == Init => QueuesInv
<1> SUFFICES ASSUME Init PROVE QueuesInv
  OBVIOUS
<1>1. setup \in Setups /\ now = 0 /\ walk = [h \in Host |-> Idle]
      /\ queue = [h \in Host |-> CreateOmitTimer(setup, h, CreateTimers(setup, h))]
  BY DEF Init
<1>2. Idle \in Walk /\ Idle.at = NoTimer /\ Idle.now = 0
  BY DEF Idle, Walk
<1>3. ASSUME NEW h \in Host
      PROVE  /\ queue[h] \in Queue /\ walk[h] = Idle
             /\ QueueInv(queue[h], walk[h].at, walk[h].now, setup.interval[h])
             /\ InList(queue[h].order, "omit") => setup.omit # 0
  <2>1. /\ QueueInv(queue[h], NoTimer, 0, setup.interval[h])
        /\ InList(queue[h].order, "omit") => setup.omit # 0
    BY <1>1, <1>3, Creating
  <2>2. walk[h] = Idle /\ queue[h] \in Queue
    BY <1>1, <2>1 DEF QueueInv, Good
  <2> QED
    BY <1>2, <2>1, <2>2
<1>4. queue \in [Host -> Queue] /\ walk \in [Host -> Walk]
  BY <1>1, <1>2, <1>3
<1> QED
  BY <1>1, <1>3, <1>4 DEF QueuesInv

(* tmr_run at one host leaves the other alone *)
LEMMA OneWalks ==
    ASSUME QueuesInv, NEW h \in Host, NEW p, NEW w, NEW from \in Nat,
           QueueInv(p, w, from, setup.interval[h]),
           InList(p.order, "omit") => InList(queue[h].order, "omit"),
           UNCHANGED <<setup, now>>,
           queue' = [queue EXCEPT ![h] = p],
           walk' = [walk EXCEPT ![h] = IF w = NoTimer THEN Idle ELSE [at |-> w, now |-> from]]
    PROVE  QueuesInv' /\ walk'[h].at = w /\ queue'[h] = p
<1> DEFINE a == IF w = NoTimer THEN Idle ELSE [at |-> w, now |-> from]
<1>1. p \in Queue /\ a \in Walk /\ a.at = w /\ (w = NoTimer => a = Idle)
      /\ (w # NoTimer => a.now = from)
  BY DEF QueueInv, Good, Walk, Idle
<1>2. QueueInv(p, a.at, a.now, setup.interval[h])
  BY <1>1 DEF QueueInv, Together
<1> HIDE DEF a
<1>3. walk' = [walk EXCEPT ![h] = a]
  BY DEF a
<1>4. queue' \in [Host -> Queue] /\ walk' \in [Host -> Walk]
  BY <1>1, <1>3 DEF QueuesInv
<1>5. \A k \in Host : /\ queue'[k] = IF k = h THEN p ELSE queue[k]
                      /\ walk'[k] = IF k = h THEN a ELSE walk[k]
  BY <1>3 DEF QueuesInv
<1>6. ASSUME NEW k \in Host
      PROVE  /\ QueueInv(queue'[k], walk'[k].at, walk'[k].now, setup.interval[k])
             /\ walk'[k].at = NoTimer => walk'[k] = Idle
             /\ InList(queue'[k].order, "omit") => setup.omit # 0
  <2>1. CASE k = h
    BY <1>1, <1>2, <1>5, <2>1 DEF QueuesInv
  <2>2. CASE k # h
    BY <1>5, <2>2 DEF QueuesInv
  <2> QED
    BY <2>1, <2>2
<1> QED
  BY <1>1, <1>4, <1>5, <1>6 DEF QueuesInv

LEMMA WalkedOn ==
    ASSUME QueuesInv, NEW h \in Host, NEW after, Walked(h, after), UNCHANGED <<setup, now>>,
           walk[h].at # NoTimer,
           NEW p, p = IF Period(h, walk[h].at) > 0
                      THEN Reschedule(after, walk[h].at, Period(h, walk[h].at))
                      ELSE Cancel(after, walk[h].at),
           NEW w, w = Onward(p, Following(queue[h], walk[h].at), walk[h].now),
           QueueInv(p, w, walk[h].now, setup.interval[h]),
           InList(p.order, "omit") => InList(queue[h].order, "omit")
    PROVE  QueuesInv' /\ walk'[h].at = w /\ queue'[h] = p
<1> DEFINE next == Following(queue[h], walk[h].at)
           from == walk[h].now
<1>1. walk[h] \in Walk /\ walk \in [Host -> Walk] /\ from \in Nat
  BY DEF QueuesInv, Walk
<1>2. queue' = [queue EXCEPT ![h] = p]
  BY DEF Walked
<1>3. walk' = [walk EXCEPT ![h] = IF IsDue(p, next, walk[h].now)
                                  THEN [walk[h] EXCEPT !.at = next] ELSE Idle]
  BY DEF Walked
<1>4. [walk[h] EXCEPT !.at = next] = [at |-> next, now |-> from]
  BY <1>1 DEF Walk
<1>5. IF w = NoTimer THEN ~IsDue(p, next, from) ELSE IsDue(p, next, from) /\ w = next
  BY DEF Onward, IsDue
<1> HIDE DEF next, from
<1>6. walk' = [walk EXCEPT ![h] = IF w = NoTimer THEN Idle ELSE [at |-> w, now |-> from]]
  BY <1>3, <1>4, <1>5 DEF from
<1>7. from \in Nat /\ QueueInv(p, w, from, setup.interval[h])
  BY <1>1 DEF from
<1> QED
  BY <1>2, <1>6, <1>7, OneWalks

LEMMA Periods ==
    ASSUME setup \in Setups, NEW h \in Host
    PROVE  /\ Period(h, "timer") = 0 /\ Period(h, "omit") = 0
           /\ Period(h, "stats") = setup.interval[h] /\ Period(h, "reporter") = setup.interval[h]
           /\ setup.interval[h] \in Nat
  BY Intervals DEF Period

(* What tmr_run does next, after each callback *)
LEMMA AfterTimer ==
    ASSUME QueuesInv, NEW h \in Host, walk[h].at = "timer", Walked(h, queue[h]),
           UNCHANGED <<setup, now>>
    PROVE  /\ QueuesInv' /\ walk'[h].at # "reporter"
           /\ InList(queue'[h].order, "omit") => InList(queue[h].order, "omit")
<1> DEFINE q == queue[h]
           from == walk[h].now
           i == setup.interval[h]
           p == Cancel(q, "timer")
           w == Onward(p, Following(q, "timer"), from)
<1>1. QueueInv(q, "timer", from, i) /\ from \in Nat /\ i \in Nat /\ ~(Period(h, "timer") > 0)
  BY Periods DEF QueuesInv, Walk
<1>2. /\ QueueInv(p, w, from, i) /\ w # "reporter"
      /\ InList(p.order, "omit") => InList(q.order, "omit")
  BY <1>1, WalkTimer
<1>3. QueuesInv' /\ walk'[h].at = w /\ queue'[h] = p
  BY <1>1, <1>2, WalkedOn DEF NoTimer
<1> QED
  BY <1>2, <1>3

LEMMA AfterStats ==
    ASSUME QueuesInv, NEW h \in Host, walk[h].at = "stats", Walked(h, queue[h]),
           UNCHANGED <<setup, now>>
    PROVE  /\ QueuesInv' /\ walk'[h].at = "reporter"
           /\ InList(queue'[h].order, "omit") => InList(queue[h].order, "omit")
<1> DEFINE q == queue[h]
           from == walk[h].now
           i == setup.interval[h]
           p == Reschedule(q, "stats", i)
           w == Onward(p, Following(q, "stats"), from)
<1>1. QueueInv(q, "stats", from, i) /\ from \in Nat /\ i \in Nat /\ Period(h, "stats") = i
  BY Periods DEF QueuesInv, Walk
<1>2. /\ i > 0 /\ QueueInv(p, w, from, i) /\ w = "reporter"
      /\ InList(p.order, "omit") => InList(q.order, "omit")
  BY <1>1, WalkStats
<1>3. QueuesInv' /\ walk'[h].at = w /\ queue'[h] = p
  BY <1>1, <1>2, WalkedOn DEF NoTimer
<1> QED
  BY <1>2, <1>3

LEMMA AfterReporter ==
    ASSUME QueuesInv, NEW h \in Host, walk[h].at = "reporter", Walked(h, queue[h]),
           UNCHANGED <<setup, now>>
    PROVE  /\ QueuesInv' /\ walk'[h].at # "reporter"
           /\ InList(queue'[h].order, "omit") => InList(queue[h].order, "omit")
<1> DEFINE q == queue[h]
           from == walk[h].now
           i == setup.interval[h]
           p == Reschedule(q, "reporter", i)
           w == Onward(p, Following(q, "reporter"), from)
<1>1. QueueInv(q, "reporter", from, i) /\ from \in Nat /\ i \in Nat /\ Period(h, "reporter") = i
  BY Periods DEF QueuesInv, Walk
<1>2. /\ i > 0 /\ QueueInv(p, w, from, i) /\ w # "reporter"
      /\ InList(p.order, "omit") => InList(q.order, "omit")
  BY <1>1, WalkReporter
<1>3. QueuesInv' /\ walk'[h].at = w /\ queue'[h] = p
  BY <1>1, <1>2, WalkedOn DEF NoTimer
<1> QED
  BY <1>2, <1>3

LEMMA AfterOmit ==
    ASSUME QueuesInv, NEW h \in Host, walk[h].at = "omit", OmitTimer(h)
    PROVE  /\ QueuesInv' /\ walk'[h].at # "reporter" /\ setup.omit # 0
           /\ ~InList(queue'[h].order, "omit")
<1> DEFINE q == queue[h]
           from == walk[h].now
           i == setup.interval[h]
           m == Reset(Reset(q, "stats", from, i), "reporter", from, i)
           p == Cancel(m, "omit")
           w == Onward(p, Following(q, "omit"), from)
<1>1. QueueInv(q, "omit", from, i) /\ from \in Nat /\ i \in Nat /\ ~(Period(h, "omit") > 0)
  BY Periods DEF QueuesInv, Walk
<1>2. QueueInv(p, w, from, i) /\ w # "reporter" /\ ~InList(p.order, "omit")
  BY <1>1, WalkOmit
<1>3. Walked(h, m) /\ UNCHANGED <<setup, now>>
  BY DEF OmitTimer
<1>4. QueuesInv' /\ walk'[h].at = w /\ queue'[h] = p
  BY <1>1, <1>2, <1>3, WalkedOn DEF NoTimer
<1>5. setup.omit # 0
  BY <1>1 DEF QueuesInv, QueueInv, NoTimer
<1> QED
  BY <1>2, <1>4, <1>5

LEMMA AfterStart ==
    ASSUME QueuesInv, NEW h \in Host, StartWalk(h)
    PROVE  QueuesInv' /\ walk'[h].at # "reporter"
<1> DEFINE q == queue[h]
           w == First(q)
<1>1. /\ walk[h] = Idle /\ IsDue(q, w, now) /\ UNCHANGED <<setup, now, queue>>
      /\ walk' = [walk EXCEPT ![h] = [at |-> w, now |-> now]]
  BY DEF StartWalk
<1>2. QueueInv(q, NoTimer, 0, setup.interval[h]) /\ now \in Nat /\ setup.interval[h] \in Nat
  BY <1>1, Intervals DEF QueuesInv, Idle
<1>3. QueueInv(q, w, now, setup.interval[h]) /\ w # "reporter" /\ w # NoTimer
  BY <1>1, <1>2, WalkStarts DEF IsDue
<1>4. queue' = [queue EXCEPT ![h] = q]
  BY <1>1 DEF QueuesInv
<1> HIDE DEF q, w
<1>5. walk' = [walk EXCEPT ![h] = IF w = NoTimer THEN Idle ELSE [at |-> w, now |-> now]]
  BY <1>1, <1>3
<1>6. QueuesInv' /\ walk'[h].at = w
  BY <1>1, <1>2, <1>3, <1>4, <1>5, OneWalks DEF q
<1> QED
  BY <1>3, <1>6

LEMMA QueuesStill ==
    ASSUME QueuesInv, UNCHANGED <<setup, queue, walk>>, now' \in Nat
    PROVE  QueuesInv'
  BY DEF QueuesInv

LEMMA QueuesNext == QueuesInv /\ [Next]_vars => QueuesInv'
<1> SUFFICES ASSUME QueuesInv, [Next]_vars PROVE QueuesInv'
  OBVIOUS
<1>1. CASE UNCHANGED vars
  BY <1>1, QueuesStill DEF vars, QueuesInv
<1>2. CASE Tick
  <2>1. now' \in Nat
    BY <1>2 DEF Tick, QueuesInv
  <2> QED
    BY <1>2, <2>1, QueuesStill DEF Tick
<1>3. CASE EndStep
  BY <1>3, QueuesStill DEF EndStep, ClientEnds, ClientEnded, ServerEnds, ServerCloses,
     ServerReports, ClientSendsResults, ServerExchanges, ClientDisplays, ClientIsCut, QueuesInv
<1>4. ASSUME NEW h \in Host, WorkerStep(h) PROVE QueuesInv'
  BY <1>4, QueuesStill DEF WorkerStep, Send, Receive, CountTotal, CountPart, QueuesInv
<1>5. ASSUME NEW h \in Host, TimerStep(h) PROVE QueuesInv'
  <2>1. CASE StartWalk(h)
    BY <1>5, <2>1, AfterStart
  <2>2. CASE TestTimer(h) \/ ServerTimer(h)
    BY <1>5, <2>2, AfterTimer DEF TestTimer, ServerTimer
  <2>3. CASE StatsTimerIdle(h) \/ StatsTimer(h)
    BY <1>5, <2>3, AfterStats DEF StatsTimerIdle, StatsTimer
  <2>4. CASE ReporterTimer(h)
    BY <1>5, <2>4, AfterReporter DEF ReporterTimer
  <2>5. CASE OmitTimer(h)
    BY <1>5, <2>5, AfterOmit DEF OmitTimer
  <2>6. CASE ReadPart(h)
    BY <1>5, <2>6, QueuesStill DEF ReadPart, QueuesInv
  <2> QED
    BY <1>5, <2>1, <2>2, <2>3, <2>4, <2>5, <2>6 DEF TimerStep
<1> QED
  BY <1>1, <1>2, <1>3, <1>4, <1>5 DEF Next

LEMMA QueuesSound == QueuesInv => TimersSound
<1> SUFFICES ASSUME QueuesInv, NEW h \in Host
    PROVE  /\ Sorted(queue[h])
           /\ walk[h] # Idle => Armed(queue[h], walk[h].at)
           /\ Armed(queue[h], "stats") /\ walk[h].at # "reporter" =>
                Following(queue[h], "stats") = "reporter"
  BY DEF TimersSound
<1> DEFINE q == queue[h]
<1>1. q \in Queue /\ SortedBy(q.due, q.order)
      /\ QueueInv(q, walk[h].at, walk[h].now, setup.interval[h])
  BY DEF QueuesInv, QueueInv, Good
<1>2. Sorted(q)
  BY <1>1, SortedIsSortedBy
<1>3. walk[h] # Idle => Armed(q, walk[h].at)
  BY <1>1, ArmedIsInList DEF QueuesInv, QueueInv
<1>4. ASSUME Armed(q, "stats"), walk[h].at # "reporter"
      PROVE  Following(q, "stats") = "reporter"
  <2>1. InList(q.order, "stats")
    BY <1>1, <1>4, ArmedIsInList
  <2>2. Adjacent(q.order, "stats", "reporter")
    BY <1>1, <1>4, <2>1 DEF QueueInv, Together
  <2> QED
    BY <1>1, <2>1, <2>2, FollowingIs
<1> QED
  BY <1>2, <1>3, <1>4

(* Whatever callbacks move while tmr_run holds on to the next timer, the    *)
(* list stays sorted without duplicates, the walk is at a timer that is in  *)
(* it, and the statistics stand right before the report                     *)
THEOREM TimersAreSound == Spec => []TimersSound
<1>1. Init => QueuesInv
  BY QueuesInit
<1>2. QueuesInv /\ [Next]_vars => QueuesInv'
  BY QueuesNext
<1>3. QueuesInv => TimersSound
  BY QueuesSound
<1> QED
  BY <1>1, <1>2, <1>3, PTL DEF Spec

-----------------------------------------------------------------------------
(* The types *)

Phase == {"running", "ending", "ended", "exchange", "closed", "reported", "over"}
Test == [phase : Phase, done : BOOLEAN, omitting : BOOLEAN]
Interval == [bytes : Int, omitted : BOOLEAN, start : Nat, end : Nat]
Summary == [sent : Int, received : Int, senderTime : Nat, receiverTime : Nat]
Result ==
    [sent : Int, sentOmit : Int, received : Int, part : Int,
     start : Nat, end : Nat, time : Nat, intervals : Seq(Interval),
     printed : Seq(Nat), summary : {NULL} \cup Summary]
ResultsMessage == [type : {"results"}, time : Nat, bytes : Int]
Message == [type : {"TEST_END", "EXCHANGE_RESULTS", "closed"}] \cup ResultsMessage

TransferTypes ==
    /\ test \in [Host -> Test]
    /\ result \in [Host -> Result]
    /\ taken \in [Host -> Seq(Int)]
    /\ worker \in [Host -> {"loop", "moved", "counted", "gone"}]
    /\ pipe \in Nat
    /\ wire \in [Host -> Seq(Message)]

-----------------------------------------------------------------------------
(* What has been printed *)

(* Kept, of a host whose interval is i *)
Shown(i, x) == 10 * (x.end - x.start) >= i \/ x.bytes > 0

Printed(r, n) == \E j \in 1 .. Len(r.printed) : r.printed[j] = n

Orderly(i, r) ==
    /\ \A j \in 1 .. Len(r.printed) - 1 : r.printed[j] < r.printed[j + 1]
    /\ \A j \in 1 .. Len(r.printed) : r.printed[j] \in 1 .. Len(r.intervals)
    /\ \A n \in 1 .. Len(r.intervals) - 1 : Shown(i, r.intervals[n]) => Printed(r, n)

(* The last interval has been printed, or it has not *)
Settled(i, r) ==
    LET n == Len(r.intervals) IN n > 0 /\ Shown(i, r.intervals[n]) => Printed(r, n)
Pending(r) == \A j \in 1 .. Len(r.printed) : r.printed[j] < Len(r.intervals)

PrintInv(r, t, w, read, i) ==
    /\ Orderly(i, r)
    /\ t.phase # "running" => t.done
    /\ t.phase \notin {"running", "over"} => w = NoTimer
    /\ read # NULL => (w = "stats" /\ ~t.done) \/ t.phase = "ending"
    /\ t.phase = "running" /\ (w # "reporter" \/ t.done) => Settled(i, r)
    /\ t.phase = "running" /\ w = "reporter" /\ ~t.done => Pending(r)
    /\ t.phase = "ending" => Settled(i, r)
    /\ t.phase \in {"ended", "exchange", "closed"} => Pending(r)

PrintsInv ==
    \A h \in Host :
        PrintInv(result[h], test[h], walk[h].at, taken[h], setup.interval[h])

-----------------------------------------------------------------------------
(* What the functions on results change *)

LEMMA Appended ==
    ASSUME NEW S, NEW q \in Seq(S), NEW x \in S
    PROVE  LET p == Append(q, x) IN
           /\ p \in Seq(S) /\ Len(q) \in Nat /\ Len(p) = Len(q) + 1 /\ p[Len(q) + 1] = x
           /\ \A k \in 1 .. Len(q) : p[k] = q[k]
  BY LenProperties, AppendProperties

LEMMA Added ==
    ASSUME NEW r \in Result, NEW bytes \in Int, NEW omitting \in BOOLEAN, now \in Nat
    PROVE  LET s == AddInterval(r, bytes, omitting) IN
           /\ s \in Result
           /\ \E x \in Interval : s.intervals = Append(r.intervals, x)
           /\ s.printed = r.printed /\ s.summary = r.summary
           /\ s.sent = r.sent /\ s.sentOmit = r.sentOmit /\ s.received = r.received
<1> DEFINE x == [bytes |-> bytes, omitted |-> omitting,
                 start |-> IF r.intervals = <<>> THEN r.start ELSE r.end, end |-> now]
           p == Append(r.intervals, x)
           s == AddInterval(r, bytes, omitting)
<1>1. x \in Interval
  BY DEF Result, Interval
<1>2. s = [r EXCEPT !.intervals = p, !.part = 0, !.end = now]
  BY DEF AddInterval
<1> HIDE DEF x
<1>3. p \in Seq(Interval)
  BY <1>1, Appended DEF Result
<1> HIDE DEF p, s
<1>4. s \in Result
  <2>1. 0 \in Int
    OBVIOUS
  <2> QED
    BY <1>2, <1>3, <2>1, Zenon DEF Result
<1>5. /\ s.intervals = p /\ s.printed = r.printed /\ s.summary = r.summary
      /\ s.sent = r.sent /\ s.sentOmit = r.sentOmit /\ s.received = r.received
  BY <1>2 DEF Result
<1> QED
  BY <1>1, <1>4, <1>5 DEF s, p

LEMMA Forgotten ==
    ASSUME NEW r \in Result, now \in Nat
    PROVE  LET s == ResetStats(r) IN
           /\ s \in Result
           /\ s.intervals = r.intervals /\ s.printed = r.printed /\ s.summary = r.summary
           /\ s.sent = r.sent /\ s.sentOmit = r.sent /\ s.received = 0 /\ s.part = 0
<1> DEFINE s == ResetStats(r)
<1>1. s = [r EXCEPT !.sentOmit = r.sent, !.received = 0, !.part = 0, !.start = now]
  BY DEF ResetStats
<1>2. r.sent \in Int
  BY DEF Result
<1> HIDE DEF s
<1>3. s \in Result
  <2>1. 0 \in Int
    OBVIOUS
  <2> QED
    BY <1>1, <1>2, <2>1, Zenon DEF Result
<1>4. /\ s.intervals = r.intervals /\ s.printed = r.printed /\ s.summary = r.summary
      /\ s.sent = r.sent /\ s.sentOmit = r.sent /\ s.received = 0 /\ s.part = 0
  BY <1>1 DEF Result
<1> QED
  BY <1>3, <1>4 DEF s

LEMMA LastPrinted ==
    ASSUME NEW h \in Host, NEW r \in Result
    PROVE  LET s == PrintLast(h, r)
               n == Len(r.intervals)
           IN
           /\ s \in Result
           /\ s.printed = IF n > 0 /\ Shown(setup.interval[h], r.intervals[n])
                          THEN Append(r.printed, n) ELSE r.printed
           /\ s.intervals = r.intervals /\ s.summary = r.summary /\ s.part = r.part
           /\ s.sent = r.sent /\ s.sentOmit = r.sentOmit /\ s.received = r.received
           /\ s.start = r.start /\ s.end = r.end /\ s.time = r.time
<1> DEFINE n == Len(r.intervals)
           p == Append(r.printed, n)
           s == PrintLast(h, r)
<1>1. n \in Nat /\ r.printed \in Seq(Nat)
  BY LenProperties DEF Result
<1>2. s = IF n > 0 /\ Shown(setup.interval[h], r.intervals[n])
          THEN [r EXCEPT !.printed = p] ELSE r
  BY DEF PrintLast, Kept, Shown
<1> HIDE DEF n
<1>3. p \in Seq(Nat)
  BY <1>1, Appended
<1> HIDE DEF p, s
<1>4. CASE n > 0 /\ Shown(setup.interval[h], r.intervals[n])
  BY <1>2, <1>3, <1>4 DEF Result, s, p, n
<1>5. CASE ~(n > 0 /\ Shown(setup.interval[h], r.intervals[n]))
  BY <1>2, <1>5 DEF Result, s, p, n
<1> QED
  BY <1>4, <1>5

LEMMA ElapsedIsNat ==
    ASSUME NEW r \in Result
    PROVE  Elapsed(r) \in Nat
<1>1. r.start \in Nat /\ r.end \in Nat
  BY DEF Result
<1> QED
  BY <1>1 DEF Elapsed

LEMMA Summarised ==
    ASSUME NEW r \in Result, NEW sends \in BOOLEAN
    PROVE  LET s == Summarise(r, sends)
               own == Elapsed(r)
               other == IF r.time = 0 THEN own ELSE r.time
           IN
           /\ s \in Result /\ s.summary # NULL
           /\ s.intervals = r.intervals /\ s.printed = r.printed /\ s.part = r.part
           /\ s.sent = r.sent /\ s.sentOmit = r.sentOmit /\ s.received = r.received
           /\ s.start = r.start /\ s.end = r.end
           /\ s.summary.sent = r.sent - r.sentOmit /\ s.summary.received = r.received
           /\ s.summary.senderTime = (IF sends THEN own ELSE other)
           /\ s.summary.receiverTime = (IF sends THEN other ELSE own)
<1> DEFINE own == Elapsed(r)
           other == IF r.time = 0 THEN own ELSE r.time
           x == [sent |-> r.sent - r.sentOmit, received |-> r.received,
                 senderTime |-> IF sends THEN own ELSE other,
                 receiverTime |-> IF sends THEN other ELSE own]
           s == Summarise(r, sends)
<1>1. own \in Nat
  BY ElapsedIsNat
<1>2. s = [r EXCEPT !.summary = x]
  BY DEF Summarise
<1> HIDE DEF own
<1>3. x \in Summary
  BY <1>1 DEF Summary, Result
<1>4. x # NULL
  BY DEF NULL
<1>5. /\ x.sent = r.sent - r.sentOmit /\ x.received = r.received
      /\ x.senderTime = (IF sends THEN own ELSE other)
      /\ x.receiverTime = (IF sends THEN other ELSE own)
  OBVIOUS
<1> HIDE DEF x, s, other
<1>6. /\ s \in Result /\ s.summary = x
      /\ s.intervals = r.intervals /\ s.printed = r.printed /\ s.part = r.part
      /\ s.sent = r.sent /\ s.sentOmit = r.sentOmit /\ s.received = r.received
      /\ s.start = r.start /\ s.end = r.end
  BY <1>2, <1>3 DEF Result, s
<1> QED
  BY <1>4, <1>5, <1>6 DEF own, other, s

LEMMA Learned ==
    ASSUME NEW h \in Host, NEW r \in Result, NEW m \in ResultsMessage
    PROVE  LET s == Learn(h, r, m) IN
           /\ s \in Result
           /\ s.intervals = r.intervals /\ s.printed = r.printed /\ s.summary = r.summary
           /\ s.sentOmit = r.sentOmit /\ s.time = m.time /\ s.part = r.part
           /\ s.start = r.start /\ s.end = r.end
           /\ s.sent = IF Sender(h) THEN r.sent ELSE m.bytes
           /\ s.received = IF Sender(h) THEN m.bytes ELSE r.received
<1>1. m.time \in Nat /\ m.bytes \in Int
  BY DEF ResultsMessage
<1>2. CASE Sender(h)
  BY <1>1, <1>2 DEF Learn, Result
<1>3. CASE ~Sender(h)
  BY <1>1, <1>3 DEF Learn, Result
<1> QED
  BY <1>2, <1>3

LEMMA Said ==
    ASSUME NEW h \in Host, result[h] \in Result
    PROVE  LET m == Results(h) IN
           /\ m \in ResultsMessage /\ m.time = Elapsed(result[h])
           /\ m.bytes = IF Sender(h) THEN result[h].sent - result[h].sentOmit
                        ELSE result[h].received
<1>1. Elapsed(result[h]) \in Nat
  BY ElapsedIsNat
<1>2. result[h].sent \in Int /\ result[h].sentOmit \in Int /\ result[h].received \in Int
  BY DEF Result
<1> QED
  BY <1>1, <1>2 DEF Results, ResultsMessage

(* The first message of a host *)
LEMMA FirstMessage ==
    ASSUME NEW q \in Seq(Message), q # <<>>
    PROVE  /\ Head(q) \in Message /\ Tail(q) \in Seq(Message)
           /\ Len(q) \in Nat /\ Head(q) = q[1] /\ 1 \in 1 .. Len(q)
           /\ Len(Tail(q)) = Len(q) - 1
           /\ \A k \in 1 .. Len(Tail(q)) : Tail(q)[k] = q[k + 1] /\ k + 1 \in 1 .. Len(q)
           /\ Head(q).type = "results" => Head(q) \in ResultsMessage
<1>1. Len(q) \in Nat /\ Len(q) # 0 /\ Head(q) \in Message /\ Head(q) = q[1]
      /\ Tail(q) \in Seq(Message) /\ Len(Tail(q)) = Len(q) - 1
  BY EmptySeq, LenProperties, HeadTailProperties
<1>2. \A k \in 1 .. Len(Tail(q)) : Tail(q)[k] = q[k + 1]
  BY <1>1, HeadTailProperties
<1>3. \A k \in 1 .. Len(Tail(q)) : k + 1 \in 1 .. Len(q)
  BY <1>1
<1>4. 1 \in 1 .. Len(q)
  BY <1>1
<1>5. Head(q).type = "results" => Head(q) \in ResultsMessage
  BY <1>1 DEF Message, ResultsMessage
<1> QED
  BY <1>1, <1>2, <1>3, <1>4, <1>5

-----------------------------------------------------------------------------
(* The types are kept *)

LEMMA TypesInit == Init => TransferTypes
<1> SUFFICES ASSUME Init PROVE TransferTypes
  OBVIOUS
<1> DEFINE r0 == [sent |-> 0, sentOmit |-> 0, received |-> 0, part |-> 0,
                  start |-> 0, end |-> 0, time |-> 0, intervals |-> <<>>,
                  printed |-> <<>>, summary |-> NULL]
           t0 == [phase |-> "running", done |-> FALSE, omitting |-> setup.omit # 0]
<1>1. r0 \in Result
  BY DEF Result
<1>2. t0 \in Test
  BY DEF Test, Phase
<1>3. result = [h \in Host |-> r0] /\ test = [h \in Host |-> t0]
  BY DEF Init
<1> HIDE DEF r0, t0
<1>4. test \in [Host -> Test] /\ result \in [Host -> Result]
  BY <1>1, <1>2, <1>3
<1>5. taken \in [Host -> Seq(Int)] /\ wire \in [Host -> Seq(Message)]
  BY DEF Init, NULL
<1>6. worker \in [Host -> {"loop", "moved", "counted", "gone"}] /\ pipe \in Nat
  BY DEF Init
<1> QED
  BY <1>4, <1>5, <1>6 DEF TransferTypes

LEMMA TestTyped ==
    ASSUME TransferTypes, NEW h \in Host, NEW t \in Test
    PROVE  [test EXCEPT ![h] = t] \in [Host -> Test]
  BY DEF TransferTypes

LEMMA ResultTyped ==
    ASSUME TransferTypes, NEW h \in Host, NEW r \in Result
    PROVE  [result EXCEPT ![h] = r] \in [Host -> Result]
  BY DEF TransferTypes

LEMMA WireTyped ==
    ASSUME TransferTypes, NEW h \in Host, NEW m \in Message
    PROVE  [wire EXCEPT ![h] = Append(@, m)] \in [Host -> Seq(Message)]
  BY Appended DEF TransferTypes

LEMMA PhaseTyped ==
    ASSUME TransferTypes, NEW h \in Host, NEW phase \in Phase, Moves(h, phase)
    PROVE  /\ test' \in [Host -> Test]
           /\ test'[h].phase = phase /\ test'[h].done = test[h].done
           /\ test'[h].omitting = test[h].omitting
           /\ \A k \in Host : k # h => test'[k] = test[k]
<1> DEFINE t == [test[h] EXCEPT !.phase = phase]
<1>1. test \in [Host -> Test] /\ test[h] \in Test
  BY DEF TransferTypes
<1>2. test' = [test EXCEPT ![h] = t]
  BY DEF Moves
<1>3. t \in Test /\ t.phase = phase /\ t.done = test[h].done /\ t.omitting = test[h].omitting
  BY <1>1 DEF Test
<1> HIDE DEF t
<1> QED
  BY <1>1, <1>2, <1>3

(* Whoever has read the interval counter adds what was read *)
LEMMA AddsTaken ==
    ASSUME TransferTypes, QueuesInv, NEW h \in Host, taken[h] # NULL,
           result' = [result EXCEPT ![h] = AddInterval(@, taken[h][1], test[h].omitting)],
           taken' = [taken EXCEPT ![h] = NULL]
    PROVE  /\ result' \in [Host -> Result] /\ taken' \in [Host -> Seq(Int)]
           /\ \E x \in Interval : result'[h].intervals = Append(result[h].intervals, x)
           /\ result'[h].printed = result[h].printed /\ result'[h].summary = result[h].summary
           /\ result'[h].sent = result[h].sent /\ result'[h].sentOmit = result[h].sentOmit
           /\ result'[h].received = result[h].received
           /\ taken'[h] = NULL
           /\ \A k \in Host : k # h => result'[k] = result[k] /\ taken'[k] = taken[k]
<1> DEFINE s == AddInterval(result[h], taken[h][1], test[h].omitting)
<1>1. /\ result \in [Host -> Result] /\ result[h] \in Result /\ test[h].omitting \in BOOLEAN
      /\ taken \in [Host -> Seq(Int)] /\ taken[h] \in Seq(Int) /\ now \in Nat
  BY DEF TransferTypes, Test, QueuesInv
<1>2. taken[h][1] \in Int
  <2>1. Len(taken[h]) \in Nat /\ Len(taken[h]) # 0
    BY <1>1, EmptySeq, LenProperties DEF NULL
  <2>2. 1 \in 1 .. Len(taken[h])
    BY <2>1
  <2> QED
    BY <1>1, <2>2, ElementOfSeq
<1>3. /\ s \in Result
      /\ \E x \in Interval : s.intervals = Append(result[h].intervals, x)
      /\ s.printed = result[h].printed /\ s.summary = result[h].summary
      /\ s.sent = result[h].sent /\ s.sentOmit = result[h].sentOmit
      /\ s.received = result[h].received
  BY <1>1, <1>2, Added
<1>4. NULL \in Seq(Int)
  BY DEF NULL
<1> HIDE DEF s
<1>5. result' = [result EXCEPT ![h] = s]
  BY DEF s
<1> QED
  BY <1>1, <1>3, <1>4, <1>5

(* A host counts, in one of the counters *)
LEMMA Counts ==
    ASSUME TransferTypes, NEW h \in Host, CountTotal(h)
    PROVE  LET r == result[h]
               s == result'[h]
           IN
           /\ result' \in [Host -> Result]
           /\ \A k \in Host : k # h => result'[k] = result[k]
           /\ s.sent = r.sent + (IF Sender(h) THEN 1 ELSE 0)
           /\ s.received = r.received + (IF ~Sender(h) /\ Running(h) THEN 1 ELSE 0)
           /\ s.sentOmit = r.sentOmit /\ s.start = r.start /\ s.end = r.end /\ s.time = r.time
           /\ s.intervals = r.intervals /\ s.printed = r.printed /\ s.summary = r.summary
           /\ s.part = r.part
<1> DEFINE r == result[h]
<1>1. /\ result \in [Host -> Result] /\ r \in Result /\ r.sent \in Int /\ r.received \in Int
      /\ r.sent + 1 \in Int /\ r.received + 1 \in Int
  <2>1. result \in [Host -> Result] /\ r \in Result
    BY DEF TransferTypes
  <2>2. r.sent \in Int /\ r.received \in Int
    BY <2>1 DEF Result
  <2> QED
    BY <2>1, <2>2
<1>2. CASE Sender(h)
  <2> DEFINE s == [r EXCEPT !.sent = r.sent + 1]
  <2>1. result' = [result EXCEPT ![h] = s]
    BY <1>2 DEF CountTotal
  <2>2. s \in Result
    BY <1>1, Zenon DEF Result
  <2>3. /\ s.sent = r.sent + 1 /\ s.received = r.received /\ s.sentOmit = r.sentOmit
        /\ s.start = r.start /\ s.end = r.end /\ s.time = r.time
        /\ s.intervals = r.intervals /\ s.printed = r.printed /\ s.summary = r.summary
        /\ s.part = r.part
    BY <1>1 DEF Result
  <2> HIDE DEF s
  <2>4. result' \in [Host -> Result] /\ result'[h] = s
        /\ \A k \in Host : k # h => result'[k] = result[k]
    BY <1>1, <2>1, <2>2
  <2> QED
    BY <1>1, <1>2, <2>3, <2>4
<1>3. CASE ~Sender(h) /\ Running(h)
  <2> DEFINE s == [r EXCEPT !.received = r.received + 1]
  <2>1. result' = [result EXCEPT ![h] = s]
    BY <1>3 DEF CountTotal
  <2>2. s \in Result
    BY <1>1, Zenon DEF Result
  <2>3. /\ s.received = r.received + 1 /\ s.sent = r.sent /\ s.sentOmit = r.sentOmit
        /\ s.start = r.start /\ s.end = r.end /\ s.time = r.time
        /\ s.intervals = r.intervals /\ s.printed = r.printed /\ s.summary = r.summary
        /\ s.part = r.part
    BY <1>1 DEF Result
  <2> HIDE DEF s
  <2>4. result' \in [Host -> Result] /\ result'[h] = s
        /\ \A k \in Host : k # h => result'[k] = result[k]
    BY <1>1, <2>1, <2>2
  <2> QED
    BY <1>1, <1>3, <2>3, <2>4
<1>4. CASE ~Sender(h) /\ ~Running(h)
  BY <1>1, <1>4 DEF CountTotal
<1> QED
  BY <1>2, <1>3, <1>4

LEMMA CountsPart ==
    ASSUME TransferTypes, NEW h \in Host, CountPart(h)
    PROVE  LET r == result[h]
               s == result'[h]
           IN
           /\ result' \in [Host -> Result]
           /\ \A k \in Host : k # h => result'[k] = result[k]
           /\ s.sent = r.sent /\ s.received = r.received /\ s.sentOmit = r.sentOmit
           /\ s.start = r.start /\ s.end = r.end /\ s.time = r.time
           /\ s.intervals = r.intervals /\ s.printed = r.printed /\ s.summary = r.summary
           /\ s.part = r.part + 1
<1> DEFINE r == result[h]
           s == [r EXCEPT !.part = r.part + 1]
<1>1. result \in [Host -> Result] /\ r \in Result /\ r.part \in Int /\ r.part + 1 \in Int
  BY DEF TransferTypes, Result
<1>2. result' = [result EXCEPT ![h] = s]
  BY DEF CountPart
<1>3. s \in Result
  BY <1>1, Zenon DEF Result
<1>4. /\ s.sent = r.sent /\ s.received = r.received /\ s.sentOmit = r.sentOmit
      /\ s.start = r.start /\ s.end = r.end /\ s.time = r.time
      /\ s.intervals = r.intervals /\ s.printed = r.printed /\ s.summary = r.summary
      /\ s.part = r.part + 1
  BY <1>1 DEF Result
<1> HIDE DEF s
<1>5. result' \in [Host -> Result] /\ result'[h] = s
      /\ \A k \in Host : k # h => result'[k] = result[k]
  BY <1>1, <1>2, <1>3
<1> QED
  BY <1>4, <1>5

LEMMA BothWires ==
    ASSUME NEW S, NEW x \in S, NEW y \in S
    PROVE  LET w == [client |-> x, server |-> y]
           IN  w \in [Host -> S] /\ w["client"] = x /\ w["server"] = y
  BY DEF Host

(* The parts of the state a step leaves alone keep their types *)
LEMMA TypesNext == QueuesInv /\ TransferTypes /\ [Next]_vars => TransferTypes'
<1> SUFFICES ASSUME QueuesInv, TransferTypes, [Next]_vars PROVE TransferTypes'
  OBVIOUS
<1> DEFINE States == {"loop", "moved", "counted", "gone"}
<1>0. /\ test \in [Host -> Test] /\ result \in [Host -> Result]
      /\ taken \in [Host -> Seq(Int)] /\ worker \in [Host -> States] /\ pipe \in Nat
      /\ wire \in [Host -> Seq(Message)] /\ now \in Nat
      /\ "client" \in Host /\ "server" \in Host
  BY DEF TransferTypes, QueuesInv, Host
<1>9. \A h \in Host : result[h] \in Result /\ test[h] \in Test /\ wire[h] \in Seq(Message)
  BY <1>0
<1>1. CASE UNCHANGED vars
  BY <1>1 DEF vars, TransferTypes
<1>2. CASE Tick
  BY <1>2 DEF Tick, TransferTypes
<1>3. ASSUME NEW h \in Host, WorkerStep(h) PROVE TransferTypes'
  <2>1. CASE Send(h)
    <3>1. worker' \in [Host -> States] /\ pipe' \in Nat
      BY <1>0, <2>1 DEF Send, Becomes
    <3> QED
      BY <2>1, <3>1 DEF Send, TransferTypes
  <2>2. CASE Receive(h)
    <3>1. worker' \in [Host -> States] /\ pipe' \in Nat
      BY <1>0, <2>2 DEF Receive, Becomes
    <3> QED
      BY <2>2, <3>1 DEF Receive, TransferTypes
  <2>3. CASE CountTotal(h)
    <3>1. worker' \in [Host -> States]
      BY <1>0, <2>3 DEF CountTotal, Becomes
    <3>2. result' \in [Host -> Result]
      BY <1>3, <2>3, Counts
    <3> QED
      BY <2>3, <3>1, <3>2 DEF CountTotal, TransferTypes
  <2>4. CASE CountPart(h)
    <3>1. worker' \in [Host -> States]
      BY <1>0, <2>4 DEF CountPart, Becomes
    <3>2. result' \in [Host -> Result]
      BY <1>3, <2>4, CountsPart
    <3> QED
      BY <2>4, <3>1, <3>2 DEF CountPart, TransferTypes
  <2> QED
    BY <1>3, <2>1, <2>2, <2>3, <2>4 DEF WorkerStep
<1>4. ASSUME NEW h \in Host, TimerStep(h) PROVE TransferTypes'
  <2>1. CASE StartWalk(h) \/ StatsTimerIdle(h)
    BY <2>1 DEF StartWalk, StatsTimerIdle, TransferTypes
  <2>2. CASE TestTimer(h)
    <3>1. [test[h] EXCEPT !.done = TRUE] \in Test
      BY <1>9 DEF Test
    <3>2. test' = [test EXCEPT ![h] = [test[h] EXCEPT !.done = TRUE]]
      BY <2>2 DEF TestTimer
    <3>3. test' \in [Host -> Test]
      BY <3>1, <3>2, TestTyped
    <3> QED
      BY <2>2, <3>3 DEF TestTimer, TransferTypes
  <2>3. CASE ServerTimer(h)
    <3> DEFINE t == [[test[h] EXCEPT !.done = TRUE] EXCEPT !.phase = "over"]
    <3>1. t \in Test
      BY <1>9 DEF Test, Phase
    <3>2. test' = [test EXCEPT ![h] = t]
      BY <1>0, <2>3 DEF ServerTimer
    <3>3. test' \in [Host -> Test]
      BY <3>1, <3>2, TestTyped
    <3>4. worker' \in [Host -> States] /\ pipe' \in Nat
      BY <1>0, <2>3 DEF ServerTimer
    <3>5. [type |-> "closed"] \in Message
      BY DEF Message
    <3>6. wire' = [wire EXCEPT !["client"] = Append(@, [type |-> "closed"])]
      BY <2>3 DEF ServerTimer
    <3>7. wire' \in [Host -> Seq(Message)]
      BY <1>0, <3>5, <3>6, WireTyped
    <3> QED
      BY <2>3, <3>3, <3>4, <3>7 DEF ServerTimer, TransferTypes
  <2>4. CASE ReadPart(h)
    <3>1. result[h].part \in Int
      BY <1>9 DEF Result
    <3>2. taken' \in [Host -> Seq(Int)]
      BY <1>0, <2>4, <3>1 DEF ReadPart
    <3> QED
      BY <2>4, <3>2 DEF ReadPart, TransferTypes
  <2>5. CASE StatsTimer(h)
    <3>1. result' \in [Host -> Result] /\ taken' \in [Host -> Seq(Int)]
      BY <1>4, <2>5, AddsTaken DEF StatsTimer
    <3> QED
      BY <2>5, <3>1 DEF StatsTimer, TransferTypes
  <2>6. CASE ReporterTimer(h)
    <3> DEFINE s == IF test[h].done THEN result[h] ELSE PrintLast(h, result[h])
    <3>1. s \in Result
      BY <1>9, LastPrinted
    <3>2. result' = [result EXCEPT ![h] = s]
      BY <2>6 DEF ReporterTimer
    <3> HIDE DEF s
    <3>3. result' \in [Host -> Result]
      BY <3>1, <3>2, ResultTyped
    <3> QED
      BY <2>6, <3>3 DEF ReporterTimer, TransferTypes
  <2>7. CASE OmitTimer(h)
    <3> DEFINE s == ResetStats(result[h])
               t == [test[h] EXCEPT !.omitting = FALSE]
    <3>1. s \in Result
      BY <1>0, <1>9, Forgotten
    <3>2. t \in Test
      BY <1>9 DEF Test
    <3>3. result' = [result EXCEPT ![h] = s] /\ test' = [test EXCEPT ![h] = t]
      BY <2>7 DEF OmitTimer
    <3> HIDE DEF s, t
    <3>4. result' \in [Host -> Result] /\ test' \in [Host -> Test]
      BY <3>1, <3>2, <3>3, ResultTyped, TestTyped
    <3> QED
      BY <2>7, <3>4 DEF OmitTimer, TransferTypes
  <2> QED
    BY <1>4, <2>1, <2>2, <2>3, <2>4, <2>5, <2>6, <2>7 DEF TimerStep
<1>5. CASE EndStep
  <2>1. CASE ClientEnds
    <3>1. test' \in [Host -> Test]
      BY <1>0, <2>1, PhaseTyped DEF ClientEnds, Phase
    <3>2. worker' \in [Host -> States]
      BY <1>0, <2>1 DEF ClientEnds
    <3> QED
      BY <2>1, <3>1, <3>2 DEF ClientEnds, TransferTypes
  <2>2. CASE ClientEnded
    <3>1. test' \in [Host -> Test]
      BY <1>0, <2>2, PhaseTyped DEF ClientEnded, Phase
    <3>2. result' \in [Host -> Result] /\ taken' \in [Host -> Seq(Int)]
      BY <1>0, <2>2, AddsTaken DEF ClientEnded
    <3>3. [type |-> "TEST_END"] \in Message
      BY DEF Message
    <3>4. wire' \in [Host -> Seq(Message)]
      BY <1>0, <2>2, <3>3, WireTyped DEF ClientEnded, Tell
    <3> QED
      BY <2>2, <3>1, <3>2, <3>4 DEF ClientEnded, TransferTypes
  <2>3. CASE ServerEnds
    <3> DEFINE t == [test["server"] EXCEPT !.phase = "ending", !.done = TRUE]
    <3>1. t \in Test
      BY <1>0, <1>9 DEF Test, Phase
    <3>2. test' = [test EXCEPT !["server"] = t]
      BY <2>3 DEF ServerEnds
    <3>3. test' \in [Host -> Test]
      BY <1>0, <3>1, <3>2, TestTyped
    <3>4. Tail(wire["server"]) \in Seq(Message)
      BY <1>0, <1>9, <2>3, FirstMessage DEF ServerEnds, Gets
    <3>5. wire' \in [Host -> Seq(Message)]
      BY <1>0, <2>3, <3>4 DEF ServerEnds
    <3> QED
      BY <2>3, <3>3, <3>5 DEF ServerEnds, TransferTypes
  <2>4. CASE ServerCloses
    <3>1. test' \in [Host -> Test]
      BY <1>0, <2>4, PhaseTyped DEF ServerCloses, Phase
    <3>2. result' \in [Host -> Result] /\ taken' \in [Host -> Seq(Int)]
      BY <1>0, <2>4, AddsTaken DEF ServerCloses
    <3> QED
      BY <2>4, <3>1, <3>2 DEF ServerCloses, TransferTypes
  <2>5. CASE ServerReports
    <3> DEFINE p == PrintLast("server", result["server"])
               s == Summarise(p, Sender("server"))
    <3>1. p \in Result
      BY <1>0, <1>9, LastPrinted
    <3> HIDE DEF p
    <3>2. s \in Result
      BY <3>1, Summarised DEF Sender
    <3>3. result' = [result EXCEPT !["server"] = s]
      BY <2>5 DEF ServerReports, p
    <3> HIDE DEF s
    <3>4. result' \in [Host -> Result]
      BY <1>0, <3>2, <3>3, ResultTyped
    <3>5. test' \in [Host -> Test]
      BY <1>0, <2>5, PhaseTyped DEF ServerReports, Phase
    <3>6. [type |-> "EXCHANGE_RESULTS"] \in Message
      BY DEF Message
    <3>7. wire' \in [Host -> Seq(Message)]
      BY <1>0, <2>5, <3>6, WireTyped DEF ServerReports, Tell
    <3> QED
      BY <2>5, <3>4, <3>5, <3>7 DEF ServerReports, TransferTypes
  <2>6. CASE ClientSendsResults
    <3>1. test' \in [Host -> Test]
      BY <1>0, <2>6, PhaseTyped DEF ClientSendsResults, Phase
    <3>2. Results("client") \in Message
      BY <1>0, <1>9, Said DEF Message
    <3>3. Append(wire["server"], Results("client")) \in Seq(Message)
      BY <1>0, <1>9, <3>2, Appended
    <3>4. Tail(wire["client"]) \in Seq(Message)
      BY <1>0, <1>9, <2>6, FirstMessage DEF ClientSendsResults, Gets
    <3>5. wire' \in [Host -> Seq(Message)]
      BY <2>6, <3>3, <3>4, BothWires DEF ClientSendsResults
    <3> QED
      BY <2>6, <3>1, <3>5 DEF ClientSendsResults, TransferTypes
  <2>7. CASE ServerExchanges
    <3> DEFINE m == Head(wire["server"])
               s == Learn("server", result["server"], m)
    <3>1. test' \in [Host -> Test]
      BY <1>0, <2>7, PhaseTyped DEF ServerExchanges, Phase
    <3>2. m \in ResultsMessage /\ Tail(wire["server"]) \in Seq(Message)
      BY <1>0, <1>9, <2>7, FirstMessage DEF ServerExchanges, Gets
    <3>3. s \in Result
      BY <1>0, <1>9, <3>2, Learned
    <3>4. result' = [result EXCEPT !["server"] = s]
      BY <2>7 DEF ServerExchanges
    <3> HIDE DEF s
    <3>5. result' \in [Host -> Result]
      BY <1>0, <3>3, <3>4, ResultTyped
    <3>6. Results("server") \in Message
      BY <1>0, <1>9, Said DEF Message
    <3>7. Append(wire["client"], Results("server")) \in Seq(Message)
      BY <1>0, <1>9, <3>6, Appended
    <3>8. wire' \in [Host -> Seq(Message)]
      BY <2>7, <3>2, <3>7, BothWires DEF ServerExchanges
    <3> QED
      BY <2>7, <3>1, <3>5, <3>8 DEF ServerExchanges, TransferTypes
  <2>8. CASE ClientDisplays
    <3> DEFINE m == Head(wire["client"])
               l == Learn("client", result["client"], m)
               p == PrintLast("client", l)
               s == Summarise(p, Sender("client"))
               t == [test["client"] EXCEPT !.phase = "over", !.done = TRUE]
    <3>1. t \in Test
      BY <1>0, <1>9 DEF Test, Phase
    <3>2. test' = [test EXCEPT !["client"] = t]
      BY <2>8 DEF ClientDisplays
    <3>3. test' \in [Host -> Test]
      BY <1>0, <3>1, <3>2, TestTyped
    <3>4. m \in ResultsMessage /\ Tail(wire["client"]) \in Seq(Message)
      BY <1>0, <1>9, <2>8, FirstMessage DEF ClientDisplays, Gets
    <3>5. l \in Result
      BY <1>0, <1>9, <3>4, Learned
    <3> HIDE DEF l
    <3>6. p \in Result
      BY <1>0, <3>5, LastPrinted
    <3> HIDE DEF p
    <3>7. s \in Result
      BY <3>6, Summarised DEF Sender
    <3>8. result' = [result EXCEPT !["client"] = s]
      BY <2>8 DEF ClientDisplays, l, p
    <3> HIDE DEF s
    <3>9. result' \in [Host -> Result]
      BY <1>0, <3>7, <3>8, ResultTyped
    <3>10. wire' \in [Host -> Seq(Message)] /\ worker' \in [Host -> States]
      BY <1>0, <2>8, <3>4 DEF ClientDisplays
    <3> QED
      BY <2>8, <3>3, <3>9, <3>10 DEF ClientDisplays, TransferTypes
  <2>9. CASE ClientIsCut
    <3>1. test' \in [Host -> Test]
      BY <1>0, <2>9, PhaseTyped DEF ClientIsCut, Phase
    <3>2. Tail(wire["client"]) \in Seq(Message)
      BY <1>0, <1>9, <2>9, FirstMessage DEF ClientIsCut, Gets
    <3>3. wire' \in [Host -> Seq(Message)] /\ worker' \in [Host -> States]
      BY <1>0, <2>9, <3>2 DEF ClientIsCut
    <3> QED
      BY <2>9, <3>1, <3>3 DEF ClientIsCut, TransferTypes
  <2> QED
    BY <1>5, <2>1, <2>2, <2>3, <2>4, <2>5, <2>6, <2>7, <2>8, <2>9 DEF EndStep
<1> QED
  BY <1>1, <1>2, <1>3, <1>4, <1>5 DEF Next

-----------------------------------------------------------------------------
(* Every interval that is kept is printed once *)

(* An interval is added once the one before it has been printed *)
LEMMA Collecting ==
    ASSUME NEW i, NEW r \in Result, NEW s \in Result, NEW x \in Interval,
           s.intervals = Append(r.intervals, x), s.printed = r.printed,
           Orderly(i, r), Settled(i, r)
    PROVE  Orderly(i, s) /\ Pending(s)
<1> DEFINE n == Len(r.intervals)
           m == Len(r.printed)
<1>1. /\ n \in Nat /\ Len(s.intervals) = n + 1 /\ m \in Nat
      /\ \A k \in 1 .. n : s.intervals[k] = r.intervals[k]
  BY Appended, LenProperties DEF Result
<1>2. \A j \in 1 .. m : r.printed[j] \in 1 .. n
  BY DEF Orderly
<1>3. \A k \in 1 .. n - 1 : Shown(i, r.intervals[k]) => Printed(r, k)
  BY DEF Orderly
<1>4. n > 0 /\ Shown(i, r.intervals[n]) => Printed(r, n)
  BY DEF Settled
<1>5. \A j \in 1 .. m - 1 : r.printed[j] < r.printed[j + 1]
  BY DEF Orderly
<1> HIDE DEF n, m
<1>6. ASSUME NEW k \in 1 .. n, Shown(i, s.intervals[k]) PROVE Printed(s, k)
  <2>1. Shown(i, r.intervals[k])
    BY <1>1, <1>6
  <2>2. k \in 1 .. n - 1 \/ k = n
    BY <1>1
  <2>3. Printed(r, k)
    BY <1>1, <1>3, <1>4, <2>1, <2>2
  <2> QED
    BY <2>3 DEF Printed
<1>7. \A j \in 1 .. m : r.printed[j] \in 1 .. n + 1 /\ r.printed[j] < n + 1
  BY <1>1, <1>2
<1>8. (n + 1) - 1 = n
  BY <1>1
<1>9. Orderly(i, s)
  BY <1>1, <1>5, <1>6, <1>7, <1>8 DEF Orderly, m
<1>10. Pending(s)
  BY <1>1, <1>7 DEF Pending, m
<1> QED
  BY <1>9, <1>10

(* The last interval is printed after those before it *)
LEMMA Printing ==
    ASSUME NEW i, NEW r \in Result, NEW s \in Result,
           s.intervals = r.intervals,
           s.printed = (IF Len(r.intervals) > 0 /\ Shown(i, r.intervals[Len(r.intervals)])
                        THEN Append(r.printed, Len(r.intervals)) ELSE r.printed),
           Orderly(i, r), Pending(r)
    PROVE  Orderly(i, s) /\ Settled(i, s)
<1> DEFINE n == Len(r.intervals)
           m == Len(r.printed)
<1>1. n \in Nat /\ m \in Nat /\ r.printed \in Seq(Nat)
  BY LenProperties DEF Result
<1>2. CASE ~(n > 0 /\ Shown(i, r.intervals[n]))
  BY <1>2 DEF Orderly, Settled, Printed
<1>3. CASE n > 0 /\ Shown(i, r.intervals[n])
  <2> DEFINE p == Append(r.printed, n)
  <2>1. s.printed = p
    BY <1>3
  <2> HIDE DEF n
  <2>2. p \in Seq(Nat) /\ Len(p) = m + 1 /\ p[m + 1] = n /\ \A k \in 1 .. m : p[k] = r.printed[k]
    BY <1>1, Appended
  <2>3. \A j \in 1 .. m : r.printed[j] < n /\ r.printed[j] \in 1 .. n
    BY DEF Pending, Orderly, n
  <2>4. \A j \in 1 .. m - 1 : r.printed[j] < r.printed[j + 1]
    BY DEF Orderly
  <2>5. \A k \in 1 .. n - 1 : Shown(i, r.intervals[k]) => Printed(r, k)
    BY DEF Orderly, n
  <2> HIDE DEF m, p
  <2>6. ASSUME NEW j \in 1 .. m PROVE p[j] < p[j + 1]
    <3>1. CASE j = m
      BY <2>2, <2>3, <3>1
    <3>2. CASE j # m
      <4>1. j \in 1 .. m - 1 /\ j + 1 \in 1 .. m
        BY <1>1, <3>2
      <4> QED
        BY <2>2, <2>4, <4>1
    <3> QED
      BY <3>1, <3>2
  <2>7. ASSUME NEW j \in 1 .. m + 1 PROVE p[j] \in 1 .. n
    <3>1. j \in 1 .. m \/ j = m + 1
      BY <1>1
    <3>2. n \in 1 .. n
      BY <1>1, <1>3 DEF n
    <3> QED
      BY <2>2, <2>3, <3>1, <3>2
  <2>8. ASSUME NEW k, Printed(r, k) PROVE Printed(s, k)
    <3>1. PICK j \in 1 .. m : r.printed[j] = k
      BY <2>8 DEF Printed, m
    <3>2. j \in 1 .. m + 1 /\ p[j] = k
      BY <1>1, <2>2, <3>1
    <3> QED
      BY <2>1, <2>2, <3>2 DEF Printed
  <2>9. Printed(s, n)
    <3>1. m + 1 \in 1 .. m + 1
      BY <1>1
    <3> QED
      BY <2>1, <2>2, <3>1 DEF Printed
  <2>10. (m + 1) - 1 = m
    BY <1>1
  <2>11. Orderly(i, s)
    BY <2>1, <2>2, <2>5, <2>6, <2>7, <2>8, <2>10 DEF Orderly, n
  <2> QED
    BY <2>9, <2>11 DEF Settled, n
<1> QED
  BY <1>2, <1>3

(* Only the intervals and what has been printed matter *)
LEMMA SamePrint ==
    ASSUME NEW i, NEW r, NEW s, s.intervals = r.intervals, s.printed = r.printed
    PROVE  /\ Orderly(i, s) <=> Orderly(i, r)
           /\ Settled(i, s) <=> Settled(i, r)
           /\ Pending(s) <=> Pending(r)
  BY DEF Orderly, Settled, Pending, Printed

LEMMA PrintsInit == Init => PrintsInv
<1> SUFFICES ASSUME Init, NEW h \in Host
    PROVE  PrintInv(result[h], test[h], walk[h].at, taken[h], setup.interval[h])
  BY DEF PrintsInv
<1>1. /\ result[h].intervals = <<>> /\ result[h].printed = <<>> /\ taken[h] = NULL
      /\ test[h].phase = "running" /\ test[h].done = FALSE /\ walk[h].at = NoTimer
  BY DEF Init, Idle
<1>2. Len(<<>>) = 0
  OBVIOUS
<1>3. /\ Orderly(setup.interval[h], result[h]) /\ Settled(setup.interval[h], result[h])
  BY <1>1, <1>2 DEF Orderly, Settled
<1> QED
  BY <1>1, <1>3 DEF PrintInv, NoTimer

LEMMA PrintsOf ==
    ASSUME PrintsInv, NEW a \in Host, setup' = setup,
           \A k \in Host : k # a => /\ result'[k] = result[k] /\ test'[k] = test[k]
                                   /\ walk'[k] = walk[k] /\ taken'[k] = taken[k],
           PrintInv(result'[a], test'[a], walk'[a].at, taken'[a], setup.interval[a])
    PROVE  PrintsInv'
<1> SUFFICES ASSUME NEW h \in Host
    PROVE  PrintInv(result'[h], test'[h], walk'[h].at, taken'[h], setup'.interval[h])
  BY DEF PrintsInv
<1>1. CASE h = a
  BY <1>1
<1>2. CASE h # a
  BY <1>2 DEF PrintsInv
<1> QED
  BY <1>1, <1>2

LEMMA PrintsSame ==
    ASSUME PrintsInv, UNCHANGED <<setup, test, walk, taken>>,
           \A k \in Host : /\ result'[k].intervals = result[k].intervals
                          /\ result'[k].printed = result[k].printed
    PROVE  PrintsInv'
<1> SUFFICES ASSUME NEW h \in Host
    PROVE  PrintInv(result'[h], test[h], walk[h].at, taken[h], setup.interval[h])
  BY DEF PrintsInv
<1>1. PrintInv(result[h], test[h], walk[h].at, taken[h], setup.interval[h])
  BY DEF PrintsInv
<1> QED
  BY <1>1, SamePrint DEF PrintInv

LEMMA PrintsNext == QueuesInv /\ TransferTypes /\ PrintsInv /\ [Next]_vars => PrintsInv'
<1> SUFFICES ASSUME QueuesInv, TransferTypes, PrintsInv, [Next]_vars PROVE PrintsInv'
  OBVIOUS
<1>0. /\ test \in [Host -> Test] /\ result \in [Host -> Result] /\ walk \in [Host -> Walk]
      /\ taken \in [Host -> Seq(Int)] /\ "client" \in Host /\ "server" \in Host
  BY DEF TransferTypes, QueuesInv, Host
<1>9. \A h \in Host : /\ PrintInv(result[h], test[h], walk[h].at, taken[h], setup.interval[h])
                      /\ result[h] \in Result /\ test[h] \in Test
  BY <1>0 DEF PrintsInv
<1>8. QueuesInv' /\ TransferTypes'
  BY QueuesNext, TypesNext
<1>7. \A h \in Host : result'[h] \in Result
  BY <1>8 DEF TransferTypes
<1>1. CASE UNCHANGED vars
  BY <1>1, PrintsSame DEF vars
<1>2. CASE Tick
  BY <1>2, PrintsSame DEF Tick
<1>3. ASSUME NEW h \in Host, WorkerStep(h) PROVE PrintsInv'
  <2>1. CASE Send(h) \/ Receive(h)
    BY <2>1, PrintsSame DEF Send, Receive
  <2>2. CASE CountTotal(h)
    <3>1. \A k \in Host : /\ result'[k].intervals = result[k].intervals
                          /\ result'[k].printed = result[k].printed
      BY <1>3, <2>2, Counts
    <3> QED
      BY <2>2, <3>1, PrintsSame DEF CountTotal
  <2>3. CASE CountPart(h)
    <3>1. \A k \in Host : /\ result'[k].intervals = result[k].intervals
                          /\ result'[k].printed = result[k].printed
      BY <1>3, <2>3, CountsPart
    <3> QED
      BY <2>3, <3>1, PrintsSame DEF CountPart
  <2> QED
    BY <1>3, <2>1, <2>2, <2>3 DEF WorkerStep
<1>4. ASSUME NEW h \in Host, TimerStep(h) PROVE PrintsInv'
  <2> DEFINE i == setup.interval[h]
             r == result[h]
             t == test[h]
             w == walk[h].at
  <2>0. PrintInv(r, t, w, taken[h], i) /\ r \in Result /\ t \in Test /\ result'[h] \in Result
    BY <1>4, <1>7, <1>9
  <2>1. CASE StartWalk(h)
    <3>1. walk'[h].at # "reporter"
      BY <1>4, <2>1, AfterStart
    <3>2. /\ test[h].phase = "running" /\ w = NoTimer
          /\ UNCHANGED <<setup, test, result, taken>>
          /\ \A k \in Host : k # h => walk'[k] = walk[k]
      BY <1>0, <1>4, <2>1 DEF StartWalk, Running, Idle
    <3>3. PrintInv(r, t, walk'[h].at, taken[h], i)
      BY <2>0, <3>1, <3>2 DEF PrintInv, NoTimer
    <3> QED
      BY <1>4, <3>2, <3>3, PrintsOf
  <2>2. CASE TestTimer(h)
    <3> DEFINE u == [t EXCEPT !.done = TRUE]
    <3>1. test' = [test EXCEPT ![h] = u] /\ u.done = TRUE /\ u.phase = t.phase
      BY <2>0, <2>2 DEF TestTimer, Test
    <3> HIDE DEF u
    <3>2. /\ UNCHANGED <<setup, result, taken>> /\ w = "timer" /\ test'[h] = u
          /\ \A k \in Host : k # h => walk'[k] = walk[k] /\ test'[k] = test[k]
      BY <1>0, <1>4, <2>2, <3>1 DEF TestTimer, Walked
    <3>3. t.phase \in {"running", "over"} /\ taken[h] = NULL
      BY <2>0, <3>2 DEF PrintInv, NoTimer
    <3>4. PrintInv(r, u, walk'[h].at, taken[h], i)
      BY <2>0, <3>1, <3>2, <3>3 DEF PrintInv
    <3> QED
      BY <1>4, <3>2, <3>4, PrintsOf
  <2>3. CASE ServerTimer(h)
    <3> DEFINE u == [[t EXCEPT !.done = TRUE] EXCEPT !.phase = "over"]
    <3>1. test' = [test EXCEPT ![h] = u] /\ u.done = TRUE /\ u.phase = "over"
      BY <2>0, <2>3 DEF ServerTimer, Test
    <3> HIDE DEF u
    <3>2. /\ UNCHANGED <<setup, result, taken>> /\ w = "timer" /\ test'[h] = u
          /\ \A k \in Host : k # h => walk'[k] = walk[k] /\ test'[k] = test[k]
      BY <1>0, <1>4, <2>3, <3>1 DEF ServerTimer, Walked
    <3>3. taken[h] = NULL
      BY <2>0, <3>2 DEF PrintInv, NoTimer
    <3>4. PrintInv(r, u, walk'[h].at, taken[h], i)
      BY <2>0, <3>1, <3>2, <3>3 DEF PrintInv
    <3> QED
      BY <1>4, <3>2, <3>4, PrintsOf
  <2>4. CASE StatsTimerIdle(h)
    <3>1. /\ UNCHANGED <<setup, test, result, taken>> /\ w = "stats" /\ t.done
          /\ \A k \in Host : k # h => walk'[k] = walk[k]
      BY <1>0, <1>4, <2>4 DEF StatsTimerIdle, Walked
    <3>2. t.phase \in {"running", "over"} /\ taken[h] = NULL
      BY <2>0, <3>1 DEF PrintInv, NoTimer
    <3>3. PrintInv(r, t, walk'[h].at, taken[h], i)
      BY <2>0, <3>1, <3>2 DEF PrintInv
    <3> QED
      BY <1>4, <3>1, <3>3, PrintsOf
  <2>5. CASE ReadPart(h)
    <3>1. /\ UNCHANGED <<setup, test, result, walk>>
          /\ (w = "stats" /\ ~t.done) \/ t.phase = "ending"
          /\ \A k \in Host : k # h => taken'[k] = taken[k]
      BY <1>0, <1>4, <2>5 DEF ReadPart
    <3>2. PrintInv(r, t, w, taken'[h], i)
      BY <2>0, <3>1 DEF PrintInv
    <3> QED
      BY <1>4, <3>1, <3>2, PrintsOf
  <2>6. CASE StatsTimer(h)
    <3>1. walk'[h].at = "reporter"
      BY <1>4, <2>6, AfterStats DEF StatsTimer
    <3>2. /\ \E x \in Interval : result'[h].intervals = Append(r.intervals, x)
          /\ result'[h].printed = r.printed /\ taken'[h] = NULL
          /\ \A k \in Host : k # h => result'[k] = result[k] /\ taken'[k] = taken[k]
      BY <1>4, <2>6, AddsTaken DEF StatsTimer
    <3>3. /\ UNCHANGED <<setup, test>> /\ w = "stats" /\ taken[h] # NULL
          /\ \A k \in Host : k # h => walk'[k] = walk[k]
      BY <1>0, <1>4, <2>6 DEF StatsTimer, Walked
    <3>4. t.phase = "running" /\ ~t.done /\ Orderly(i, r) /\ Settled(i, r)
      BY <2>0, <3>3 DEF PrintInv, NoTimer
    <3>5. Orderly(i, result'[h]) /\ Pending(result'[h])
      BY <2>0, <3>2, <3>4, Collecting
    <3>6. PrintInv(result'[h], t, walk'[h].at, taken'[h], i)
      BY <3>1, <3>2, <3>4, <3>5 DEF PrintInv
    <3> QED
      BY <1>4, <3>2, <3>3, <3>6, PrintsOf
  <2>7. CASE ReporterTimer(h)
    <3> DEFINE s == IF t.done THEN r ELSE PrintLast(h, r)
    <3>1. walk'[h].at # "reporter"
      BY <1>4, <2>7, AfterReporter DEF ReporterTimer
    <3>2. result' = [result EXCEPT ![h] = s]
      BY <2>7 DEF ReporterTimer
    <3>3. CASE t.done
      <4>1. s = r
        BY <3>3
      <4>2. /\ UNCHANGED <<setup, test, taken>> /\ w = "reporter" /\ result'[h] = r
            /\ \A k \in Host : k # h => walk'[k] = walk[k] /\ result'[k] = result[k]
        BY <1>0, <1>4, <2>7, <3>2, <4>1 DEF ReporterTimer, Walked
      <4>3. t.phase \in {"running", "over"} /\ taken[h] = NULL
        BY <2>0, <4>2 DEF PrintInv, NoTimer
      <4>4. PrintInv(r, t, walk'[h].at, taken[h], i)
        BY <2>0, <3>3, <4>3 DEF PrintInv
      <4> QED
        BY <1>4, <4>2, <4>4, PrintsOf
    <3>4. CASE ~t.done
      <4>1. s = PrintLast(h, r)
        BY <3>4
      <4> HIDE DEF s
      <4>2. /\ UNCHANGED <<setup, test, taken>> /\ w = "reporter" /\ result'[h] = s
            /\ \A k \in Host : k # h => walk'[k] = walk[k] /\ result'[k] = result[k]
        BY <1>0, <1>4, <2>7, <3>2 DEF ReporterTimer, Walked
      <4>3. t.phase = "running" /\ taken[h] = NULL /\ Orderly(i, r) /\ Pending(r)
        BY <2>0, <3>4, <4>2 DEF PrintInv, NoTimer
      <4>4. /\ s \in Result /\ s.intervals = r.intervals
            /\ s.printed = (IF Len(r.intervals) > 0 /\ Shown(i, r.intervals[Len(r.intervals)])
                            THEN Append(r.printed, Len(r.intervals)) ELSE r.printed)
        BY <1>4, <2>0, <4>1, LastPrinted
      <4>5. Orderly(i, s) /\ Settled(i, s)
        BY <2>0, <4>3, <4>4, Printing
      <4>6. PrintInv(s, t, walk'[h].at, taken[h], i)
        BY <3>1, <3>4, <4>3, <4>5 DEF PrintInv
      <4> QED
        BY <1>4, <4>2, <4>6, PrintsOf
    <3> QED
      BY <3>3, <3>4
  <2>8. CASE OmitTimer(h)
    <3> DEFINE s == ResetStats(r)
               u == [t EXCEPT !.omitting = FALSE]
    <3>1. walk'[h].at # "reporter"
      BY <1>4, <2>8, AfterOmit DEF OmitTimer
    <3>2. s.intervals = r.intervals /\ s.printed = r.printed
      BY <2>0, Forgotten DEF QueuesInv
    <3>3. result' = [result EXCEPT ![h] = s] /\ test' = [test EXCEPT ![h] = u]
          /\ u.phase = t.phase /\ u.done = t.done
      BY <2>0, <2>8 DEF OmitTimer, Test
    <3> HIDE DEF s, u
    <3>4. /\ UNCHANGED <<setup, taken>> /\ w = "omit" /\ result'[h] = s /\ test'[h] = u
          /\ \A k \in Host : k # h => /\ walk'[k] = walk[k] /\ result'[k] = result[k]
                                      /\ test'[k] = test[k]
      BY <1>0, <1>4, <2>8, <3>3 DEF OmitTimer, Walked
    <3>5. t.phase \in {"running", "over"} /\ taken[h] = NULL
      BY <2>0, <3>4 DEF PrintInv, NoTimer
    <3>6. PrintInv(s, u, walk'[h].at, taken[h], i)
      BY <2>0, <3>1, <3>2, <3>3, <3>4, <3>5, SamePrint DEF PrintInv
    <3> QED
      BY <1>4, <3>4, <3>6, PrintsOf
  <2> QED
    BY <1>4, <2>1, <2>2, <2>3, <2>4, <2>5, <2>6, <2>7, <2>8 DEF TimerStep
<1>5. CASE EndStep
  <2> DEFINE ic == setup.interval["client"]
             is == setup.interval["server"]
             c == result["client"]
             s == result["server"]
  <2>0. /\ PrintInv(c, test["client"], walk["client"].at, taken["client"], ic)
        /\ PrintInv(s, test["server"], walk["server"].at, taken["server"], is)
        /\ c \in Result /\ s \in Result /\ result'["client"] \in Result
        /\ result'["server"] \in Result
    BY <1>0, <1>7, <1>9
  <2>1. CASE ClientEnds
    <3>1. /\ UNCHANGED <<setup, walk, result, taken>> /\ walk["client"].at = NoTimer
          /\ test["client"].phase = "running" /\ test["client"].done
      BY <2>1 DEF ClientEnds, Running, MayEnd, Idle
    <3>2. /\ test'["client"].phase = "ending" /\ test'["client"].done = test["client"].done
          /\ \A k \in Host : k # "client" => test'[k] = test[k]
      BY <1>0, <2>1, PhaseTyped DEF ClientEnds, Phase
    <3>3. PrintInv(c, test'["client"], walk["client"].at, taken["client"], ic)
      BY <2>0, <3>1, <3>2 DEF PrintInv
    <3> QED
      BY <1>0, <3>1, <3>2, <3>3, PrintsOf
  <2>2. CASE ClientEnded
    <3>1. /\ UNCHANGED <<setup, walk>> /\ test["client"].phase = "ending"
          /\ taken["client"] # NULL
      BY <2>2 DEF ClientEnded
    <3>2. /\ test'["client"].phase = "ended" /\ test'["client"].done = test["client"].done
          /\ \A k \in Host : k # "client" => test'[k] = test[k]
      BY <1>0, <2>2, PhaseTyped DEF ClientEnded, Phase
    <3>3. /\ \E x \in Interval : result'["client"].intervals = Append(c.intervals, x)
          /\ result'["client"].printed = c.printed /\ taken'["client"] = NULL
          /\ \A k \in Host : k # "client" => result'[k] = result[k] /\ taken'[k] = taken[k]
      BY <1>0, <2>2, AddsTaken DEF ClientEnded
    <3>4. /\ Orderly(ic, c) /\ Settled(ic, c) /\ walk["client"].at = NoTimer
          /\ test["client"].done
      BY <2>0, <3>1 DEF PrintInv
    <3>5. Orderly(ic, result'["client"]) /\ Pending(result'["client"])
      BY <2>0, <3>3, <3>4, Collecting
    <3>6. PrintInv(result'["client"], test'["client"], walk["client"].at, taken'["client"], ic)
      BY <3>2, <3>3, <3>4, <3>5 DEF PrintInv
    <3> QED
      BY <1>0, <3>1, <3>2, <3>3, <3>6, PrintsOf
  <2>3. CASE ServerEnds
    <3> DEFINE u == [test["server"] EXCEPT !.phase = "ending", !.done = TRUE]
    <3>1. test' = [test EXCEPT !["server"] = u] /\ u.phase = "ending" /\ u.done = TRUE
      BY <1>0, <1>9, <2>3 DEF ServerEnds, Test
    <3> HIDE DEF u
    <3>2. /\ UNCHANGED <<setup, walk, result, taken>> /\ walk["server"].at = NoTimer
          /\ test["server"].phase = "running" /\ test'["server"] = u
          /\ \A k \in Host : k # "server" => test'[k] = test[k]
      BY <1>0, <2>3, <3>1 DEF ServerEnds, Running, Idle
    <3>3. PrintInv(s, u, walk["server"].at, taken["server"], is)
      BY <2>0, <3>1, <3>2 DEF PrintInv, NoTimer
    <3> QED
      BY <1>0, <3>2, <3>3, PrintsOf
  <2>4. CASE ServerCloses
    <3>1. /\ UNCHANGED <<setup, walk>> /\ test["server"].phase = "ending"
          /\ taken["server"] # NULL
      BY <2>4 DEF ServerCloses
    <3>2. /\ test'["server"].phase = "closed" /\ test'["server"].done = test["server"].done
          /\ \A k \in Host : k # "server" => test'[k] = test[k]
      BY <1>0, <2>4, PhaseTyped DEF ServerCloses, Phase
    <3>3. /\ \E x \in Interval : result'["server"].intervals = Append(s.intervals, x)
          /\ result'["server"].printed = s.printed /\ taken'["server"] = NULL
          /\ \A k \in Host : k # "server" => result'[k] = result[k] /\ taken'[k] = taken[k]
      BY <1>0, <2>4, AddsTaken DEF ServerCloses
    <3>4. /\ Orderly(is, s) /\ Settled(is, s) /\ walk["server"].at = NoTimer
          /\ test["server"].done
      BY <2>0, <3>1 DEF PrintInv
    <3>5. Orderly(is, result'["server"]) /\ Pending(result'["server"])
      BY <2>0, <3>3, <3>4, Collecting
    <3>6. PrintInv(result'["server"], test'["server"], walk["server"].at, taken'["server"], is)
      BY <3>2, <3>3, <3>4, <3>5 DEF PrintInv
    <3> QED
      BY <1>0, <3>1, <3>2, <3>3, <3>6, PrintsOf
  <2>5. CASE ServerReports
    <3> DEFINE p == PrintLast("server", s)
               q == Summarise(p, Sender("server"))
    <3>1. /\ p \in Result /\ p.intervals = s.intervals
          /\ p.printed = (IF Len(s.intervals) > 0 /\ Shown(is, s.intervals[Len(s.intervals)])
                          THEN Append(s.printed, Len(s.intervals)) ELSE s.printed)
      BY <1>0, <2>0, LastPrinted
    <3>2. result' = [result EXCEPT !["server"] = q]
      BY <2>5 DEF ServerReports
    <3> HIDE DEF p
    <3>3. q.intervals = p.intervals /\ q.printed = p.printed
      BY <3>1, Summarised DEF Sender
    <3> HIDE DEF q
    <3>4. /\ UNCHANGED <<setup, walk, taken>> /\ test["server"].phase = "closed"
          /\ result'["server"] = q /\ \A k \in Host : k # "server" => result'[k] = result[k]
      BY <1>0, <2>5, <3>2 DEF ServerReports
    <3>5. /\ test'["server"].phase = "reported" /\ test'["server"].done = test["server"].done
          /\ \A k \in Host : k # "server" => test'[k] = test[k]
      BY <1>0, <2>5, PhaseTyped DEF ServerReports, Phase
    <3>6. /\ Orderly(is, s) /\ Pending(s) /\ walk["server"].at = NoTimer
          /\ test["server"].done /\ taken["server"] = NULL
      BY <2>0, <3>4 DEF PrintInv, NoTimer
    <3>7. Orderly(is, p)
      BY <2>0, <3>1, <3>6, Printing
    <3>8. PrintInv(q, test'["server"], walk["server"].at, taken["server"], is)
      BY <3>3, <3>5, <3>6, <3>7, SamePrint DEF PrintInv
    <3> QED
      BY <1>0, <3>4, <3>5, <3>8, PrintsOf
  <2>6. CASE ClientSendsResults
    <3>1. /\ UNCHANGED <<setup, walk, result, taken>> /\ test["client"].phase = "ended"
      BY <2>6 DEF ClientSendsResults
    <3>2. /\ test'["client"].phase = "exchange" /\ test'["client"].done = test["client"].done
          /\ \A k \in Host : k # "client" => test'[k] = test[k]
      BY <1>0, <2>6, PhaseTyped DEF ClientSendsResults, Phase
    <3>3. PrintInv(c, test'["client"], walk["client"].at, taken["client"], ic)
      BY <2>0, <3>1, <3>2 DEF PrintInv, NoTimer
    <3> QED
      BY <1>0, <3>1, <3>2, <3>3, PrintsOf
  <2>7. CASE ServerExchanges
    <3> DEFINE q == Learn("server", s, Head(wire["server"]))
    <3>1. Head(wire["server"]) \in ResultsMessage
      BY <1>0, <2>7, FirstMessage DEF ServerExchanges, Gets, TransferTypes
    <3>2. q.intervals = s.intervals /\ q.printed = s.printed
      BY <1>0, <2>0, <3>1, Learned
    <3>3. result' = [result EXCEPT !["server"] = q]
      BY <2>7 DEF ServerExchanges
    <3> HIDE DEF q
    <3>4. /\ UNCHANGED <<setup, walk, taken>> /\ test["server"].phase = "reported"
          /\ result'["server"] = q /\ \A k \in Host : k # "server" => result'[k] = result[k]
      BY <1>0, <2>7, <3>3 DEF ServerExchanges
    <3>5. /\ test'["server"].phase = "over" /\ test'["server"].done = test["server"].done
          /\ \A k \in Host : k # "server" => test'[k] = test[k]
      BY <1>0, <2>7, PhaseTyped DEF ServerExchanges, Phase
    <3>6. /\ Orderly(is, s) /\ test["server"].done /\ taken["server"] = NULL
      BY <2>0, <3>4 DEF PrintInv, NoTimer
    <3>7. PrintInv(q, test'["server"], walk["server"].at, taken["server"], is)
      BY <3>2, <3>5, <3>6, SamePrint DEF PrintInv
    <3> QED
      BY <1>0, <3>4, <3>5, <3>7, PrintsOf
  <2>8. CASE ClientDisplays
    <3> DEFINE l == Learn("client", c, Head(wire["client"]))
               p == PrintLast("client", l)
               q == Summarise(p, Sender("client"))
               u == [test["client"] EXCEPT !.phase = "over", !.done = TRUE]
    <3>1. Head(wire["client"]) \in ResultsMessage
      BY <1>0, <2>8, FirstMessage DEF ClientDisplays, Gets, TransferTypes
    <3>2. l \in Result /\ l.intervals = c.intervals /\ l.printed = c.printed
      BY <1>0, <2>0, <3>1, Learned
    <3>3. result' = [result EXCEPT !["client"] = q]
      BY <2>8 DEF ClientDisplays
    <3> HIDE DEF l
    <3>4. /\ p \in Result /\ p.intervals = l.intervals
          /\ p.printed = (IF Len(l.intervals) > 0 /\ Shown(ic, l.intervals[Len(l.intervals)])
                          THEN Append(l.printed, Len(l.intervals)) ELSE l.printed)
      BY <1>0, <3>2, LastPrinted
    <3> HIDE DEF p
    <3>5. q.intervals = p.intervals /\ q.printed = p.printed
      BY <3>4, Summarised DEF Sender
    <3>6. test' = [test EXCEPT !["client"] = u] /\ u.phase = "over" /\ u.done = TRUE
      BY <1>0, <1>9, <2>8 DEF ClientDisplays, Test
    <3> HIDE DEF q, u
    <3>7. /\ UNCHANGED <<setup, walk, taken>> /\ test["client"].phase = "exchange"
          /\ result'["client"] = q /\ test'["client"] = u
          /\ \A k \in Host : k # "client" => result'[k] = result[k] /\ test'[k] = test[k]
      BY <1>0, <2>8, <3>3, <3>6 DEF ClientDisplays
    <3>8. Orderly(ic, c) /\ Pending(c) /\ taken["client"] = NULL
      BY <2>0, <3>7 DEF PrintInv, NoTimer
    <3>9. Orderly(ic, l) /\ Pending(l)
      BY <3>2, <3>8, SamePrint
    <3>10. Orderly(ic, p)
      BY <3>2, <3>4, <3>9, Printing
    <3>11. PrintInv(q, u, walk["client"].at, taken["client"], ic)
      BY <3>5, <3>6, <3>8, <3>10, SamePrint DEF PrintInv
    <3> QED
      BY <1>0, <3>7, <3>11, PrintsOf
  <2>9. CASE ClientIsCut
    <3>1. /\ UNCHANGED <<setup, walk, result, taken>>
          /\ test["client"].phase \in {"ended", "exchange"}
      BY <2>9 DEF ClientIsCut
    <3>2. /\ test'["client"].phase = "over" /\ test'["client"].done = test["client"].done
          /\ \A k \in Host : k # "client" => test'[k] = test[k]
      BY <1>0, <2>9, PhaseTyped DEF ClientIsCut, Phase
    <3>3. PrintInv(c, test'["client"], walk["client"].at, taken["client"], ic)
      BY <2>0, <3>1, <3>2 DEF PrintInv, NoTimer
    <3> QED
      BY <1>0, <3>1, <3>2, <3>3, PrintsOf
  <2> QED
    BY <1>5, <2>1, <2>2, <2>3, <2>4, <2>5, <2>6, <2>7, <2>8, <2>9 DEF EndStep
<1> QED
  BY <1>1, <1>2, <1>3, <1>4, <1>5 DEF Next

(* Every interval that is kept is printed once, in its place: a report      *)
(* never repeats an interval, and none is collected before the one before   *)
(* it has been printed                                                      *)
THEOREM IntervalsPrintedOnce == Spec => []PrintedOnce
<1> DEFINE Inv == QueuesInv /\ TransferTypes /\ PrintsInv
<1>1. Init => Inv
  BY QueuesInit, TypesInit, PrintsInit
<1>2. Inv /\ [Next]_vars => Inv'
  BY QueuesNext, TypesNext, PrintsNext
<1>3. Inv => PrintedOnce
  <2> SUFFICES ASSUME Inv, NEW h \in Host
      PROVE  LET r == result[h]
                 n == Len(r.intervals)
             IN  /\ \A i \in 1 .. Len(r.printed) - 1 : r.printed[i] < r.printed[i + 1]
                 /\ \A i \in 1 .. n - 1 :
                      Kept(h, r.intervals[i]) => \E j \in DOMAIN r.printed : r.printed[j] = i
    BY DEF PrintedOnce
  <2>1. Orderly(setup.interval[h], result[h]) /\ result[h].printed \in Seq(Nat)
    BY DEF PrintsInv, PrintInv, TransferTypes, Result
  <2>2. DOMAIN result[h].printed = 1 .. Len(result[h].printed)
    BY <2>1, LenProperties
  <2> QED
    BY <2>1, <2>2 DEF Orderly, Printed, Kept, Shown
<1> HIDE DEF Inv
<1> QED
  BY <1>1, <1>2, <1>3, PTL DEF Spec

-----------------------------------------------------------------------------
(* The blocks on their way, and the results *)

Receiver == IF setup.dir = "up" THEN "server" ELSE "client"
Source == IF setup.dir = "up" THEN "client" ELSE "server"
InHand(state) == IF state = "moved" THEN 1 ELSE 0
Uncounted(state) == IF state \in {"moved", "gone"} THEN 1 ELSE 0

(* What has been received or is on its way was sent, and all that was sent  *)
(* is counted but for the block a sender has in hand or had when it was     *)
(* cancelled                                                                *)
FlowInv ==
    /\ result[Receiver].received >= 0
    /\ result[Receiver].received + InHand(worker[Receiver]) + pipe
         <= result[Source].sent + Uncounted(worker[Source])

(* Without omitting nothing is taken off what was sent, and a client that   *)
(* receives learns only at the end what was sent                            *)
OmittedInv ==
    /\ setup.omit = 0 => \A h \in Host : result[h].sentOmit = 0
    /\ test["client"].phase = "over" => walk["client"].at = NoTimer
    /\ setup.dir # "up" =>
         /\ result["client"].sentOmit = 0
         /\ test["client"].phase # "over" => result["client"].sent = 0

(* What a host says of the data it has counted itself agrees with the       *)
(* summary x it has printed, with room for more blocks                      *)
Agrees(dir, x, bytes, time, more) ==
    IF dir = "up" THEN bytes = x.received /\ time = x.receiverTime
    ELSE /\ x.sent <= bytes /\ bytes <= x.sent + more
         /\ time = x.senderTime

(* The server between its report and the results of the client *)
ReportInv(dir, s, state) ==
    /\ s.summary # NULL
    /\ Agrees(dir, s.summary, IF dir = "up" THEN s.received ELSE s.sent - s.sentOmit,
              Elapsed(s), 1 - InHand(state))

(* A message on its way to the client *)
AnswerInv(u, c, s, m) ==
    m.type = "results" =>
        /\ s.summary # NULL
        /\ Agrees(u.dir, s.summary, m.bytes, m.time, 1)
        /\ u.omit = 0 => IF u.dir = "up" THEN m.bytes <= c.sent + 1
                         ELSE c.received <= m.bytes + 1

(* ResultsAgree, of two summaries *)
SummariesAgree(u, c, s) ==
    LET known(x) == IF u.dir = "up" THEN x.received ELSE x.sent
        time(x) == IF u.dir = "up" THEN x.receiverTime ELSE x.senderTime
    IN  /\ Near(known(c), known(s))
        /\ time(s) > 0 => time(c) = time(s)
        /\ u.omit = 0 => c.received <= c.sent + 1

Sent(q, m) == \E k \in 1 .. Len(q) : q[k] = m /\ m.type = "results"

(* Of the setup u, the results c and s of client and server, their phases,  *)
(* the worker of the server and what is on its way to the client and to the *)
(* server                                                                   *)
Exchange(u, c, s, cphase, sphase, state, toclient, toserver) ==
    /\ s.summary # NULL => sphase \in {"reported", "over"}
    /\ sphase = "reported" => ReportInv(u.dir, s, state)
    /\ (\E m \in Message : Sent(toserver, m)) => cphase \in {"exchange", "over"}
    /\ \A m \in Message : Sent(toclient, m) =>
         cphase \in {"exchange", "over"} /\ sphase = "over" /\ AnswerInv(u, c, s, m)
    /\ c.summary # NULL => /\ cphase = "over" /\ sphase = "over" /\ s.summary # NULL
                           /\ SummariesAgree(u, c.summary, s.summary)

ResultsInv ==
    Exchange(setup, result["client"], result["server"], test["client"].phase,
             test["server"].phase, worker["server"], wire["client"], wire["server"])

SameCounts(r, s) ==
    /\ s.sent = r.sent /\ s.sentOmit = r.sentOmit
    /\ s.received = r.received /\ s.summary = r.summary

(* The phases the results depend on are left for a later one only *)
LaterPhases(cphase, sphase, cnext, snext) ==
    /\ cphase = "over" => cnext = "over"
    /\ cphase = "exchange" => cnext \in {"exchange", "over"}
    /\ sphase = "over" => snext = "over"
    /\ sphase = "reported" => snext \in {"reported", "over"}
    /\ snext = "reported" => sphase = "reported"

(* Nothing is reported, learned or displayed: d, t, cnext, snext, next, wd   *)
(* and wt are the new values                                                *)
Unheard(u, c, d, s, t, cphase, sphase, cnext, snext, next, wc, wd, ws, wt) ==
    /\ LaterPhases(cphase, sphase, cnext, snext)
    /\ d.summary = c.summary /\ t.summary = s.summary
    /\ cphase \in {"exchange", "over"} => d.sent >= c.sent /\ d.received <= c.received
    /\ snext = "reported" => ReportInv(u.dir, t, next)
    /\ \A m \in Message : Sent(wt, m) => cnext = "exchange" \/ Sent(ws, m)
    /\ \A m \in Message : Sent(wd, m) => Sent(wc, m)

LEMMA AnswerStays ==
    ASSUME NEW u, NEW c \in Result, NEW d \in Result, NEW s, NEW t, NEW m \in Message,
           AnswerInv(u, c, s, m), t.summary = s.summary,
           u.dir = "up" => d.sent >= c.sent, u.dir # "up" => d.received <= c.received
    PROVE  AnswerInv(u, d, t, m)
<1> SUFFICES ASSUME m.type = "results" PROVE AnswerInv(u, d, t, m)
  BY DEF AnswerInv
<1>1. m.bytes \in Int
  BY DEF Message, ResultsMessage
<1>2. /\ c.sent \in Int /\ d.sent \in Int /\ c.received \in Int /\ d.received \in Int
  BY DEF Result
<1>3. u.omit = 0 => IF u.dir = "up" THEN m.bytes <= c.sent + 1 ELSE c.received <= m.bytes + 1
  BY DEF AnswerInv
<1>4. u.omit = 0 => IF u.dir = "up" THEN m.bytes <= d.sent + 1 ELSE d.received <= m.bytes + 1
  BY <1>1, <1>2, <1>3
<1> QED
  BY <1>4 DEF AnswerInv

LEMMA ExchangeGoesOn ==
    ASSUME NEW u, NEW c \in Result, NEW d \in Result, NEW s \in Result, NEW t \in Result,
           NEW cphase, NEW sphase, NEW cnext, NEW snext, NEW state, NEW next,
           NEW wc, NEW wd, NEW ws, NEW wt,
           Exchange(u, c, s, cphase, sphase, state, wc, ws),
           Unheard(u, c, d, s, t, cphase, sphase, cnext, snext, next, wc, wd, ws, wt)
    PROVE  Exchange(u, d, t, cnext, snext, next, wd, wt)
<1>1. t.summary # NULL => snext \in {"reported", "over"}
  BY DEF Exchange, LaterPhases, Unheard
<1>2. (\E m \in Message : Sent(wt, m)) => cnext \in {"exchange", "over"}
  BY DEF Exchange, LaterPhases, Unheard
<1>3. ASSUME NEW m \in Message, Sent(wd, m)
      PROVE  cnext \in {"exchange", "over"} /\ snext = "over" /\ AnswerInv(u, d, t, m)
  <2>1. cphase \in {"exchange", "over"} /\ sphase = "over" /\ AnswerInv(u, c, s, m)
    BY <1>3 DEF Exchange, Unheard
  <2>2. AnswerInv(u, d, t, m)
    BY <2>1, AnswerStays DEF Unheard
  <2> QED
    BY <2>1, <2>2 DEF LaterPhases, Unheard
<1>4. d.summary # NULL => /\ cnext = "over" /\ snext = "over" /\ t.summary # NULL
                          /\ SummariesAgree(u, d.summary, t.summary)
  BY DEF Exchange, LaterPhases, Unheard
<1>5. snext = "reported" => ReportInv(u.dir, t, next)
  BY DEF Unheard
<1> QED
  BY <1>1, <1>2, <1>3, <1>4, <1>5 DEF Exchange

LEMMA ReportStays ==
    ASSUME NEW dir, NEW s \in Result, NEW t \in Result, NEW state, NEW next,
           ReportInv(dir, s, state), SameCounts(s, t), t.start = s.start, t.end = s.end,
           dir # "up" => InHand(next) = InHand(state)
    PROVE  ReportInv(dir, t, next)
  BY DEF ReportInv, Agrees, SameCounts, Elapsed

(* The server makes its report *)
LEMMA ReportMade ==
    ASSUME NEW dir, NEW r \in Result, NEW state,
           NEW s, s = Summarise(r, dir # "up")
    PROVE  ReportInv(dir, s, state)
<1>1. /\ s \in Result /\ s.summary # NULL
      /\ s.sent = r.sent /\ s.sentOmit = r.sentOmit /\ s.received = r.received
      /\ s.start = r.start /\ s.end = r.end
      /\ s.summary.sent = r.sent - r.sentOmit /\ s.summary.received = r.received
      /\ dir # "up" => s.summary.senderTime = Elapsed(r)
      /\ dir = "up" => s.summary.receiverTime = Elapsed(r)
  BY Summarised
<1>2. r.sent - r.sentOmit \in Int
  BY DEF Result
<1>3. Elapsed(s) = Elapsed(r)
  BY <1>1 DEF Elapsed
<1> DEFINE x == s.summary
           n == r.sent - r.sentOmit
           more == 1 - InHand(state)
<1>4. more \in Nat
  BY DEF InHand
<1>5. n <= n + more
  BY <1>2, <1>4
<1> QED
  BY <1>1, <1>2, <1>3, <1>5 DEF ReportInv, Agrees

(* The server answers with what it has counted *)
LEMMA AnswerMade ==
    ASSUME NEW u, NEW c \in Result, NEW s \in Result, NEW t, NEW state, NEW m \in Message,
           ReportInv(u.dir, s, state), t.summary = s.summary, m.time = Elapsed(s),
           m.bytes = IF u.dir = "up" THEN s.received ELSE s.sent - s.sentOmit,
           u.omit = 0 => s.sentOmit = 0,
           IF u.dir = "up" THEN s.received <= c.sent + 1 ELSE c.received <= s.sent + 1
    PROVE  AnswerInv(u, c, t, m)
<1>0. /\ s.sent \in Int /\ s.sentOmit \in Int /\ s.received \in Int /\ c.sent \in Int
      /\ c.received \in Int /\ s.summary \in {NULL} \cup Summary
  BY DEF Result
<1>1. s.summary # NULL /\ t.summary # NULL /\ s.summary \in Summary
  BY <1>0 DEF ReportInv
<1>2. InHand(state) \in {0, 1} /\ s.summary.sent \in Int
  BY <1>1 DEF InHand, Summary
<1>3. Agrees(u.dir, s.summary, m.bytes, m.time, 1)
  <2>1. CASE u.dir = "up"
    BY <2>1 DEF ReportInv, Agrees
  <2>2. CASE u.dir # "up"
    BY <1>0, <1>2, <2>2 DEF ReportInv, Agrees
  <2> QED
    BY <2>1, <2>2
<1>4. u.omit = 0 => IF u.dir = "up" THEN m.bytes <= c.sent + 1 ELSE c.received <= m.bytes + 1
  BY <1>0
<1> QED
  BY <1>1, <1>3, <1>4 DEF AnswerInv

(* The client displays what it has been told *)
LEMMA DisplayMade ==
    ASSUME NEW u, NEW c \in Result, NEW s \in Result, NEW m \in ResultsMessage,
           NEW r \in Result, NEW d, d = Summarise(r, u.dir = "up"),
           m.type = "results", AnswerInv(u, c, s, m), r.time = m.time, r.sentOmit = c.sentOmit,
           r.sent = (IF u.dir = "up" THEN c.sent ELSE m.bytes),
           r.received = (IF u.dir = "up" THEN m.bytes ELSE c.received),
           u.omit = 0 => c.sentOmit = 0, u.dir # "up" => c.sentOmit = 0
    PROVE  SummariesAgree(u, d.summary, s.summary)
<1>0. /\ c.sent \in Int /\ c.sentOmit \in Int /\ c.received \in Int
      /\ m.bytes \in Int /\ m.time \in Nat
      /\ s.summary \in {NULL} \cup Summary
  BY DEF Result, ResultsMessage
<1> DEFINE x == d.summary
           y == s.summary
<1>1. /\ x.sent = r.sent - r.sentOmit /\ x.received = r.received
      /\ u.dir = "up" => x.receiverTime = IF r.time = 0 THEN Elapsed(r) ELSE r.time
      /\ u.dir # "up" => x.senderTime = IF r.time = 0 THEN Elapsed(r) ELSE r.time
  BY Summarised
<1>2. /\ y # NULL /\ Agrees(u.dir, y, m.bytes, m.time, 1)
      /\ u.omit = 0 => IF u.dir = "up" THEN m.bytes <= c.sent + 1
                       ELSE c.received <= m.bytes + 1
  BY DEF AnswerInv
<1>3. y.sent \in Int /\ y.received \in Int
  BY <1>0, <1>2 DEF Summary
<1> HIDE DEF x, y
<1>4. CASE u.dir = "up"
  <2>1. x.received = m.bytes /\ y.received = m.bytes /\ y.receiverTime = m.time
    BY <1>1, <1>2, <1>4 DEF Agrees
  <2>2. Near(x.received, y.received)
    BY <1>0, <2>1 DEF Near
  <2>3. y.receiverTime > 0 => x.receiverTime = y.receiverTime
    BY <1>0, <1>1, <1>4, <2>1
  <2>4. u.omit = 0 => x.received <= x.sent + 1
    BY <1>0, <1>1, <1>2, <1>4, <2>1
  <2> QED
    BY <1>4, <2>2, <2>3, <2>4 DEF SummariesAgree, x, y
<1>5. CASE u.dir # "up"
  <2>1. /\ x.sent = m.bytes /\ y.sent <= m.bytes /\ m.bytes <= y.sent + 1
        /\ y.senderTime = m.time
    BY <1>0, <1>1, <1>2, <1>5 DEF Agrees
  <2>2. Near(x.sent, y.sent)
    BY <1>0, <1>3, <2>1 DEF Near
  <2>3. y.senderTime > 0 => x.senderTime = y.senderTime
    BY <1>0, <1>1, <1>5, <2>1
  <2>4. u.omit = 0 => x.received <= x.sent + 1
    BY <1>0, <1>1, <1>2, <1>5, <2>1
  <2> QED
    BY <1>5, <2>2, <2>3, <2>4 DEF SummariesAgree, x, y
<1> QED
  BY <1>4, <1>5

-----------------------------------------------------------------------------
(* Most steps: nothing is counted, reported, learned or displayed *)

LEMMA FlowGoesOn ==
    ASSUME TransferTypes, TransferTypes', FlowInv, setup' = setup,
           0 <= result'[Receiver].received, result'[Receiver].received <= result[Receiver].received,
           result'[Source].sent = result[Source].sent, pipe' <= pipe,
           \A h \in Host : \/ worker'[h] = "gone"
                           \/ /\ InHand(worker'[h]) = InHand(worker[h])
                              /\ Uncounted(worker'[h]) = Uncounted(worker[h])
    PROVE  FlowInv'
<1>1. Receiver \in Host /\ Source \in Host /\ Receiver' = Receiver /\ Source' = Source
  BY DEF Host, Receiver, Source
<1> DEFINE r == result[Receiver]
           s == result[Source]
           t == result'[Receiver]
           v == result'[Source]
           a == InHand(worker[Receiver])
           b == InHand(worker'[Receiver])
           d == Uncounted(worker[Source])
           e == Uncounted(worker'[Source])
<1>2. /\ r.received \in Int /\ t.received \in Int /\ s.sent \in Int /\ pipe \in Nat /\ pipe' \in Nat
  BY <1>1 DEF TransferTypes, Result
<1>3. a \in {0, 1} /\ d \in {0, 1} /\ (b = a \/ b = 0) /\ (e = d \/ e = 1)
  BY <1>1 DEF InHand, Uncounted
<1>4. r.received + a + pipe <= s.sent + d /\ 0 <= t.received /\ t.received <= r.received
      /\ v.sent = s.sent
  BY DEF FlowInv
<1> HIDE DEF r, s, t, v, a, b, d, e
<1>5. t.received >= 0 /\ t.received + b + pipe' <= v.sent + e
  BY <1>2, <1>3, <1>4
<1> QED
  BY <1>1, <1>5 DEF FlowInv, r, s, t, v, a, b, d, e

LEMMA OmittedGoesOn ==
    ASSUME OmittedInv, setup' = setup,
           \A h \in Host : result'[h].sentOmit = result[h].sentOmit,
           test'["client"].phase = "over" => walk'["client"].at = NoTimer,
           setup.dir # "up" /\ test'["client"].phase # "over" =>
             test["client"].phase # "over" /\ result'["client"].sent = result["client"].sent
    PROVE  OmittedInv'
<1>1. "client" \in Host
  BY DEF Host
<1> QED
  BY <1>1 DEF OmittedInv

LEMMA ResultsGoOn ==
    ASSUME TransferTypes, TransferTypes', ResultsInv, setup' = setup,
           result'["client"].summary = result["client"].summary,
           result'["server"].summary = result["server"].summary,
           test["client"].phase \in {"exchange", "over"} =>
             /\ result'["client"].sent >= result["client"].sent
             /\ result'["client"].received <= result["client"].received,
           LaterPhases(test["client"].phase, test["server"].phase,
                       test'["client"].phase, test'["server"].phase),
           test["server"].phase = "reported" /\ test'["server"].phase = "reported"
             /\ ReportInv(setup.dir, result["server"], worker["server"])
             => ReportInv(setup.dir, result'["server"], worker'["server"]),
           \A m \in Message : Sent(wire'["server"], m) =>
             test'["client"].phase = "exchange" \/ Sent(wire["server"], m),
           \A m \in Message : Sent(wire'["client"], m) => Sent(wire["client"], m)
    PROVE  ResultsInv'
<1> DEFINE c == result["client"]
           s == result["server"]
           d == result'["client"]
           t == result'["server"]
           cphase == test["client"].phase
           sphase == test["server"].phase
           cnext == test'["client"].phase
           snext == test'["server"].phase
           state == worker["server"]
           next == worker'["server"]
           wc == wire["client"]
           wd == wire'["client"]
           ws == wire["server"]
           wt == wire'["server"]
<1>1. c \in Result /\ d \in Result /\ s \in Result /\ t \in Result
  BY DEF TransferTypes, Host
<1>2. Exchange(setup, c, s, cphase, sphase, state, wc, ws)
  BY DEF ResultsInv
<1>3. LaterPhases(cphase, sphase, cnext, snext)
  OBVIOUS
<1>4. /\ d.summary = c.summary /\ t.summary = s.summary
      /\ cphase \in {"exchange", "over"} => d.sent >= c.sent /\ d.received <= c.received
  OBVIOUS
<1>5. snext = "reported" => ReportInv(setup.dir, t, next)
  BY <1>2, <1>3 DEF Exchange, LaterPhases
<1>6. /\ \A m \in Message : Sent(wt, m) => cnext = "exchange" \/ Sent(ws, m)
      /\ \A m \in Message : Sent(wd, m) => Sent(wc, m)
  OBVIOUS
<1> HIDE DEF c, s, d, t, cphase, sphase, cnext, snext, state, next, wc, wd, ws, wt
<1>7. Unheard(setup, c, d, s, t, cphase, sphase, cnext, snext, next, wc, wd, ws, wt)
  BY <1>3, <1>4, <1>5, <1>6 DEF Unheard
<1>8. Exchange(setup, d, t, cnext, snext, next, wd, wt)
  BY <1>1, <1>2, <1>7, ExchangeGoesOn
<1> QED
  BY <1>8 DEF ResultsInv, d, t, cnext, snext, next, wd, wt

LEMMA AllGoesOn ==
    ASSUME TransferTypes, TransferTypes', FlowInv, OmittedInv, ResultsInv, setup' = setup,
           \A h \in Host : SameCounts(result[h], result'[h]),
           pipe' <= pipe,
           \A h \in Host : \/ worker'[h] = "gone"
                           \/ /\ InHand(worker'[h]) = InHand(worker[h])
                              /\ Uncounted(worker'[h]) = Uncounted(worker[h]),
           test'["client"].phase = "over" => walk'["client"].at = NoTimer,
           LaterPhases(test["client"].phase, test["server"].phase,
                       test'["client"].phase, test'["server"].phase),
           test["server"].phase = "reported" =>
             /\ result'["server"].start = result["server"].start
             /\ result'["server"].end = result["server"].end
             /\ InHand(worker'["server"]) = InHand(worker["server"]),
           \A m \in Message : Sent(wire'["server"], m) =>
             test'["client"].phase = "exchange" \/ Sent(wire["server"], m),
           \A m \in Message : Sent(wire'["client"], m) => Sent(wire["client"], m)
    PROVE  FlowInv' /\ OmittedInv' /\ ResultsInv'
<1>1. "client" \in Host /\ "server" \in Host /\ Receiver \in Host /\ Source \in Host
  BY DEF Host, Receiver, Source
<1>2. /\ \A h \in Host : result[h] \in Result /\ result'[h] \in Result
      /\ \A h \in Host : result[h].sent \in Int /\ result[h].received \in Int
  BY DEF TransferTypes, Result
<1>3. FlowInv'
  <2>1. /\ 0 <= result'[Receiver].received /\ result'[Receiver].received <= result[Receiver].received
        /\ result'[Source].sent = result[Source].sent
    BY <1>1, <1>2 DEF FlowInv, SameCounts
  <2> QED
    BY <2>1, FlowGoesOn
<1>4. OmittedInv'
  <2>1. \A h \in Host : result'[h].sentOmit = result[h].sentOmit
    BY DEF SameCounts
  <2>2. test'["client"].phase # "over" =>
          test["client"].phase # "over" /\ result'["client"].sent = result["client"].sent
    BY <1>1 DEF SameCounts, LaterPhases
  <2> QED
    BY <2>1, <2>2, OmittedGoesOn
<1>5. ResultsInv'
  <2>1. /\ result'["client"].summary = result["client"].summary
        /\ result'["server"].summary = result["server"].summary
        /\ result'["client"].sent >= result["client"].sent
        /\ result'["client"].received <= result["client"].received
    BY <1>1, <1>2 DEF SameCounts
  <2>2. ASSUME test["server"].phase = "reported",
               ReportInv(setup.dir, result["server"], worker["server"])
        PROVE  ReportInv(setup.dir, result'["server"], worker'["server"])
    BY <1>1, <1>2, <2>2, ReportStays
  <2> QED
    BY <2>1, <2>2, ResultsGoOn
<1> QED
  BY <1>3, <1>4, <1>5

(* ... nor said, and the workers do nothing that matters *)
LEMMA Quietly ==
    ASSUME TransferTypes, TransferTypes', FlowInv, OmittedInv, ResultsInv,
           UNCHANGED <<setup, pipe, wire>>,
           \A h \in Host : SameCounts(result[h], result'[h]),
           \A h \in Host : test'[h].phase = test[h].phase,
           \A h \in Host : /\ InHand(worker'[h]) = InHand(worker[h])
                           /\ Uncounted(worker'[h]) = Uncounted(worker[h]),
           test["server"].phase = "reported" =>
             /\ result'["server"].start = result["server"].start
             /\ result'["server"].end = result["server"].end,
           test["client"].phase = "over" => walk'["client"].at = NoTimer
    PROVE  FlowInv' /\ OmittedInv' /\ ResultsInv'
<1>1. pipe' <= pipe
  BY DEF TransferTypes
<1>2. LaterPhases(test["client"].phase, test["server"].phase,
                  test'["client"].phase, test'["server"].phase)
  BY DEF LaterPhases, Host
<1>3. /\ test'["client"].phase = test["client"].phase
      /\ test["server"].phase = "reported" => InHand(worker'["server"]) = InHand(worker["server"])
  BY DEF Host
<1> QED
  BY <1>1, <1>2, <1>3, AllGoesOn

(* A message at the end of a queue, and the first one taken out *)
LEMMA SentLater ==
    ASSUME NEW q \in Seq(Message), NEW x \in Message, NEW m
    PROVE  Sent(Append(q, x), m) => Sent(q, m) \/ (m = x /\ m.type = "results")
<1> SUFFICES ASSUME Sent(Append(q, x), m) PROVE Sent(q, m) \/ (m = x /\ m.type = "results")
  OBVIOUS
<1>1. PICK k \in 1 .. Len(Append(q, x)) : Append(q, x)[k] = m
  BY DEF Sent
<1>2. m.type = "results"
  BY DEF Sent
<1>3. /\ Len(q) \in Nat /\ Len(Append(q, x)) = Len(q) + 1 /\ Append(q, x)[Len(q) + 1] = x
      /\ \A j \in 1 .. Len(q) : Append(q, x)[j] = q[j]
  BY Appended
<1>4. k \in 1 .. Len(q) \/ k = Len(q) + 1
  BY <1>1, <1>3
<1> QED
  BY <1>1, <1>2, <1>3, <1>4 DEF Sent

LEMMA SentBefore ==
    ASSUME NEW q \in Seq(Message), q # <<>>
    PROVE  /\ \A m : Sent(Tail(q), m) => Sent(q, m)
           /\ Head(q).type = "results" => Sent(q, Head(q))
  BY FirstMessage DEF Sent

-----------------------------------------------------------------------------
(* The steps of the workers *)

TransferInv ==
    QueuesInv /\ TransferTypes /\ PrintsInv /\ FlowInv /\ OmittedInv /\ ResultsInv

LEMMA ByHost ==
    ASSUME TransferTypes, NEW h \in Host
    PROVE  /\ Sender(h) <=> h = Source
           /\ h # Source <=> h = Receiver
           /\ Source \in Host /\ Receiver \in Host /\ Source # Receiver
           /\ Sender("client") <=> setup.dir = "up"
           /\ Sender("server") <=> setup.dir # "up"
  BY DEF Sender, Source, Receiver, Host

LEMMA Numbers ==
    ASSUME TransferTypes
    PROVE  /\ \A h \in Host : /\ result[h] \in Result /\ test[h] \in Test
                              /\ result[h].sent \in Int /\ result[h].received \in Int
                              /\ result[h].sent >= result[h].sent
                              /\ result[h].received <= result[h].received
           /\ "client" \in Host /\ "server" \in Host
<1>1. \A h \in Host : result[h] \in Result /\ test[h] \in Test
  BY DEF TransferTypes
<1>2. \A h \in Host : result[h].sent \in Int /\ result[h].received \in Int
  BY <1>1 DEF Result
<1>3. \A h \in Host : /\ result[h].sent >= result[h].sent
                      /\ result[h].received <= result[h].received
  BY <1>2
<1> QED
  BY <1>1, <1>2, <1>3 DEF Host

LEMMA SendAgrees ==
    ASSUME TransferInv, TransferTypes', NEW h \in Host, Send(h)
    PROVE  FlowInv' /\ OmittedInv' /\ ResultsInv'
<1>0. TransferTypes /\ FlowInv /\ OmittedInv /\ ResultsInv
  BY DEF TransferInv
<1>1. /\ h = Source /\ h # Receiver /\ Source \in Host /\ Receiver \in Host
      /\ UNCHANGED <<setup, walk, test, result, wire>> /\ pipe' = pipe + 1
      /\ worker[h] = "loop" /\ worker' = [worker EXCEPT ![h] = "moved"]
      /\ test[h].phase \in {"running", "ending"}
  BY <1>0, ByHost DEF Send, Becomes
<1>2. worker'[h] = "moved" /\ \A k \in Host : k # h => worker'[k] = worker[k]
  BY <1>0, <1>1 DEF TransferTypes
<1>3. FlowInv'
  <2>1. Receiver' = Receiver /\ Source' = Source
    BY <1>1 DEF Receiver, Source
  <2>2. /\ result[Receiver].received \in Int /\ result[Source].sent \in Int /\ pipe \in Nat
        /\ InHand(worker[Receiver]) \in {0, 1}
    BY <1>0, <1>1 DEF TransferTypes, Result, InHand
  <2>3. Uncounted(worker[Source]) = 0 /\ Uncounted(worker'[Source]) = 1
    BY <1>1, <1>2 DEF Uncounted
  <2>4. worker'[Receiver] = worker[Receiver] /\ result' = result /\ pipe' = pipe + 1
    BY <1>1, <1>2
  <2>5. /\ result[Receiver].received >= 0
        /\ result[Receiver].received + InHand(worker[Receiver]) + pipe <= result[Source].sent + 0
    BY <1>0, <2>3 DEF FlowInv
  <2>6. result[Receiver].received + InHand(worker[Receiver]) + (pipe + 1) <= result[Source].sent + 1
    BY <2>2, <2>5
  <2> QED
    BY <2>1, <2>3, <2>4, <2>5, <2>6 DEF FlowInv
<1>4. OmittedInv'
  BY <1>0, <1>1 DEF OmittedInv
<1>5. ResultsInv'
  <2>1. test["server"].phase = "reported" => worker'["server"] = worker["server"]
    BY <1>1, <1>2 DEF Host
  <2>2. /\ result["client"].sent >= result["client"].sent
        /\ result["client"].received <= result["client"].received
    BY <1>0, Numbers
  <2>3. LaterPhases(test["client"].phase, test["server"].phase,
                    test'["client"].phase, test'["server"].phase)
    BY <1>1 DEF LaterPhases
  <2> QED
    BY <1>0, <1>1, <2>1, <2>2, <2>3, ResultsGoOn
<1> QED
  BY <1>3, <1>4, <1>5

LEMMA ReceiveAgrees ==
    ASSUME TransferInv, TransferTypes', NEW h \in Host, Receive(h)
    PROVE  FlowInv' /\ OmittedInv' /\ ResultsInv'
<1>0. TransferTypes /\ PrintsInv /\ FlowInv /\ OmittedInv /\ ResultsInv
  BY DEF TransferInv
<1>1. /\ h = Receiver /\ h # Source /\ Source \in Host /\ Receiver \in Host
      /\ UNCHANGED <<setup, walk, test, result, wire>> /\ pipe' = pipe - 1 /\ pipe > 0
      /\ worker[h] = "loop" /\ worker' = [worker EXCEPT ![h] = "moved"]
      /\ ~test[h].done
  BY <1>0, ByHost DEF Receive, Becomes
<1>2. worker'[h] = "moved" /\ \A k \in Host : k # h => worker'[k] = worker[k]
  BY <1>0, <1>1 DEF TransferTypes
<1>3. FlowInv'
  <2>1. Receiver' = Receiver /\ Source' = Source
    BY <1>1 DEF Receiver, Source
  <2>2. /\ result[Receiver].received \in Int /\ result[Source].sent \in Int /\ pipe \in Nat
        /\ Uncounted(worker[Source]) \in {0, 1}
    BY <1>0, <1>1 DEF TransferTypes, Result, Uncounted
  <2>3. InHand(worker[Receiver]) = 0 /\ InHand(worker'[Receiver]) = 1
    BY <1>1, <1>2 DEF InHand
  <2>4. worker'[Source] = worker[Source] /\ result' = result /\ pipe' = pipe - 1
    BY <1>1, <1>2
  <2>5. /\ result[Receiver].received >= 0
        /\ result[Receiver].received + 0 + pipe <= result[Source].sent + Uncounted(worker[Source])
    BY <1>0, <2>3 DEF FlowInv
  <2>6. result[Receiver].received + 1 + (pipe - 1)
          <= result[Source].sent + Uncounted(worker[Source])
    BY <2>2, <2>5
  <2> QED
    BY <2>1, <2>3, <2>4, <2>5, <2>6 DEF FlowInv
<1>4. OmittedInv'
  BY <1>0, <1>1 DEF OmittedInv
<1>5. ResultsInv'
  <2>1. test[h].phase = "running"
    BY <1>0, <1>1 DEF PrintsInv, PrintInv
  <2>2. test["server"].phase = "reported" => worker'["server"] = worker["server"]
    BY <1>2, <2>1 DEF Host
  <2>3. /\ result["client"].sent >= result["client"].sent
        /\ result["client"].received <= result["client"].received
    BY <1>0, Numbers
  <2>4. LaterPhases(test["client"].phase, test["server"].phase,
                    test'["client"].phase, test'["server"].phase)
    BY <1>1 DEF LaterPhases
  <2> QED
    BY <1>0, <1>1, <2>2, <2>3, <2>4, ResultsGoOn
<1> QED
  BY <1>3, <1>4, <1>5

(* A server that has reported may count one more block: it had it in hand   *)
LEMMA ReportCounts ==
    ASSUME NEW dir, dir # "up", NEW s \in Result, NEW t \in Result,
           ReportInv(dir, s, "moved"), t.summary = s.summary,
           t.start = s.start, t.end = s.end,
           t.sent = s.sent + 1, t.sentOmit = s.sentOmit
    PROVE  ReportInv(dir, t, "counted")
<1>0. s.sent \in Int /\ s.sentOmit \in Int /\ s.summary \in {NULL} \cup Summary
  BY DEF Result
<1>1. s.summary # NULL
  BY DEF ReportInv
<1> DEFINE x == s.summary
<1>2. x.sent \in Int
  BY <1>0, <1>1 DEF Summary
<1>3. /\ x.sent <= s.sent - s.sentOmit /\ s.sent - s.sentOmit <= x.sent + (1 - InHand("moved"))
      /\ Elapsed(s) = x.senderTime
  BY DEF ReportInv, Agrees
<1>4. InHand("moved") = 1 /\ InHand("counted") = 0
  BY DEF InHand
<1>5. x.sent <= t.sent - t.sentOmit /\ t.sent - t.sentOmit <= x.sent + (1 - InHand("counted"))
  BY <1>0, <1>2, <1>3, <1>4
<1>6. Elapsed(t) = Elapsed(s)
  BY DEF Elapsed
<1> QED
  BY <1>1, <1>3, <1>5, <1>6 DEF ReportInv, Agrees

LEMMA CountAgrees ==
    ASSUME TransferInv, TransferTypes', NEW h \in Host, CountTotal(h)
    PROVE  FlowInv' /\ OmittedInv' /\ ResultsInv'
<1>0. TransferTypes /\ PrintsInv /\ FlowInv /\ OmittedInv /\ ResultsInv
  BY DEF TransferInv
<1> DEFINE r == result[h]
           s == result'[h]
           next == worker'[h]
<1>1. /\ s.sent = r.sent + (IF Sender(h) THEN 1 ELSE 0)
      /\ s.received = r.received + (IF ~Sender(h) /\ Running(h) THEN 1 ELSE 0)
      /\ s.sentOmit = r.sentOmit /\ s.summary = r.summary
      /\ s.start = r.start /\ s.end = r.end
      /\ \A k \in Host : k # h => result'[k] = result[k]
  BY <1>0, Counts
<1>2. /\ UNCHANGED <<setup, walk, test, wire, pipe>> /\ worker[h] = "moved"
      /\ \A k \in Host : k # h => worker'[k] = worker[k]
      /\ next = IF Sender(h) \/ Running(h) THEN "counted" ELSE "loop"
  BY <1>0 DEF CountTotal, Becomes, TransferTypes
<1>3. /\ r \in Result /\ s \in Result /\ r.sent \in Int /\ r.received \in Int
      /\ s.sent \in Int /\ s.received \in Int
  BY <1>0, Numbers DEF TransferTypes, Result
<1>4. /\ Sender(h) <=> h = Source
      /\ h # Source <=> h = Receiver
      /\ Source \in Host /\ Receiver \in Host
      /\ Receiver' = Receiver /\ Source' = Source
  BY <1>0, <1>2, ByHost DEF Receiver, Source
<1> HIDE DEF r, s, next
<1>5. FlowInv'
  <2>1. CASE Sender(h)
    <3>1. /\ Uncounted(worker[h]) = 1 /\ Uncounted(next) = 0 /\ s.sent = r.sent + 1
      BY <1>1, <1>2, <2>1 DEF Uncounted
    <3>2. /\ result'[Receiver] = result[Receiver] /\ worker'[Receiver] = worker[Receiver]
          /\ h = Source /\ pipe' = pipe
      BY <1>1, <1>2, <1>4, <2>1
    <3>3. /\ result[Receiver].received >= 0
          /\ result[Receiver].received + InHand(worker[Receiver]) + pipe <= r.sent + 1
      BY <1>0, <3>1, <3>2 DEF FlowInv, r
    <3>4. r.sent + 1 = s.sent + 0
      BY <1>3, <3>1
    <3> QED
      BY <1>4, <3>1, <3>2, <3>3, <3>4 DEF FlowInv, s, next
  <2>2. CASE ~Sender(h)
    <3>1. /\ result'[Source] = result[Source] /\ worker'[Source] = worker[Source]
          /\ h = Receiver /\ pipe' = pipe
      BY <1>1, <1>2, <1>4, <2>2
    <3>2. InHand(worker[h]) = 1 /\ InHand(next) = 0 /\ s.received \in {r.received, r.received + 1}
      BY <1>1, <1>2, <1>3, <2>2 DEF InHand
    <3>3. pipe \in Nat /\ result[Source].sent \in Int /\ Uncounted(worker[Source]) \in Int
      BY <1>0, <1>4, Numbers DEF Uncounted, TransferTypes
    <3>4. /\ r.received >= 0
          /\ r.received + 1 + pipe <= result[Source].sent + Uncounted(worker[Source])
      BY <1>0, <3>1, <3>2 DEF FlowInv, r
    <3>5. /\ s.received >= 0
          /\ s.received + 0 + pipe <= result[Source].sent + Uncounted(worker[Source])
      BY <1>3, <3>2, <3>3, <3>4
    <3> QED
      BY <1>4, <3>1, <3>2, <3>5 DEF FlowInv, s, next
  <2> QED
    BY <2>1, <2>2
<1>6. OmittedInv'
  <2>1. \A k \in Host : result'[k].sentOmit = result[k].sentOmit
    BY <1>1 DEF r, s
  <2>2. setup.dir # "up" => result'["client"].sent = result["client"].sent
    BY <1>0, <1>1, <1>3, ByHost, Numbers DEF r, s
  <2>3. test["client"].phase = "over" => walk["client"].at = NoTimer
    BY <1>0 DEF OmittedInv
  <2> QED
    BY <1>0, <1>2, <2>1, <2>2, <2>3, OmittedGoesOn
<1>7. ResultsInv'
  <2>1. \A k \in Host : result'[k].summary = result[k].summary
    BY <1>1 DEF r, s
  <2>2. test["client"].phase \in {"exchange", "over"} =>
          /\ result'["client"].sent >= result["client"].sent
          /\ result'["client"].received <= result["client"].received
    <3>1. CASE h # "client"
      BY <1>0, <1>1, <3>1, Numbers
    <3>2. CASE h = "client"
      <4>1. test["client"].phase \in {"exchange", "over"} => ~Running(h)
        BY <3>2 DEF Running
      <4>2. s.sent >= r.sent /\ (~Running(h) => s.received <= r.received)
        BY <1>1, <1>3
      <4> QED
        BY <3>2, <4>1, <4>2 DEF r, s
    <3> QED
      BY <3>1, <3>2
  <2>3. LaterPhases(test["client"].phase, test["server"].phase,
                    test'["client"].phase, test'["server"].phase)
    BY <1>2 DEF LaterPhases
  <2>4. ASSUME test["server"].phase = "reported",
               ReportInv(setup.dir, result["server"], worker["server"])
        PROVE  ReportInv(setup.dir, result'["server"], worker'["server"])
    <3>1. CASE h # "server"
      BY <1>0, <1>1, <1>2, <2>4, <3>1, Numbers
    <3>2. CASE h = "server" /\ setup.dir = "up"
      <4>1. SameCounts(r, s)
        BY <1>0, <1>1, <1>3, <2>4, <3>2, ByHost DEF SameCounts, Running
      <4>2. ReportInv(setup.dir, s, next)
        BY <1>1, <1>3, <2>4, <3>2, <4>1, ReportStays DEF r
      <4> QED
        BY <3>2, <4>2 DEF s, next
    <3>3. CASE h = "server" /\ setup.dir # "up"
      <4>1. Sender(h)
        BY <1>0, <3>3, ByHost
      <4>2. ReportInv(setup.dir, r, "moved") /\ next = "counted" /\ s.sent = r.sent + 1
        BY <1>1, <1>2, <2>4, <3>3, <4>1 DEF r
      <4>3. ReportInv(setup.dir, s, "counted")
        BY <1>1, <1>3, <3>3, <4>2, ReportCounts
      <4> QED
        BY <3>3, <4>2, <4>3 DEF s, next
    <3> QED
      BY <3>1, <3>2, <3>3
  <2> QED
    BY <1>0, <1>2, <2>1, <2>2, <2>3, <2>4, Numbers, ResultsGoOn
<1> QED
  BY <1>5, <1>6, <1>7

LEMMA WorkersAgree ==
    ASSUME TransferInv, TransferTypes', NEW h \in Host, WorkerStep(h)
    PROVE  FlowInv' /\ OmittedInv' /\ ResultsInv'
<1>0. TransferTypes /\ FlowInv /\ OmittedInv /\ ResultsInv
  BY DEF TransferInv
<1>1. CASE CountPart(h)
  <2>1. /\ UNCHANGED <<setup, walk, test, wire, pipe>> /\ worker[h] = "counted"
        /\ worker'[h] = "loop" /\ \A k \in Host : k # h => worker'[k] = worker[k]
    BY <1>0, <1>1 DEF CountPart, Becomes, TransferTypes
  <2>2. \A k \in Host : /\ SameCounts(result[k], result'[k])
                        /\ result'[k].start = result[k].start /\ result'[k].end = result[k].end
    BY <1>0, <1>1, CountsPart DEF SameCounts
  <2>3. \A k \in Host : /\ InHand(worker'[k]) = InHand(worker[k])
                        /\ Uncounted(worker'[k]) = Uncounted(worker[k])
    BY <2>1 DEF InHand, Uncounted
  <2>4. test["client"].phase = "over" => walk["client"].at = NoTimer
    BY <1>0 DEF OmittedInv
  <2> QED
    BY <1>0, <2>1, <2>2, <2>3, <2>4, Numbers, Quietly
<1> QED
  BY <1>1, SendAgrees, ReceiveAgrees, CountAgrees DEF WorkerStep

-----------------------------------------------------------------------------
(* The steps of the timers *)

LEMMA TimersAgree ==
    ASSUME TransferInv, TransferTypes', NEW h \in Host, TimerStep(h)
    PROVE  FlowInv' /\ OmittedInv' /\ ResultsInv'
<1>0. TransferTypes /\ QueuesInv /\ PrintsInv /\ FlowInv /\ OmittedInv /\ ResultsInv
  BY DEF TransferInv
<1>1. /\ "client" \in Host /\ "server" \in Host /\ result \in [Host -> Result]
      /\ test \in [Host -> Test] /\ walk \in [Host -> Walk] /\ pipe \in Nat
      /\ wire \in [Host -> Seq(Message)]
      /\ test["client"].phase = "over" => walk["client"].at = NoTimer
  BY <1>0 DEF TransferTypes, QueuesInv, OmittedInv, Host
<1>2. \A k \in Host : /\ result[k] \in Result /\ test[k] \in Test
                      /\ SameCounts(result[k], result[k])
  BY <1>1 DEF SameCounts
<1>3. walk[h].at # NoTimer => test[h].phase \in {"running", "over"}
  BY <1>0 DEF PrintsInv, PrintInv
<1>4. ASSUME UNCHANGED <<setup, worker, pipe, wire>>,
             \A k \in Host : test'[k].phase = test[k].phase,
             \A k \in Host : SameCounts(result[k], result'[k]),
             \A k \in Host : k # h => walk'[k] = walk[k] /\ result'[k] = result[k],
             test[h].phase = "running" \/ walk[h].at # NoTimer
                \/ (walk'[h] = walk[h] /\ result'[h] = result[h])
      PROVE  FlowInv' /\ OmittedInv' /\ ResultsInv'
  <2>1. test["server"].phase = "reported" => result'["server"] = result["server"]
    BY <1>1, <1>3, <1>4
  <2>2. test["client"].phase = "over" => walk'["client"].at = NoTimer
    BY <1>1, <1>4
  <2> QED
    BY <1>0, <1>4, <2>1, <2>2, Quietly
<1>5. CASE StartWalk(h)
  <2>1. /\ UNCHANGED <<setup, test, result, worker, pipe, wire>>
        /\ test[h].phase = "running" /\ \A k \in Host : k # h => walk'[k] = walk[k]
    BY <1>1, <1>5 DEF StartWalk, Running
  <2> QED
    BY <1>2, <1>4, <2>1
<1>6. CASE TestTimer(h)
  <2> DEFINE u == [test[h] EXCEPT !.done = TRUE]
  <2>1. test' = [test EXCEPT ![h] = u] /\ u.phase = test[h].phase
    BY <1>2, <1>6 DEF TestTimer, Test
  <2> HIDE DEF u
  <2>2. /\ UNCHANGED <<setup, result, worker, pipe, wire>> /\ walk[h].at # NoTimer
        /\ \A k \in Host : test'[k].phase = test[k].phase
        /\ \A k \in Host : k # h => walk'[k] = walk[k]
    BY <1>1, <1>6, <2>1 DEF TestTimer, Walked, NoTimer
  <2> QED
    BY <1>2, <1>4, <2>2
<1>7. CASE StatsTimerIdle(h)
  <2>1. /\ UNCHANGED <<setup, test, result, worker, pipe, wire>> /\ walk[h].at # NoTimer
        /\ \A k \in Host : k # h => walk'[k] = walk[k]
    BY <1>1, <1>7 DEF StatsTimerIdle, Walked, NoTimer
  <2> QED
    BY <1>2, <1>4, <2>1
<1>8. CASE ReadPart(h)
  BY <1>2, <1>4, <1>8 DEF ReadPart
<1>9. CASE StatsTimer(h)
  <2>1. /\ UNCHANGED <<setup, test, worker, pipe, wire>> /\ walk[h].at # NoTimer
        /\ \A k \in Host : k # h => walk'[k] = walk[k]
    BY <1>1, <1>9 DEF StatsTimer, Walked, NoTimer
  <2>2. /\ \A k \in Host : SameCounts(result[k], result'[k])
        /\ \A k \in Host : k # h => result'[k] = result[k]
    BY <1>0, <1>2, <1>9, AddsTaken DEF StatsTimer, SameCounts
  <2> QED
    BY <1>4, <2>1, <2>2
<1>10. CASE ReporterTimer(h)
  <2> DEFINE s == IF test[h].done THEN result[h] ELSE PrintLast(h, result[h])
  <2>1. SameCounts(result[h], s)
    BY <1>2, LastPrinted DEF SameCounts
  <2>2. result' = [result EXCEPT ![h] = s]
    BY <1>10 DEF ReporterTimer
  <2> HIDE DEF s
  <2>3. /\ \A k \in Host : SameCounts(result[k], result'[k])
        /\ \A k \in Host : k # h => result'[k] = result[k]
    BY <1>1, <1>2, <2>1, <2>2
  <2>4. /\ UNCHANGED <<setup, test, worker, pipe, wire>> /\ walk[h].at # NoTimer
        /\ \A k \in Host : k # h => walk'[k] = walk[k]
    BY <1>1, <1>10 DEF ReporterTimer, Walked, NoTimer
  <2> QED
    BY <1>4, <2>3, <2>4
<1>11. CASE ServerTimer(h)
  <2> DEFINE u == [[test[h] EXCEPT !.done = TRUE] EXCEPT !.phase = "over"]
             closed == [type |-> "closed"]
  <2>1. test' = [test EXCEPT ![h] = u] /\ u.phase = "over"
    BY <1>2, <1>11 DEF ServerTimer, Test
  <2> HIDE DEF u
  <2>2. closed \in Message /\ closed.type # "results"
    BY DEF Message
  <2>3. wire' = [wire EXCEPT !["client"] = Append(wire["client"], closed)]
    BY <1>11 DEF ServerTimer
  <2> HIDE DEF closed
  <2>4. /\ UNCHANGED <<setup, result>> /\ pipe' = 0 /\ walk[h].at # NoTimer /\ h = "server"
        /\ worker'[h] = "gone" /\ \A k \in Host : k # h => worker'[k] = worker[k]
        /\ test'["server"].phase = "over" /\ test'["client"] = test["client"]
        /\ walk'["client"] = walk["client"]
        /\ wire'["server"] = wire["server"]
        /\ wire'["client"] = Append(wire["client"], closed)
    BY <1>0, <1>1, <1>11, <2>1, <2>3 DEF ServerTimer, Walked, NoTimer, TransferTypes
  <2>5. \A m \in Message : Sent(wire'["client"], m) => Sent(wire["client"], m)
    BY <1>1, <2>2, <2>4, SentLater
  <2>6. LaterPhases(test["client"].phase, test["server"].phase,
                    test'["client"].phase, test'["server"].phase)
    BY <2>4 DEF LaterPhases
  <2>7. test["server"].phase # "reported" /\ pipe' <= pipe
    BY <1>1, <1>3, <2>4
  <2> QED
    BY <1>0, <1>1, <1>2, <2>4, <2>5, <2>6, <2>7, AllGoesOn
<1>12. CASE OmitTimer(h)
  <2> DEFINE r == result[h]
             s == ResetStats(r)
             u == [test[h] EXCEPT !.omitting = FALSE]
  <2>1. s.sent = r.sent /\ s.sentOmit = r.sent /\ s.received = 0 /\ s.summary = r.summary
    BY <1>0, <1>2, Forgotten DEF QueuesInv
  <2>2. result' = [result EXCEPT ![h] = s] /\ test' = [test EXCEPT ![h] = u]
        /\ u.phase = test[h].phase
    BY <1>2, <1>12 DEF OmitTimer, Test
  <2> HIDE DEF s, u
  <2>3. /\ UNCHANGED <<setup, worker, pipe, wire>> /\ walk[h].at # NoTimer
        /\ result'[h] = s /\ \A k \in Host : k # h => result'[k] = result[k]
        /\ \A k \in Host : test'[k].phase = test[k].phase
        /\ \A k \in Host : k # h => walk'[k] = walk[k]
    BY <1>1, <1>12, <2>2 DEF OmitTimer, Walked, NoTimer
  <2>4. setup.omit # 0
    BY <1>0, <1>12, AfterOmit DEF OmitTimer
  <2>5. h = "client" => test["client"].phase = "running"
    BY <1>1, <1>3, <2>3
  <2>6. /\ \A k \in Host : result'[k].sent = result[k].sent /\ result'[k].summary = result[k].summary
        /\ \A k \in Host : result'[k].received = result[k].received \/ result'[k].received = 0
    BY <2>1, <2>3
  <2>7. FlowInv'
    <3>1. Receiver \in Host /\ Source \in Host
      BY DEF Receiver, Source, Host
    <3>2. result[Receiver].received \in Int /\ result[Receiver].received >= 0
      BY <1>0, <3>1, Numbers DEF FlowInv
    <3>3. /\ 0 <= result'[Receiver].received
          /\ result'[Receiver].received <= result[Receiver].received
      BY <2>6, <3>1, <3>2
    <3> QED
      BY <1>0, <1>1, <2>3, <2>6, <3>1, <3>3, FlowGoesOn
  <2>8. OmittedInv'
    <3>1. test'["client"].phase = "over" => walk'["client"].at = NoTimer
      BY <1>1, <2>3, <2>5
    <3>2. setup.dir # "up" =>
            /\ result'["client"].sentOmit = 0
            /\ test'["client"].phase # "over" => result'["client"].sent = 0
      BY <1>0, <1>1, <2>1, <2>3, <2>5 DEF OmittedInv
    <3> QED
      BY <2>3, <2>4, <3>1, <3>2 DEF OmittedInv
  <2>9. ResultsInv'
    <3>1. test["client"].phase \in {"exchange", "over"} =>
            /\ result'["client"].sent >= result["client"].sent
            /\ result'["client"].received <= result["client"].received
      BY <1>0, <1>1, <2>3, <2>5, Numbers
    <3>2. test["server"].phase = "reported" => result'["server"] = result["server"]
      BY <1>1, <1>3, <2>3
    <3>3. LaterPhases(test["client"].phase, test["server"].phase,
                      test'["client"].phase, test'["server"].phase)
      BY <1>1, <2>3 DEF LaterPhases
    <3> QED
      BY <1>0, <1>1, <2>3, <2>6, <3>1, <3>2, <3>3, ResultsGoOn
  <2> QED
    BY <2>7, <2>8, <2>9
<1> QED
  BY <1>5, <1>6, <1>7, <1>8, <1>9, <1>10, <1>11, <1>12 DEF TimerStep

-----------------------------------------------------------------------------
(* The steps that end the test *)

LEMMA EndsAgree ==
    ASSUME TransferInv, TransferTypes',
           \/ ClientEnds \/ ClientEnded \/ ServerEnds \/ ServerCloses
           \/ ClientSendsResults \/ ClientIsCut
    PROVE  FlowInv' /\ OmittedInv' /\ ResultsInv'
<1>0. TransferTypes /\ QueuesInv /\ PrintsInv /\ FlowInv /\ OmittedInv /\ ResultsInv
  BY DEF TransferInv
<1>1. /\ "client" \in Host /\ "server" \in Host /\ result \in [Host -> Result]
      /\ test \in [Host -> Test] /\ walk \in [Host -> Walk] /\ pipe \in Nat
      /\ wire \in [Host -> Seq(Message)] /\ pipe <= pipe
      /\ test["client"].phase = "over" => walk["client"].at = NoTimer
      /\ test["client"].phase \notin {"running", "over"} => walk["client"].at = NoTimer
  BY <1>0 DEF TransferTypes, QueuesInv, OmittedInv, PrintsInv, PrintInv, Host
<1>2. \A k \in Host : /\ result[k] \in Result /\ test[k] \in Test
                      /\ wire[k] \in Seq(Message)
                      /\ SameCounts(result[k], result[k])
  BY <1>1 DEF SameCounts
<1>3. CASE ClientEnds
  <2>1. /\ UNCHANGED <<setup, walk, result, pipe, wire>> /\ test["client"].phase = "running"
        /\ \A k \in Host : worker'[k] \in {worker[k], "gone"}
        /\ worker'["server"] = worker["server"]
    BY <1>0, <1>1, <1>3 DEF ClientEnds, Running, TransferTypes
  <2>2. test'["client"].phase = "ending" /\ test'["server"] = test["server"]
    BY <1>0, <1>1, <1>3, PhaseTyped DEF ClientEnds, Phase
  <2>3. LaterPhases(test["client"].phase, test["server"].phase,
                    test'["client"].phase, test'["server"].phase)
    BY <2>1, <2>2 DEF LaterPhases
  <2> QED
    BY <1>0, <1>1, <1>2, <2>1, <2>2, <2>3, AllGoesOn
<1>4. CASE ClientEnded
  <2> DEFINE end == [type |-> "TEST_END"]
  <2>1. /\ UNCHANGED <<setup, walk, pipe, worker>> /\ test["client"].phase = "ending"
        /\ taken["client"] # NULL /\ wire' = [wire EXCEPT !["server"] = Append(@, end)]
    BY <1>4 DEF ClientEnded, Tell
  <2>2. test'["client"].phase = "ended" /\ test'["server"] = test["server"]
    BY <1>0, <1>1, <1>4, PhaseTyped DEF ClientEnded, Phase
  <2>3. /\ \A k \in Host : SameCounts(result[k], result'[k])
        /\ result'["server"] = result["server"]
    BY <1>0, <1>1, <1>2, <1>4, AddsTaken DEF ClientEnded, SameCounts
  <2>4. end \in Message /\ end.type # "results"
    BY DEF Message
  <2> HIDE DEF end
  <2>5. wire'["client"] = wire["client"] /\ wire'["server"] = Append(wire["server"], end)
    BY <1>1, <2>1
  <2>6. \A m \in Message : Sent(wire'["server"], m) => Sent(wire["server"], m)
    BY <1>1, <2>4, <2>5, SentLater
  <2>7. LaterPhases(test["client"].phase, test["server"].phase,
                    test'["client"].phase, test'["server"].phase)
    BY <2>1, <2>2 DEF LaterPhases
  <2> QED
    BY <1>0, <1>1, <1>2, <2>1, <2>2, <2>3, <2>5, <2>6, <2>7, AllGoesOn
<1>5. CASE ServerEnds
  <2> DEFINE u == [test["server"] EXCEPT !.phase = "ending", !.done = TRUE]
  <2>1. test' = [test EXCEPT !["server"] = u] /\ u.phase = "ending"
    BY <1>1, <1>2, <1>5 DEF ServerEnds, Test
  <2> HIDE DEF u
  <2>2. /\ UNCHANGED <<setup, walk, result, pipe, worker>> /\ test["server"].phase = "running"
        /\ test'["server"].phase = "ending" /\ test'["client"] = test["client"]
        /\ wire["server"] # <<>> /\ wire' = [wire EXCEPT !["server"] = Tail(@)]
    BY <1>1, <1>5, <2>1 DEF ServerEnds, Running, Gets
  <2>3. wire'["client"] = wire["client"] /\ wire'["server"] = Tail(wire["server"])
    BY <1>1, <2>2
  <2>4. \A m \in Message : Sent(wire'["server"], m) => Sent(wire["server"], m)
    BY <1>1, <2>2, <2>3, SentBefore
  <2>5. LaterPhases(test["client"].phase, test["server"].phase,
                    test'["client"].phase, test'["server"].phase)
    BY <2>2 DEF LaterPhases
  <2> QED
    BY <1>0, <1>1, <1>2, <2>2, <2>3, <2>4, <2>5, AllGoesOn
<1>6. CASE ServerCloses
  <2>1. /\ UNCHANGED <<setup, walk, worker, wire>> /\ test["server"].phase = "ending"
        /\ taken["server"] # NULL /\ pipe' = 0 /\ pipe' <= pipe
    BY <1>1, <1>6 DEF ServerCloses
  <2>2. test'["server"].phase = "closed" /\ test'["client"] = test["client"]
    BY <1>0, <1>1, <1>6, PhaseTyped DEF ServerCloses, Phase
  <2>3. \A k \in Host : SameCounts(result[k], result'[k])
    BY <1>0, <1>1, <1>2, <1>6, AddsTaken DEF ServerCloses, SameCounts
  <2>4. LaterPhases(test["client"].phase, test["server"].phase,
                    test'["client"].phase, test'["server"].phase)
    BY <2>1, <2>2 DEF LaterPhases
  <2> QED
    BY <1>0, <1>1, <1>2, <2>1, <2>2, <2>3, <2>4, AllGoesOn
<1>7. CASE ClientSendsResults
  <2>1. /\ UNCHANGED <<setup, walk, result, pipe, worker>> /\ test["client"].phase = "ended"
        /\ wire["client"] # <<>>
        /\ wire'["client"] = Tail(wire["client"])
    BY <1>7 DEF ClientSendsResults, Gets
  <2>2. test'["client"].phase = "exchange" /\ test'["server"] = test["server"]
    BY <1>0, <1>1, <1>7, PhaseTyped DEF ClientSendsResults, Phase
  <2>3. \A m \in Message : Sent(wire'["client"], m) => Sent(wire["client"], m)
    BY <1>1, <2>1, SentBefore
  <2>4. LaterPhases(test["client"].phase, test["server"].phase,
                    test'["client"].phase, test'["server"].phase)
    BY <2>1, <2>2 DEF LaterPhases
  <2> QED
    BY <1>0, <1>1, <1>2, <2>1, <2>2, <2>3, <2>4, AllGoesOn
<1>8. CASE ClientIsCut
  <2>1. /\ UNCHANGED <<setup, walk, result, pipe>> /\ test["client"].phase \in {"ended", "exchange"}
        /\ wire["client"] # <<>>
        /\ wire' = [wire EXCEPT !["client"] = Tail(@)]
        /\ \A k \in Host : worker'[k] \in {worker[k], "gone"}
        /\ worker'["server"] = worker["server"]
    BY <1>0, <1>1, <1>8 DEF ClientIsCut, Gets, TransferTypes
  <2>2. test'["client"].phase = "over" /\ test'["server"] = test["server"]
    BY <1>0, <1>1, <1>8, PhaseTyped DEF ClientIsCut, Phase
  <2>3. wire'["server"] = wire["server"] /\ wire'["client"] = Tail(wire["client"])
    BY <1>1, <2>1
  <2>4. \A m \in Message : Sent(wire'["client"], m) => Sent(wire["client"], m)
    BY <1>1, <2>1, <2>3, SentBefore
  <2>5. LaterPhases(test["client"].phase, test["server"].phase,
                    test'["client"].phase, test'["server"].phase)
    BY <2>1, <2>2 DEF LaterPhases
  <2>6. walk'["client"].at = NoTimer
    BY <1>1, <2>1
  <2> QED
    BY <1>0, <1>1, <1>2, <2>1, <2>2, <2>3, <2>4, <2>5, <2>6, AllGoesOn
<1> QED
  BY <1>3, <1>4, <1>5, <1>6, <1>7, <1>8

LEMMA ReportAgrees ==
    ASSUME TransferInv, TransferTypes', ServerReports
    PROVE  FlowInv' /\ OmittedInv' /\ ResultsInv'
<1>0. TransferTypes /\ FlowInv /\ OmittedInv /\ ResultsInv
  BY DEF TransferInv
<1> DEFINE s == result["server"]
           p == PrintLast("server", s)
           q == Summarise(p, Sender("server"))
           message == [type |-> "EXCHANGE_RESULTS"]
<1>1. /\ "client" \in Host /\ "server" \in Host /\ result \in [Host -> Result]
      /\ test \in [Host -> Test] /\ wire \in [Host -> Seq(Message)] /\ pipe \in Nat
      /\ pipe <= pipe /\ s \in Result /\ wire["client"] \in Seq(Message)
      /\ test["client"].phase = "over" => walk["client"].at = NoTimer
  BY <1>0 DEF TransferTypes, OmittedInv, Host
<1>2. SameCounts(s, p) /\ p \in Result
  BY <1>1, LastPrinted DEF SameCounts
<1>3. result' = [result EXCEPT !["server"] = q]
  BY DEF ServerReports
<1> HIDE DEF p
<1>4. Sender("server") \in BOOLEAN /\ (Sender("server") <=> setup.dir # "up")
  BY <1>0, <1>1, ByHost DEF Sender
<1>5. q.sent = p.sent /\ q.sentOmit = p.sentOmit /\ q.received = p.received
  BY <1>2, <1>4, Summarised
<1>6. ReportInv(setup.dir, q, worker["server"])
  BY <1>2, <1>4, ReportMade
<1> HIDE DEF q
<1>7. message \in Message /\ message.type # "results"
  BY DEF Message
<1>8. wire' = [wire EXCEPT !["client"] = Append(@, message)]
  BY DEF ServerReports, Tell
<1> HIDE DEF message
<1>9. /\ UNCHANGED <<setup, walk, worker, pipe>> /\ test["server"].phase = "closed"
      /\ result'["server"] = q /\ result'["client"] = result["client"]
      /\ wire'["server"] = wire["server"] /\ wire'["client"] = Append(wire["client"], message)
  BY <1>1, <1>3, <1>8 DEF ServerReports
<1>10. test'["server"].phase = "reported" /\ test'["client"] = test["client"]
  BY <1>0, <1>1, PhaseTyped DEF ServerReports, Phase
<1>11. \A m \in Message : Sent(wire'["client"], m) => Sent(wire["client"], m)
  BY <1>1, <1>7, <1>9, SentLater
<1>12. \A k \in Host : /\ result'[k].sent = result[k].sent /\ result'[k].sentOmit = result[k].sentOmit
                       /\ result'[k].received = result[k].received
  BY <1>2, <1>5, <1>9 DEF Host, SameCounts
<1>13. FlowInv'
  <2>1. Receiver \in Host /\ Source \in Host
    BY DEF Receiver, Source, Host
  <2>2. result[Receiver].received >= 0 /\ result[Receiver].received \in Int
    BY <1>0, <2>1, Numbers DEF FlowInv
  <2>3. /\ 0 <= result'[Receiver].received
        /\ result'[Receiver].received <= result[Receiver].received
    BY <1>12, <2>1, <2>2
  <2> QED
    BY <1>0, <1>1, <1>9, <1>12, <2>1, <2>3, FlowGoesOn
<1>14. OmittedInv'
  BY <1>0, <1>1, <1>9, <1>10, <1>12, OmittedGoesOn
<1>15. ResultsInv'
  <2>1. Exchange(setup, result["client"], s, test["client"].phase, "closed",
                 worker["server"], wire["client"], wire["server"])
    BY <1>0, <1>9 DEF ResultsInv
  <2>2. Exchange(setup, result["client"], q, test["client"].phase, "reported",
                 worker["server"], wire'["client"], wire["server"])
    BY <1>6, <1>11, <2>1 DEF Exchange
  <2> QED
    BY <1>9, <1>10, <2>2 DEF ResultsInv
<1> QED
  BY <1>13, <1>14, <1>15

LEMMA ExchangeAgrees ==
    ASSUME TransferInv, TransferTypes', ServerExchanges
    PROVE  FlowInv' /\ OmittedInv' /\ ResultsInv'
<1>0. TransferTypes /\ FlowInv /\ OmittedInv /\ ResultsInv
  BY DEF TransferInv
<1> DEFINE c == result["client"]
           s == result["server"]
           first == Head(wire["server"])
           t == Learn("server", s, first)
           answer == Results("server")
<1>1. /\ "client" \in Host /\ "server" \in Host /\ result \in [Host -> Result]
      /\ test \in [Host -> Test] /\ wire \in [Host -> Seq(Message)] /\ pipe \in Nat
      /\ pipe <= pipe /\ s \in Result /\ c \in Result
      /\ wire["client"] \in Seq(Message) /\ wire["server"] \in Seq(Message)
      /\ test["client"].phase = "over" => walk["client"].at = NoTimer
  BY <1>0 DEF TransferTypes, OmittedInv, Host
<1>2. /\ wire["server"] # <<>> /\ first.type = "results"
      /\ UNCHANGED <<setup, walk, worker, pipe>> /\ test["server"].phase = "reported"
      /\ result' = [result EXCEPT !["server"] = t]
      /\ wire'["server"] = Tail(wire["server"])
      /\ wire'["client"] = Append(wire["client"], answer)
  BY DEF ServerExchanges, Gets
<1>3. /\ first \in ResultsMessage /\ first \in Message /\ Sent(wire["server"], first)
      /\ \A m : Sent(Tail(wire["server"]), m) => Sent(wire["server"], m)
  BY <1>1, <1>2, FirstMessage, SentBefore
<1>4. /\ Sender("server") <=> setup.dir # "up"
      /\ Source = IF setup.dir = "up" THEN "client" ELSE "server"
      /\ Receiver = IF setup.dir = "up" THEN "server" ELSE "client"
  <2>1. Sender("server") <=> setup.dir # "up"
    BY <1>0, <1>1, ByHost
  <2> QED
    BY <2>1 DEF Source, Receiver
<1>5. /\ t.summary = s.summary /\ t.sentOmit = s.sentOmit
      /\ setup.dir # "up" => t.sent = s.sent
      /\ setup.dir = "up" => t.received = s.received
  BY <1>1, <1>3, <1>4, Learned
<1>6. /\ answer \in Message /\ answer.type = "results" /\ answer.time = Elapsed(s)
      /\ answer.bytes = IF setup.dir = "up" THEN s.received ELSE s.sent - s.sentOmit
  BY <1>1, <1>4, Said DEF Message, ResultsMessage
<1> HIDE DEF t, first, answer
<1>7. result'["server"] = t /\ result'["client"] = c
  BY <1>1, <1>2
<1>8. test'["server"].phase = "over" /\ test'["client"] = test["client"]
  BY <1>0, <1>1, PhaseTyped DEF ServerExchanges, Phase
<1>9. FlowInv'
  <2>1. /\ result'[Receiver].received = result[Receiver].received
        /\ result'[Source].sent = result[Source].sent
    BY <1>4, <1>5, <1>7
  <2>2. result[Receiver].received >= 0 /\ result[Receiver].received \in Int
    BY <1>0, <1>1, <1>4, Numbers DEF FlowInv
  <2>3. /\ 0 <= result'[Receiver].received
        /\ result'[Receiver].received <= result[Receiver].received
    BY <2>1, <2>2
  <2> QED
    BY <1>0, <1>1, <1>2, <2>1, <2>3, FlowGoesOn
<1>10. OmittedInv'
  <2>1. \A k \in Host : result'[k].sentOmit = result[k].sentOmit
    BY <1>5, <1>7 DEF Host
  <2> QED
    BY <1>0, <1>1, <1>2, <1>7, <1>8, <2>1, OmittedGoesOn
<1>11. Exchange(setup, c, s, test["client"].phase, "reported",
                worker["server"], wire["client"], wire["server"])
  BY <1>0, <1>2 DEF ResultsInv
<1>12. AnswerInv(setup, c, t, answer)
  <2>1. ReportInv(setup.dir, s, worker["server"])
    BY <1>11 DEF Exchange
  <2>2. IF setup.dir = "up" THEN s.received <= c.sent + 1 ELSE c.received <= s.sent + 1
    <3> DEFINE r == result[Receiver].received
               n == result[Source].sent
               a == InHand(worker[Receiver])
               d == Uncounted(worker[Source])
    <3>1. r \in Int /\ n \in Int /\ pipe \in Nat /\ a \in {0, 1} /\ d \in {0, 1}
      BY <1>0, <1>1, <1>4, Numbers DEF InHand, Uncounted
    <3>2. r + a + pipe <= n + d
      BY <1>0 DEF FlowInv
    <3> HIDE DEF r, n, a, d
    <3>3. r <= n + 1
      BY <3>1, <3>2
    <3> QED
      BY <1>4, <3>3 DEF r, n
  <2>3. setup.omit = 0 => s.sentOmit = 0
    BY <1>0, <1>1 DEF OmittedInv
  <2> QED
    BY <1>1, <1>5, <1>6, <2>1, <2>2, <2>3, AnswerMade
<1>13. ResultsInv'
  <2>1. test["client"].phase \in {"exchange", "over"}
    BY <1>3, <1>11 DEF Exchange
  <2>2. ASSUME NEW m \in Message, Sent(wire'["client"], m)
        PROVE  AnswerInv(setup, c, t, m)
    <3>1. ~Sent(wire["client"], m)
      BY <1>11 DEF Exchange
    <3>2. m = answer
      BY <1>1, <1>2, <1>6, <2>2, <3>1, SentLater
    <3> QED
      BY <1>12, <3>2
  <2>3. c.summary = NULL
    BY <1>11 DEF Exchange
  <2>4. Exchange(setup, c, t, test["client"].phase, "over",
                 worker["server"], wire'["client"], wire'["server"])
    BY <2>1, <2>2, <2>3 DEF Exchange
  <2> QED
    BY <1>2, <1>7, <1>8, <2>4 DEF ResultsInv
<1> QED
  BY <1>9, <1>10, <1>13

LEMMA DisplayAgrees ==
    ASSUME TransferInv, TransferTypes', ClientDisplays
    PROVE  FlowInv' /\ OmittedInv' /\ ResultsInv'
<1>0. TransferTypes /\ PrintsInv /\ FlowInv /\ OmittedInv /\ ResultsInv
  BY DEF TransferInv
<1> DEFINE c == result["client"]
           s == result["server"]
           first == Head(wire["client"])
           l == Learn("client", c, first)
           p == PrintLast("client", l)
           d == Summarise(p, Sender("client"))
           u == [test["client"] EXCEPT !.phase = "over", !.done = TRUE]
<1>1. /\ "client" \in Host /\ "server" \in Host /\ result \in [Host -> Result]
      /\ test \in [Host -> Test] /\ test["client"] \in Test
      /\ wire \in [Host -> Seq(Message)] /\ pipe \in Nat /\ pipe <= pipe
      /\ worker \in [Host -> {"loop", "moved", "counted", "gone"}]
      /\ c \in Result /\ s \in Result /\ wire["client"] \in Seq(Message)
  BY <1>0 DEF TransferTypes, Host
<1>2. /\ wire["client"] # <<>> /\ first.type = "results" /\ test["client"].phase = "exchange"
      /\ UNCHANGED <<setup, walk, pipe>>
      /\ result' = [result EXCEPT !["client"] = d]
      /\ wire' = [wire EXCEPT !["client"] = Tail(@)]
      /\ worker' = [worker EXCEPT !["client"] = "gone"]
  BY DEF ClientDisplays, Gets
<1>3. test' = [test EXCEPT !["client"] = u] /\ u.phase = "over"
  BY <1>1 DEF ClientDisplays, Test
<1>4. /\ first \in ResultsMessage /\ first \in Message /\ Sent(wire["client"], first)
      /\ \A m : Sent(Tail(wire["client"]), m) => Sent(wire["client"], m)
  BY <1>1, <1>2, FirstMessage, SentBefore
<1>5. /\ Sender("client") <=> setup.dir = "up"
      /\ Sender("client") = (setup.dir = "up")
      /\ Source = IF setup.dir = "up" THEN "client" ELSE "server"
      /\ Receiver = IF setup.dir = "up" THEN "server" ELSE "client"
  BY <1>0, ByHost DEF Source, Receiver, Sender
<1>6. /\ l \in Result /\ l.sentOmit = c.sentOmit /\ l.time = first.time
      /\ l.sent = IF setup.dir = "up" THEN c.sent ELSE first.bytes
      /\ l.received = IF setup.dir = "up" THEN first.bytes ELSE c.received
  <2>1. /\ l \in Result /\ l.sentOmit = c.sentOmit /\ l.time = first.time
        /\ l.sent = IF Sender("client") THEN c.sent ELSE first.bytes
        /\ l.received = IF Sender("client") THEN first.bytes ELSE c.received
    BY <1>1, <1>4, Learned
  <2> HIDE DEF l, first
  <2> QED
    BY <1>5, <2>1
<1> HIDE DEF l, first
<1>7. /\ p \in Result /\ p.sent = l.sent /\ p.sentOmit = l.sentOmit
      /\ p.received = l.received /\ p.time = l.time
  BY <1>1, <1>6, LastPrinted
<1> HIDE DEF p
<1>8. /\ d = Summarise(p, setup.dir = "up")
      /\ d.sent = p.sent /\ d.sentOmit = p.sentOmit /\ d.received = p.received
  <2>1. d = Summarise(p, setup.dir = "up")
    BY <1>5
  <2>2. Sender("client") \in BOOLEAN
    BY DEF Sender
  <2>3. d.sent = p.sent /\ d.sentOmit = p.sentOmit /\ d.received = p.received
    BY <1>7, <2>2, Summarised
  <2> QED
    BY <2>1, <2>3
<1> HIDE DEF d, u
<1>9. /\ result'["client"] = d /\ result'["server"] = s
      /\ test'["client"].phase = "over" /\ test'["server"] = test["server"]
      /\ wire'["server"] = wire["server"] /\ wire'["client"] = Tail(wire["client"])
      /\ worker'["client"] = "gone" /\ worker'["server"] = worker["server"]
  BY <1>1, <1>2, <1>3
<1>10. walk["client"].at = NoTimer
  BY <1>0, <1>1, <1>2 DEF PrintsInv, PrintInv
<1>11. FlowInv'
  <2>1. /\ result'[Receiver].received = result[Receiver].received
        /\ result'[Source].sent = result[Source].sent
    BY <1>5, <1>6, <1>7, <1>8, <1>9
  <2>2. result[Receiver].received >= 0 /\ result[Receiver].received \in Int
    BY <1>0, <1>1, <1>5, Numbers DEF FlowInv
  <2>3. /\ 0 <= result'[Receiver].received
        /\ result'[Receiver].received <= result[Receiver].received
    BY <2>1, <2>2
  <2>4. \A k \in Host : worker'[k] = "gone" \/ worker'[k] = worker[k]
    BY <1>9 DEF Host
  <2> QED
    BY <1>0, <1>1, <1>2, <2>1, <2>3, <2>4, FlowGoesOn
<1>12. OmittedInv'
  <2>1. \A k \in Host : result'[k].sentOmit = result[k].sentOmit
    BY <1>6, <1>7, <1>8, <1>9 DEF Host
  <2> QED
    BY <1>0, <1>1, <1>2, <1>9, <1>10, <2>1, OmittedGoesOn
<1>13. Exchange(setup, c, s, "exchange", test["server"].phase,
                worker["server"], wire["client"], wire["server"])
  BY <1>0, <1>2 DEF ResultsInv
<1>14. test["server"].phase = "over" /\ AnswerInv(setup, c, s, first)
  BY <1>4, <1>13 DEF Exchange
<1>15. SummariesAgree(setup, d.summary, s.summary)
  <2>1. /\ setup.omit = 0 => c.sentOmit = 0
        /\ setup.dir # "up" => c.sentOmit = 0
    BY <1>0, <1>1 DEF OmittedInv
  <2> QED
    BY <1>1, <1>2, <1>4, <1>6, <1>7, <1>8, <1>14, <2>1, DisplayMade
<1>16. ResultsInv'
  <2>1. s.summary # NULL
    BY <1>2, <1>14 DEF AnswerInv
  <2>2. ASSUME NEW m \in Message, Sent(wire'["client"], m)
        PROVE  AnswerInv(setup, d, s, m)
    <3>1. AnswerInv(setup, c, s, m)
      BY <1>4, <1>9, <1>13, <2>2 DEF Exchange
    <3>2. /\ d \in Result
          /\ setup.dir = "up" => d.sent >= c.sent
          /\ setup.dir # "up" => d.received <= c.received
      <4>1. d \in Result
        BY <1>1, <1>9 DEF TransferTypes
      <4>2. c.sent >= c.sent /\ c.received <= c.received
        BY <1>0, Numbers
      <4> QED
        BY <1>6, <1>7, <1>8, <4>1, <4>2
    <3> QED
      BY <1>1, <3>1, <3>2, AnswerStays
  <2>3. Exchange(setup, d, s, "over", "over",
                 worker["server"], wire'["client"], wire["server"])
    BY <1>13, <1>14, <1>15, <2>1, <2>2 DEF Exchange
  <2> QED
    BY <1>2, <1>9, <1>14, <2>3 DEF ResultsInv
<1> QED
  BY <1>11, <1>12, <1>16

LEMMA TransferInit == Init => FlowInv /\ OmittedInv /\ ResultsInv
<1> SUFFICES ASSUME Init PROVE FlowInv /\ OmittedInv /\ ResultsInv
  OBVIOUS
<1>1. /\ "client" \in Host /\ "server" \in Host /\ Receiver \in Host /\ Source \in Host
  BY DEF Host, Receiver, Source
<1>2. \A h \in Host : /\ result[h].sent = 0 /\ result[h].received = 0 /\ result[h].sentOmit = 0
                      /\ result[h].summary = NULL /\ test[h].phase = "running"
                      /\ worker[h] = "loop" /\ wire[h] = <<>>
  BY DEF Init
<1>3. FlowInv
  <2>1. InHand("loop") = 0 /\ Uncounted("loop") = 0 /\ pipe = 0
    BY DEF InHand, Uncounted, Init
  <2> QED
    BY <1>1, <1>2, <2>1 DEF FlowInv
<1>4. OmittedInv
  BY <1>1, <1>2 DEF OmittedInv
<1>5. \A m : ~Sent(<<>>, m)
  BY DEF Sent
<1> QED
  BY <1>1, <1>2, <1>3, <1>4, <1>5 DEF ResultsInv, Exchange

LEMMA TransferNext == TransferInv /\ [Next]_vars => TransferInv'
<1> SUFFICES ASSUME TransferInv, [Next]_vars PROVE TransferInv'
  OBVIOUS
<1>0. TransferTypes /\ QueuesInv /\ PrintsInv /\ FlowInv /\ OmittedInv /\ ResultsInv
  BY DEF TransferInv
<1>1. QueuesInv' /\ TransferTypes' /\ PrintsInv'
  BY <1>0, QueuesNext, TypesNext, PrintsNext
<1>2. ASSUME UNCHANGED <<setup, walk, test, result, worker, pipe, wire>>
      PROVE  FlowInv' /\ OmittedInv' /\ ResultsInv'
  <2>1. FlowInv'
    BY <1>0, <1>2 DEF FlowInv, Receiver, Source
  <2>2. OmittedInv'
    BY <1>0, <1>2 DEF OmittedInv
  <2>3. ResultsInv'
    BY <1>0, <1>2 DEF ResultsInv
  <2> QED
    BY <2>1, <2>2, <2>3
<1>3. FlowInv' /\ OmittedInv' /\ ResultsInv'
  <2>1. CASE UNCHANGED vars
    BY <1>2, <2>1 DEF vars
  <2>2. CASE Tick
    BY <1>2, <2>2 DEF Tick
  <2>3. CASE EndStep
    BY <1>1, <2>3, EndsAgree, ReportAgrees, ExchangeAgrees, DisplayAgrees DEF EndStep
  <2>4. CASE \E h \in Host : WorkerStep(h) \/ TimerStep(h)
    BY <1>1, <2>4, WorkersAgree, TimersAgree
  <2> QED
    BY <2>1, <2>2, <2>3, <2>4 DEF Next
<1> QED
  BY <1>1, <1>3 DEF TransferInv

(* The two hosts print the same numbers for the same thing, but for the     *)
(* block the server had in hand when it reported; and without omitting,     *)
(* what is received was sent, but for the block of a sender that was        *)
(* cancelled before it counted: whatever the workers have in hand when the  *)
(* test ends, however late timers and messages are                          *)
THEOREM HostsReportTheSame == Spec => []ResultsAgree
<1>1. Init => TransferInv
  BY QueuesInit, TypesInit, PrintsInit, TransferInit DEF TransferInv
<1>2. TransferInv /\ [Next]_vars => TransferInv'
  BY TransferNext
<1>3. TransferInv => ResultsAgree
  <2> SUFFICES ASSUME TransferInv, result["client"].summary # NULL PROVE ResultsAgree
    BY DEF ResultsAgree
  <2>1. SummariesAgree(setup, result["client"].summary, result["server"].summary)
    BY DEF TransferInv, ResultsInv, Exchange
  <2> QED
    BY <2>1 DEF SummariesAgree, ResultsAgree
<1> QED
  BY <1>1, <1>2, <1>3, PTL DEF Spec

-----------------------------------------------------------------------------
(* KeptBytes adds up the intervals that are not omitted *)

Amount(x) == IF x.omitted THEN 0 ELSE x.bytes

(* f has the sums of the first amounts of q, up to the n-th *)
Sums(f, q, n) ==
    f[0] = 0 /\ \A i \in 1 .. n : f[i] = f[i - 1] + Amount(q[i])

SumOf(q) ==
    CHOOSE f : f = [i \in 0 .. Len(q) |-> IF i = 0 THEN 0 ELSE f[i - 1] + Amount(q[i])]

LEMMA KeptIsSum ==
    ASSUME NEW r
    PROVE  KeptBytes(r) = SumOf(r.intervals)[Len(r.intervals)]
  BY DEF KeptBytes, SumOf, Amount

LEMMA AmountTyped ==
    ASSUME NEW x \in Interval
    PROVE  Amount(x) \in Int
  BY DEF Amount, Interval

LEMMA SumsExist ==
    ASSUME NEW q \in Seq(Interval), NEW n \in 0 .. Len(q)
    PROVE  \E f \in [0 .. n -> Int] : Sums(f, q, n)
<1> DEFINE Reached(k) == \E f \in [0 .. k -> Int] : Sums(f, q, k)
           Bad == {k \in 0 .. Len(q) : ~Reached(k)}
<1>0. Len(q) \in Nat /\ Bad \subseteq Nat
  BY LenProperties
<1>1. Reached(0)
  <2> DEFINE f == [i \in 0 .. 0 |-> 0]
  <2>1. f \in [0 .. 0 -> Int] /\ Sums(f, q, 0)
    BY DEF Sums
  <2> QED
    BY <2>1
<1>2. ASSUME NEW k \in 1 .. Len(q), Reached(k - 1) PROVE Reached(k)
  <2>1. PICK f \in [0 .. k - 1 -> Int] : Sums(f, q, k - 1)
    BY <1>2
  <2>2. k \in Nat /\ k - 1 \in Nat /\ k - 1 \in 0 .. k - 1 /\ q[k] \in Interval
    BY <1>0, ElementOfSeq
  <2>3. f[k - 1] \in Int /\ Amount(q[k]) \in Int
    BY <2>1, <2>2 DEF Amount, Interval
  <2> DEFINE g == [i \in 0 .. k |-> IF i = k THEN f[k - 1] + Amount(q[k]) ELSE f[i]]
  <2>4. ASSUME NEW i \in 0 .. k PROVE g[i] \in Int
    <3>1. CASE i = k
      BY <2>3, <3>1
    <3>2. CASE i # k
      <4>1. i \in 0 .. k - 1 /\ g[i] = f[i]
        BY <2>2, <3>2
      <4> QED
        BY <2>1, <4>1
    <3> QED
      BY <3>1, <3>2
  <2>5. g \in [0 .. k -> Int]
    BY <2>4
  <2>6. ASSUME NEW i \in 1 .. k PROVE g[i] = g[i - 1] + Amount(q[i])
    <3>1. i \in 0 .. k /\ i - 1 \in 0 .. k /\ i - 1 # k
      BY <2>2
    <3>2. CASE i = k
      BY <3>1, <3>2
    <3>3. CASE i # k
      <4>1. i \in 1 .. k - 1
        BY <2>2, <3>3
      <4> QED
        BY <2>1, <3>1, <3>3, <4>1 DEF Sums
    <3> QED
      BY <3>2, <3>3
  <2>7. g[0] = 0
    BY <2>1, <2>2 DEF Sums
  <2> HIDE DEF g
  <2> QED
    BY <2>5, <2>6, <2>7 DEF Sums
<1> HIDE DEF Reached
<1>3. Bad = {}
  <2> SUFFICES ASSUME Bad # {} PROVE FALSE
    OBVIOUS
  <2> DEFINE m == Min(Bad)
  <2>1. m \in Bad /\ \A k \in Bad : m <= k
    BY <1>0, Smallest
  <2> HIDE DEF m
  <2>2. m \in 0 .. Len(q) /\ ~Reached(m) /\ m # 0
    BY <1>1, <2>1
  <2>3. m \in 1 .. Len(q) /\ m - 1 \in 0 .. Len(q) /\ ~(m <= m - 1)
    BY <1>0, <2>2
  <2>4. Reached(m - 1)
    BY <2>1, <2>3
  <2> QED
    BY <1>2, <2>2, <2>3, <2>4
<1> QED
  BY <1>3 DEF Reached

LEMMA SumsAgree ==
    ASSUME NEW q \in Seq(Interval), NEW p \in Seq(Interval), NEW n \in Nat,
           n <= Len(q), n <= Len(p), \A i \in 1 .. n : Amount(q[i]) = Amount(p[i]),
           NEW f, NEW g, Sums(f, q, n), Sums(g, p, n)
    PROVE  \A k \in 0 .. n : f[k] = g[k] /\ f[k] \in Int
<1> DEFINE Bad == {k \in 0 .. n : ~(f[k] = g[k] /\ f[k] \in Int)}
<1>0. Len(q) \in Nat /\ Bad \subseteq Nat
  BY LenProperties
<1>1. f[0] = g[0] /\ f[0] \in Int
  BY DEF Sums
<1>2. ASSUME NEW k \in 1 .. n, f[k - 1] = g[k - 1], f[k - 1] \in Int
      PROVE  f[k] = g[k] /\ f[k] \in Int
  <2>1. f[k] = f[k - 1] + Amount(q[k]) /\ g[k] = g[k - 1] + Amount(p[k])
    BY DEF Sums
  <2>2. Amount(q[k]) = Amount(p[k]) /\ k \in 1 .. Len(q)
    BY <1>0
  <2>3. q[k] \in Interval
    BY <2>2, ElementOfSeq
  <2>4. Amount(q[k]) \in Int
    BY <2>3, AmountTyped
  <2> QED
    BY <1>2, <2>1, <2>2, <2>4
<1>3. Bad = {}
  <2> SUFFICES ASSUME Bad # {} PROVE FALSE
    OBVIOUS
  <2> DEFINE m == Min(Bad)
  <2>1. m \in Bad /\ \A k \in Bad : m <= k
    BY <1>0, Smallest
  <2> HIDE DEF m
  <2>2. m \in 0 .. n /\ ~(f[m] = g[m] /\ f[m] \in Int) /\ m # 0
    BY <1>1, <2>1
  <2>3. m \in 1 .. n /\ m - 1 \in 0 .. n /\ ~(m <= m - 1)
    BY <2>2
  <2>4. m - 1 \notin Bad
    BY <2>1, <2>3
  <2>5. f[m - 1] = g[m - 1] /\ f[m - 1] \in Int
    BY <2>3, <2>4
  <2> QED
    BY <1>2, <2>2, <2>3, <2>5
<1> QED
  BY <1>3

LEMMA SumIs ==
    ASSUME NEW q \in Seq(Interval)
    PROVE  Sums(SumOf(q), q, Len(q))
<1> DEFINE n == Len(q)
<1>1. n \in Nat /\ n \in 0 .. Len(q)
  BY LenProperties
<1>2. PICK f \in [0 .. n -> Int] : Sums(f, q, n)
  BY <1>1, SumsExist
<1>3. f = [i \in 0 .. n |-> IF i = 0 THEN 0 ELSE f[i - 1] + Amount(q[i])]
  <2>1. ASSUME NEW i \in 0 .. n PROVE f[i] = IF i = 0 THEN 0 ELSE f[i - 1] + Amount(q[i])
    <3>1. i = 0 \/ i \in 1 .. n
      BY <1>1
    <3> QED
      BY <1>2, <3>1 DEF Sums
  <2> QED
    BY <1>2, <2>1
<1> DEFINE g == SumOf(q)
<1>4. g = [i \in 0 .. n |-> IF i = 0 THEN 0 ELSE g[i - 1] + Amount(q[i])]
  BY <1>3 DEF SumOf
<1> HIDE DEF g
<1>5. g[0] = 0
  <2>1. 0 \in 0 .. n
    BY <1>1
  <2> QED
    BY <1>4, <2>1
<1>6. ASSUME NEW i \in 1 .. n PROVE g[i] = g[i - 1] + Amount(q[i])
  <2>1. i \in 0 .. n /\ i # 0
    BY <1>1
  <2> QED
    BY <1>4, <2>1
<1> QED
  BY <1>5, <1>6 DEF Sums, g

LEMMA KeptTyped ==
    ASSUME NEW r \in Result
    PROVE  KeptBytes(r) \in Int
<1> DEFINE q == r.intervals
           f == SumOf(q)
<1>1. q \in Seq(Interval) /\ Len(q) \in Nat /\ Len(q) <= Len(q) /\ Len(q) \in 0 .. Len(q)
  BY LenProperties DEF Result
<1>2. Sums(f, q, Len(q))
  BY <1>1, SumIs
<1> HIDE DEF f
<1>3. f[Len(q)] \in Int
  BY <1>1, <1>2, SumsAgree
<1> QED
  BY <1>3, KeptIsSum DEF f

LEMMA KeptAdded ==
    ASSUME NEW r \in Result, NEW s \in Result, NEW x \in Interval,
           s.intervals = Append(r.intervals, x)
    PROVE  KeptBytes(s) = KeptBytes(r) + Amount(x)
<1> DEFINE q == r.intervals
           p == s.intervals
           n == Len(q)
           f == SumOf(q)
           g == SumOf(p)
<1>1. /\ q \in Seq(Interval) /\ p \in Seq(Interval) /\ n \in Nat /\ Len(p) = n + 1
      /\ p[n + 1] = x /\ \A i \in 1 .. n : p[i] = q[i]
  BY Appended DEF Result
<1>2. n <= Len(q) /\ n <= Len(p) /\ n \in 0 .. n /\ n + 1 \in 1 .. n + 1 /\ (n + 1) - 1 = n
  BY <1>1
<1>3. Sums(f, q, n) /\ Sums(g, p, n + 1)
  BY <1>1, SumIs
<1> HIDE DEF f, g
<1>4. Sums(g, p, n)
  BY <1>1, <1>3 DEF Sums
<1>5. \A i \in 1 .. n : Amount(q[i]) = Amount(p[i])
  BY <1>1
<1> HIDE DEF q, p, n
<1>6. f[n] = g[n]
  BY <1>1, <1>2, <1>3, <1>4, <1>5, SumsAgree
<1>7. g[n + 1] = g[n] + Amount(x)
  BY <1>1, <1>2, <1>3 DEF Sums
<1>8. KeptBytes(r) = f[n] /\ KeptBytes(s) = g[n + 1]
  BY <1>1, KeptIsSum DEF f, g, n, q, p
<1> QED
  BY <1>6, <1>7, <1>8

LEMMA NothingKept ==
    ASSUME NEW r \in Result, \A i \in 1 .. Len(r.intervals) : r.intervals[i].omitted
    PROVE  KeptBytes(r) = 0
<1> DEFINE q == r.intervals
           n == Len(q)
           f == SumOf(q)
           g == [i \in 0 .. n |-> 0]
<1>1. q \in Seq(Interval) /\ n \in Nat /\ n <= n /\ n \in 0 .. n
  BY LenProperties DEF Result
<1>2. Sums(f, q, n)
  BY <1>1, SumIs
<1>3. \A i \in 1 .. n : Amount(q[i]) = 0
  BY DEF Amount
<1>4. \A i \in 1 .. n : i \in 0 .. n /\ i - 1 \in 0 .. n
  BY <1>1
<1>5. 0 \in 0 .. n
  BY <1>1
<1>6. Sums(g, q, n)
  BY <1>3, <1>4, <1>5 DEF Sums
<1>7. g[n] = 0
  BY <1>1
<1> HIDE DEF f, g
<1>8. f[n] = g[n]
  BY <1>1, <1>2, <1>6, SumsAgree
<1> QED
  BY <1>7, <1>8, KeptIsSum DEF f

LEMMA KeptSame ==
    ASSUME NEW r, NEW s, s.intervals = r.intervals
    PROVE  KeptBytes(s) = KeptBytes(r)
  BY KeptIsSum

-----------------------------------------------------------------------------
(* What has been collected has been counted *)

Block(state) == IF state = "counted" THEN 1 ELSE 0
Owed(omit) == IF omit > 0 THEN 1 ELSE 0

(* While omitting, nothing that is kept has been collected; afterwards what *)
(* is kept and what will be is within the total, but for a block whose      *)
(* total was counted before omitting ended                                  *)
BytesOf(r, omitting, read, state, sends, omit) ==
    /\ r.part >= 0
    /\ read # NULL => read[1] <= r.part
    /\ omitting => \A i \in 1 .. Len(r.intervals) : r.intervals[i].omitted
    /\ ~omitting =>
         KeptBytes(r) + r.part + Block(state)
           <= (IF sends THEN r.sent - r.sentOmit ELSE r.received) + Owed(omit)

BytesInv ==
    \A h \in Host :
        /\ InList(queue[h].order, "omit") => test[h].omitting
        /\ BytesOf(result[h], test[h].omitting, taken[h], worker[h], Sender(h), setup.omit)

LEMMA BytesTyped ==
    ASSUME NEW r \in Result, NEW sends, NEW omit
    PROVE  /\ KeptBytes(r) + r.part \in Int /\ r.part \in Int
           /\ (IF sends THEN r.sent - r.sentOmit ELSE r.received) + Owed(omit) \in Int
<1> DEFINE n == KeptBytes(r)
           c == IF sends THEN r.sent - r.sentOmit ELSE r.received
           o == Owed(omit)
<1>1. r.part \in Int /\ r.sent \in Int /\ r.sentOmit \in Int /\ r.received \in Int
  BY DEF Result
<1>2. n \in Int
  BY KeptTyped
<1>3. c \in Int /\ o \in Int
  BY <1>1 DEF Owed
<1> HIDE DEF n, c, o
<1>4. n + r.part \in Int /\ c + o \in Int
  BY <1>1, <1>2, <1>3
<1> QED
  BY <1>1, <1>4 DEF n, c, o

(* The counters of a host stay, or only the others do *)
LEMMA BytesStay ==
    ASSUME NEW r \in Result, NEW s \in Result, NEW omitting, NEW read, NEW state, NEW next,
           NEW sends, NEW omit,
           BytesOf(r, omitting, read, state, sends, omit),
           s.intervals = r.intervals, s.part = r.part,
           IF sends THEN s.sent = r.sent /\ s.sentOmit = r.sentOmit
           ELSE s.received = r.received,
           next = state \/ next # "counted"
    PROVE  BytesOf(s, omitting, read, next, sends, omit)
<1>1. KeptBytes(s) = KeptBytes(r)
  BY KeptSame
<1>2. read # NULL => read[1] <= s.part
  BY DEF BytesOf
<1>3. omitting => \A i \in 1 .. Len(s.intervals) : s.intervals[i].omitted
  BY DEF BytesOf
<1>4. ASSUME ~omitting
      PROVE  KeptBytes(s) + s.part + Block(next)
               <= (IF sends THEN s.sent - s.sentOmit ELSE s.received) + Owed(omit)
  <2> DEFINE n == KeptBytes(r) + r.part
             m == (IF sends THEN r.sent - r.sentOmit ELSE r.received) + Owed(omit)
             b == Block(state)
             d == Block(next)
  <2>1. n \in Int /\ m \in Int
    BY BytesTyped
  <2>2. n + b <= m
    BY <1>4 DEF BytesOf
  <2>3. b \in {0, 1} /\ d \in {0, 1} /\ d <= b
    BY DEF Block
  <2> HIDE DEF n, m, b, d
  <2>4. n + d <= m
    BY <2>1, <2>2, <2>3
  <2> QED
    BY <1>1, <2>4 DEF n, m, d
<1> QED
  BY <1>2, <1>3, <1>4 DEF BytesOf

LEMMA TakenTyped ==
    ASSUME TransferTypes, NEW h \in Host, taken[h] # NULL
    PROVE  taken[h][1] \in Int
<1>1. taken[h] \in Seq(Int)
  BY DEF TransferTypes
<1>2. Len(taken[h]) \in Nat /\ Len(taken[h]) # 0
  BY <1>1, EmptySeq, LenProperties DEF NULL
<1>3. 1 \in 1 .. Len(taken[h])
  BY <1>2
<1> QED
  BY <1>1, <1>3, ElementOfSeq

(* What has been read is collected, and the interval counter cleared *)
LEMMA BytesCollected ==
    ASSUME TransferTypes, QueuesInv, NEW h \in Host, taken[h] # NULL,
           result' = [result EXCEPT ![h] = AddInterval(@, taken[h][1], test[h].omitting)],
           result'[h] \in Result,
           NEW state, NEW sends, NEW omit,
           BytesOf(result[h], test[h].omitting, taken[h], state, sends, omit)
    PROVE  BytesOf(result'[h], test[h].omitting, NULL, state, sends, omit)
<1> DEFINE r == result[h]
           s == result'[h]
           bytes == taken[h][1]
           omitting == test[h].omitting
           x == [bytes |-> bytes, omitted |-> omitting,
                 start |-> IF r.intervals = <<>> THEN r.start ELSE r.end, end |-> now]
<1>1. /\ result \in [Host -> Result] /\ r \in Result /\ omitting \in BOOLEAN
      /\ taken[h] \in Seq(Int) /\ now \in Nat
  BY DEF TransferTypes, Test, QueuesInv
<1>2. bytes \in Int
  <2>1. Len(taken[h]) \in Nat /\ Len(taken[h]) # 0
    BY <1>1, EmptySeq, LenProperties DEF NULL
  <2>2. 1 \in 1 .. Len(taken[h])
    BY <2>1
  <2> QED
    BY <1>1, <2>2, ElementOfSeq
<1>3. s = [r EXCEPT !.intervals = Append(r.intervals, x), !.part = 0, !.end = now]
  BY <1>1 DEF AddInterval
<1>4. x \in Interval /\ Amount(x) = IF omitting THEN 0 ELSE bytes
  BY <1>1, <1>2 DEF Result, Interval, Amount
<1>5. x.omitted = omitting
  OBVIOUS
<1> HIDE DEF x, s
<1>6. /\ s.intervals = Append(r.intervals, x) /\ s.part = 0 /\ s.sent = r.sent
      /\ s.sentOmit = r.sentOmit /\ s.received = r.received
  BY <1>1, <1>3 DEF Result
<1>7. KeptBytes(s) = KeptBytes(r) + Amount(x)
  BY <1>1, <1>4, <1>6, KeptAdded DEF s
<1>8. ASSUME omitting, NEW i \in 1 .. Len(s.intervals)
      PROVE  s.intervals[i].omitted
  <2>1. /\ Len(r.intervals) \in Nat /\ Len(s.intervals) = Len(r.intervals) + 1
        /\ s.intervals[Len(r.intervals) + 1] = x
        /\ \A k \in 1 .. Len(r.intervals) : s.intervals[k] = r.intervals[k]
    BY <1>1, <1>4, <1>6, Appended DEF Result
  <2>2. i \in 1 .. Len(r.intervals) \/ i = Len(r.intervals) + 1
    BY <1>8, <2>1
  <2>3. \A k \in 1 .. Len(r.intervals) : r.intervals[k].omitted
    BY <1>8 DEF BytesOf
  <2> QED
    BY <1>5, <1>8, <2>1, <2>2, <2>3
<1>9. ASSUME ~omitting
      PROVE  KeptBytes(s) + s.part + Block(state)
               <= (IF sends THEN s.sent - s.sentOmit ELSE s.received) + Owed(omit)
  <2> DEFINE n == KeptBytes(r)
             m == (IF sends THEN r.sent - r.sentOmit ELSE r.received) + Owed(omit)
             b == Block(state)
  <2>1. n \in Int /\ m \in Int /\ r.part \in Int /\ b \in Int
    <3>1. r \in Result /\ b \in Int
      BY <1>1 DEF Block
    <3> HIDE DEF r, b
    <3> QED
      BY <3>1, KeptTyped, BytesTyped
  <2>2. n + r.part + b <= m /\ bytes <= r.part
    BY <1>9 DEF BytesOf
  <2>3. KeptBytes(s) = n + bytes
    BY <1>4, <1>7, <1>9
  <2> HIDE DEF n, m, b, bytes
  <2>4. (n + bytes) + 0 + b <= m
    BY <1>2, <2>1, <2>2
  <2> QED
    BY <1>6, <2>3, <2>4 DEF m, b
<1> QED
  BY <1>6, <1>8, <1>9 DEF BytesOf, s

(* The omitting ends *)
LEMMA BytesForgotten ==
    ASSUME NEW r \in Result, NEW s \in Result, NEW state, NEW sends, NEW omit,
           omit > 0,
           \A i \in 1 .. Len(r.intervals) : r.intervals[i].omitted,
           s.intervals = r.intervals, s.part = 0, s.sent = r.sent, s.sentOmit = r.sent,
           s.received = 0
    PROVE  BytesOf(s, FALSE, NULL, state, sends, omit)
<1>1. KeptBytes(s) = 0
  BY NothingKept
<1>2. Owed(omit) = 1 /\ Block(state) \in {0, 1} /\ s.sent - s.sentOmit = 0
  BY DEF Owed, Block, Result
<1>3. 0 + 0 + Block(state) <= 0 + 1
  BY <1>2
<1> QED
  BY <1>1, <1>2, <1>3 DEF BytesOf

(* A block is counted in the total, and then in the interval *)
LEMMA BytesCounted ==
    ASSUME NEW r \in Result, NEW s \in Result, NEW omitting, NEW read, NEW sends, NEW omit,
           BytesOf(r, omitting, read, "moved", sends, omit),
           s.intervals = r.intervals, s.part = r.part,
           IF sends THEN s.sent = r.sent + 1 /\ s.sentOmit = r.sentOmit
           ELSE s.received = r.received + 1
    PROVE  BytesOf(s, omitting, read, "counted", sends, omit)
<1>1. KeptBytes(s) = KeptBytes(r)
  BY KeptSame
<1>2. ASSUME ~omitting
      PROVE  KeptBytes(s) + s.part + Block("counted")
               <= (IF sends THEN s.sent - s.sentOmit ELSE s.received) + Owed(omit)
  <2> DEFINE n == KeptBytes(r) + r.part
             m == IF sends THEN r.sent - r.sentOmit ELSE r.received
             l == IF sends THEN s.sent - s.sentOmit ELSE s.received
             o == Owed(omit)
  <2>1. n \in Int /\ m \in Int /\ l = m + 1 /\ o \in Int
    <3>1. r.sent \in Int /\ r.sentOmit \in Int /\ r.received \in Int
      BY DEF Result
    <3>2. m \in Int /\ o \in Int /\ l = m + 1
      BY <3>1 DEF Owed
    <3> QED
      BY <3>2, BytesTyped
  <2>2. Block("moved") = 0 /\ Block("counted") = 1
    BY DEF Block
  <2>3. n + 0 <= m + o
    BY <1>2, <2>2 DEF BytesOf
  <2> HIDE DEF n, m, l, o
  <2>4. n + 1 <= l + o
    BY <2>1, <2>3
  <2> QED
    BY <1>1, <2>2, <2>4 DEF n, l, o
<1> QED
  BY <1>2 DEF BytesOf

LEMMA BytesCountedPart ==
    ASSUME NEW r \in Result, NEW s \in Result, NEW omitting, NEW read, NEW sends, NEW omit,
           BytesOf(r, omitting, read, "counted", sends, omit),
           read # NULL => read[1] \in Int,
           s.intervals = r.intervals, s.part = r.part + 1,
           s.sent = r.sent, s.sentOmit = r.sentOmit, s.received = r.received
    PROVE  BytesOf(s, omitting, read, "loop", sends, omit)
<1>1. KeptBytes(s) = KeptBytes(r) /\ r.part \in Int
  BY KeptSame DEF Result
<1>2. ASSUME ~omitting
      PROVE  KeptBytes(s) + s.part + Block("loop")
               <= (IF sends THEN s.sent - s.sentOmit ELSE s.received) + Owed(omit)
  <2> DEFINE n == KeptBytes(r)
             m == (IF sends THEN r.sent - r.sentOmit ELSE r.received) + Owed(omit)
  <2>1. n \in Int /\ m \in Int
    BY KeptTyped, BytesTyped
  <2>2. Block("loop") = 0 /\ Block("counted") = 1
    BY DEF Block
  <2>3. n + r.part + 1 <= m
    BY <1>2, <2>2 DEF BytesOf
  <2> HIDE DEF n, m
  <2>4. n + (r.part + 1) + 0 <= m
    BY <1>1, <2>1, <2>3
  <2> QED
    BY <1>1, <2>2, <2>4 DEF n, m
<1>3. (read # NULL => read[1] <= s.part) /\ s.part >= 0
  BY <1>1 DEF BytesOf
<1> QED
  BY <1>2, <1>3 DEF BytesOf

LEMMA BytesInit == Init => BytesInv
<1> SUFFICES ASSUME Init, NEW h \in Host
    PROVE  /\ InList(queue[h].order, "omit") => test[h].omitting
           /\ BytesOf(result[h], test[h].omitting, taken[h], worker[h], Sender(h), setup.omit)
  BY DEF BytesInv
<1>1. QueuesInv /\ TransferTypes
  BY QueuesInit, TypesInit
<1>2. /\ result[h].sent = 0 /\ result[h].sentOmit = 0 /\ result[h].received = 0
      /\ result[h].part = 0 /\ result[h].intervals = <<>>
      /\ test[h].omitting = (setup.omit # 0) /\ taken[h] = NULL /\ worker[h] = "loop"
  BY DEF Init
<1>3. InList(queue[h].order, "omit") => test[h].omitting
  BY <1>1, <1>2 DEF QueuesInv
<1>4. /\ result[h] \in Result /\ Block("loop") = 0
      /\ \A i \in 1 .. Len(result[h].intervals) : result[h].intervals[i].omitted
  BY <1>1, <1>2 DEF TransferTypes, Block
<1>5. KeptBytes(result[h]) = 0
  BY <1>4, NothingKept
<1>6. 0 + 0 + 0 <= 0 + Owed(setup.omit) /\ 0 - 0 = 0
  BY DEF Owed
<1>7. KeptBytes(result[h]) + result[h].part + Block(worker[h])
        <= (IF Sender(h) THEN result[h].sent - result[h].sentOmit
            ELSE result[h].received) + Owed(setup.omit)
  BY <1>2, <1>4, <1>5, <1>6
<1>8. result[h].part >= 0
  BY <1>2
<1> QED
  BY <1>2, <1>3, <1>4, <1>7, <1>8 DEF BytesOf

(* The other host stays as it is *)
LEMMA BytesOfHost ==
    ASSUME BytesInv, NEW a \in Host, setup' = setup,
           \A k \in Host : k # a =>
             /\ queue'[k] = queue[k] /\ result'[k] = result[k] /\ taken'[k] = taken[k]
             /\ test'[k].omitting = test[k].omitting /\ worker'[k] = worker[k],
           InList(queue'[a].order, "omit") => test'[a].omitting,
           BytesOf(result'[a], test'[a].omitting, taken'[a], worker'[a], Sender(a), setup.omit)
    PROVE  BytesInv'
<1> SUFFICES ASSUME NEW h \in Host
    PROVE  /\ InList(queue'[h].order, "omit") => test'[h].omitting
           /\ BytesOf(result'[h], test'[h].omitting, taken'[h], worker'[h], Sender(h)',
                      setup'.omit)
  BY DEF BytesInv
<1>1. Sender(h)' = Sender(h)
  BY DEF Sender
<1>2. CASE h = a
  BY <1>1, <1>2
<1>3. CASE h # a
  BY <1>1, <1>3 DEF BytesInv
<1> QED
  BY <1>2, <1>3

(* Nothing is counted, collected or forgotten *)
LEMMA BytesSame ==
    ASSUME BytesInv, TransferTypes, TransferTypes', setup' = setup,
           \A k \in Host :
             /\ InList(queue'[k].order, "omit") => InList(queue[k].order, "omit")
             /\ test'[k].omitting = test[k].omitting /\ taken'[k] = taken[k]
             /\ result'[k].intervals = result[k].intervals /\ result'[k].part = result[k].part
             /\ IF Sender(k)
                THEN result'[k].sent = result[k].sent /\ result'[k].sentOmit = result[k].sentOmit
                ELSE result'[k].received = result[k].received
             /\ worker'[k] = worker[k] \/ worker'[k] # "counted"
    PROVE  BytesInv'
<1> SUFFICES ASSUME NEW h \in Host
    PROVE  /\ InList(queue'[h].order, "omit") => test'[h].omitting
           /\ BytesOf(result'[h], test'[h].omitting, taken'[h], worker'[h], Sender(h)',
                      setup'.omit)
  BY DEF BytesInv
<1>1. Sender(h)' = Sender(h)
  BY DEF Sender
<1>2. result[h] \in Result /\ result'[h] \in Result
  BY DEF TransferTypes
<1>3. /\ InList(queue[h].order, "omit") => test[h].omitting
      /\ BytesOf(result[h], test[h].omitting, taken[h], worker[h], Sender(h), setup.omit)
  BY DEF BytesInv
<1>4. BytesOf(result'[h], test[h].omitting, taken[h], worker'[h], Sender(h), setup.omit)
  BY <1>2, <1>3, BytesStay
<1> QED
  BY <1>1, <1>3, <1>4

LEMMA BytesWorker ==
    ASSUME TransferTypes, TransferTypes', BytesInv, NEW h \in Host, WorkerStep(h)
    PROVE  BytesInv'
<1>0. /\ result[h] \in Result /\ result'[h] \in Result
      /\ worker \in [Host -> {"loop", "moved", "counted", "gone"}]
      /\ InList(queue[h].order, "omit") => test[h].omitting
      /\ BytesOf(result[h], test[h].omitting, taken[h], worker[h], Sender(h), setup.omit)
  BY DEF TransferTypes, BytesInv
<1>1. CASE Send(h) \/ Receive(h)
  <2>1. /\ UNCHANGED <<setup, queue, test, result, taken>>
        /\ \A k \in Host : worker'[k] = worker[k] \/ worker'[k] # "counted"
    BY <1>0, <1>1 DEF Send, Receive, Becomes
  <2> QED
    BY <2>1, BytesSame
<1>2. CASE CountTotal(h)
  <2>1. /\ UNCHANGED <<setup, queue, test, taken>> /\ worker[h] = "moved"
        /\ worker'[h] = (IF Sender(h) \/ Running(h) THEN "counted" ELSE "loop")
        /\ \A k \in Host : k # h => worker'[k] = worker[k]
    BY <1>0, <1>2 DEF CountTotal, Becomes
  <2>2. /\ \A k \in Host : k # h => result'[k] = result[k]
        /\ result'[h].intervals = result[h].intervals /\ result'[h].part = result[h].part
        /\ result'[h].sentOmit = result[h].sentOmit
        /\ result'[h].sent = result[h].sent + (IF Sender(h) THEN 1 ELSE 0)
        /\ result'[h].received = result[h].received + (IF ~Sender(h) /\ Running(h) THEN 1 ELSE 0)
    BY <1>2, Counts
  <2>3. CASE Sender(h) \/ Running(h)
    <3>1. BytesOf(result'[h], test[h].omitting, taken[h], "counted", Sender(h), setup.omit)
      BY <1>0, <2>1, <2>2, <2>3, BytesCounted
    <3> QED
      BY <1>0, <2>1, <2>2, <2>3, <3>1, BytesOfHost
  <2>4. CASE ~(Sender(h) \/ Running(h))
    <3>1. result[h].received + 0 = result[h].received
      BY <1>0 DEF Result
    <3>2. result'[h].received = result[h].received
      BY <2>2, <2>4, <3>1
    <3>3. BytesOf(result'[h], test[h].omitting, taken[h], "loop", Sender(h), setup.omit)
      BY <1>0, <2>2, <2>4, <3>2, BytesStay
    <3> QED
      BY <1>0, <2>1, <2>2, <2>4, <3>3, BytesOfHost
  <2> QED
    BY <2>3, <2>4
<1>3. CASE CountPart(h)
  <2>1. /\ UNCHANGED <<setup, queue, test, taken>> /\ worker[h] = "counted"
        /\ worker'[h] = "loop" /\ \A k \in Host : k # h => worker'[k] = worker[k]
    BY <1>0, <1>3 DEF CountPart, Becomes
  <2>2. /\ \A k \in Host : k # h => result'[k] = result[k]
        /\ result'[h].intervals = result[h].intervals /\ result'[h].part = result[h].part + 1
        /\ result'[h].sent = result[h].sent /\ result'[h].sentOmit = result[h].sentOmit
        /\ result'[h].received = result[h].received
    BY <1>3, CountsPart
  <2>3. taken[h] # NULL => taken[h][1] \in Int
    BY TakenTyped
  <2>4. BytesOf(result'[h], test[h].omitting, taken[h], "loop", Sender(h), setup.omit)
    BY <1>0, <2>1, <2>2, <2>3, BytesCountedPart
  <2> QED
    BY <1>0, <2>1, <2>2, <2>4, BytesOfHost
<1> QED
  BY <1>1, <1>2, <1>3 DEF WorkerStep

LEMMA BytesTimer ==
    ASSUME TransferInv, TransferInv', BytesInv, NEW h \in Host, TimerStep(h)
    PROVE  BytesInv'
<1>0. /\ QueuesInv /\ TransferTypes /\ PrintsInv /\ TransferTypes'
      /\ queue \in [Host -> Queue] /\ result \in [Host -> Result] /\ test \in [Host -> Test]
      /\ taken \in [Host -> Seq(Int)] /\ worker \in [Host -> {"loop", "moved", "counted", "gone"}]
  BY DEF TransferInv, QueuesInv, TransferTypes
<1>1. /\ result[h] \in Result /\ result'[h] \in Result /\ test[h] \in Test
      /\ InList(queue[h].order, "omit") => test[h].omitting
      /\ BytesOf(result[h], test[h].omitting, taken[h], worker[h], Sender(h), setup.omit)
  BY <1>0 DEF TransferTypes, BytesInv
<1>2. CASE StartWalk(h)
  <2>1. UNCHANGED <<setup, queue, test, result, taken, worker>>
    BY <1>2 DEF StartWalk
  <2> QED
    BY <1>0, <2>1, BytesSame
<1>3. CASE TestTimer(h)
  <2>1. /\ UNCHANGED <<setup, now, result, taken, worker>> /\ walk[h].at = "timer"
        /\ Walked(h, queue[h])
        /\ \A k \in Host : test'[k].omitting = test[k].omitting
    BY <1>0, <1>1, <1>3 DEF TestTimer, Test
  <2>2. \A k \in Host : k # h => queue'[k] = queue[k]
    BY <1>0, <2>1 DEF Walked
  <2>3. InList(queue'[h].order, "omit") => InList(queue[h].order, "omit")
    BY <1>0, <2>1, AfterTimer
  <2> QED
    BY <1>0, <2>1, <2>2, <2>3, BytesSame
<1>4. CASE ServerTimer(h)
  <2>1. /\ UNCHANGED <<setup, now, result, taken>> /\ walk[h].at = "timer"
        /\ Walked(h, queue[h])
        /\ \A k \in Host : worker'[k] = worker[k] \/ worker'[k] # "counted"
    BY <1>0, <1>4 DEF ServerTimer
  <2>2. \A k \in Host : test'[k].omitting = test[k].omitting
    BY <1>0, <1>1, <1>4 DEF ServerTimer, Test
  <2>3. \A k \in Host : k # h => queue'[k] = queue[k]
    BY <1>0, <2>1 DEF Walked
  <2>4. InList(queue'[h].order, "omit") => InList(queue[h].order, "omit")
    BY <1>0, <2>1, AfterTimer
  <2> QED
    BY <1>0, <2>1, <2>2, <2>3, <2>4, BytesSame
<1>5. CASE StatsTimerIdle(h)
  <2>1. /\ UNCHANGED <<setup, now, test, result, taken, worker>> /\ walk[h].at = "stats"
        /\ Walked(h, queue[h])
    BY <1>5 DEF StatsTimerIdle
  <2>2. \A k \in Host : k # h => queue'[k] = queue[k]
    BY <1>0, <2>1 DEF Walked
  <2>3. InList(queue'[h].order, "omit") => InList(queue[h].order, "omit")
    BY <1>0, <2>1, AfterStats
  <2> QED
    BY <1>0, <2>1, <2>2, <2>3, BytesSame
<1>6. CASE ReadPart(h)
  <2>1. /\ UNCHANGED <<setup, queue, test, result, worker>>
        /\ taken'[h] = <<result[h].part>> /\ taken'[h][1] = result[h].part
        /\ \A k \in Host : k # h => taken'[k] = taken[k]
    BY <1>0, <1>6 DEF ReadPart
  <2>2. result[h].part <= result[h].part
    BY <1>1 DEF Result
  <2>3. BytesOf(result[h], test[h].omitting, taken'[h], worker[h], Sender(h), setup.omit)
    BY <1>1, <2>1, <2>2 DEF BytesOf
  <2> QED
    BY <1>1, <2>1, <2>3, BytesOfHost
<1>7. CASE StatsTimer(h)
  <2>1. /\ UNCHANGED <<setup, now, test, worker>> /\ walk[h].at = "stats" /\ taken[h] # NULL
        /\ Walked(h, queue[h])
        /\ result' = [result EXCEPT ![h] = AddInterval(@, taken[h][1], test[h].omitting)]
        /\ taken' = [taken EXCEPT ![h] = NULL]
    BY <1>7 DEF StatsTimer
  <2>2. \A k \in Host : k # h => /\ queue'[k] = queue[k] /\ result'[k] = result[k]
                                 /\ taken'[k] = taken[k]
    BY <1>0, <2>1 DEF Walked
  <2>3. InList(queue'[h].order, "omit") => InList(queue[h].order, "omit")
    BY <1>0, <2>1, AfterStats
  <2>4. BytesOf(result'[h], test[h].omitting, NULL, worker[h], Sender(h), setup.omit)
    BY <1>0, <1>1, <2>1, BytesCollected
  <2>5. taken'[h] = NULL
    BY <1>0, <2>1
  <2> QED
    BY <1>1, <2>1, <2>2, <2>3, <2>4, <2>5, BytesOfHost
<1>8. CASE ReporterTimer(h)
  <2> DEFINE s == IF test[h].done THEN result[h] ELSE PrintLast(h, result[h])
  <2>1. /\ UNCHANGED <<setup, now, test, taken, worker>> /\ walk[h].at = "reporter"
        /\ Walked(h, queue[h]) /\ result' = [result EXCEPT ![h] = s]
    BY <1>8 DEF ReporterTimer
  <2>2. /\ s.intervals = result[h].intervals /\ s.part = result[h].part
        /\ s.sent = result[h].sent /\ s.sentOmit = result[h].sentOmit
        /\ s.received = result[h].received
    BY <1>1, LastPrinted
  <2> HIDE DEF s
  <2>3. \A k \in Host : /\ result'[k].intervals = result[k].intervals
                        /\ result'[k].part = result[k].part /\ result'[k].sent = result[k].sent
                        /\ result'[k].sentOmit = result[k].sentOmit
                        /\ result'[k].received = result[k].received
    BY <1>0, <2>1, <2>2
  <2>4. \A k \in Host : k # h => queue'[k] = queue[k]
    BY <1>0, <2>1 DEF Walked
  <2>5. InList(queue'[h].order, "omit") => InList(queue[h].order, "omit")
    BY <1>0, <2>1, AfterReporter
  <2> QED
    BY <1>0, <2>1, <2>3, <2>4, <2>5, BytesSame
<1>9. CASE OmitTimer(h)
  <2> DEFINE s == ResetStats(result[h])
             u == [test[h] EXCEPT !.omitting = FALSE]
  <2>1. /\ UNCHANGED <<setup, now, taken, worker>> /\ walk[h].at = "omit"
        /\ result' = [result EXCEPT ![h] = s] /\ test' = [test EXCEPT ![h] = u]
        /\ u.omitting = FALSE
    BY <1>1, <1>9 DEF OmitTimer, Test
  <2>2. /\ s.intervals = result[h].intervals /\ s.part = 0 /\ s.sent = result[h].sent
        /\ s.sentOmit = result[h].sent /\ s.received = 0 /\ s \in Result
    BY <1>0, <1>1, Forgotten DEF QueuesInv
  <2> HIDE DEF s, u
  <2>3. /\ result'[h] = s /\ test'[h].omitting = FALSE
        /\ \A k \in Host : k # h => /\ result'[k] = result[k]
                                    /\ test'[k].omitting = test[k].omitting
    BY <1>0, <2>1
  <2>4. \A k \in Host : k # h => queue'[k] = queue[k]
    BY <1>0, <1>9 DEF OmitTimer, Walked
  <2>5. setup.omit # 0 /\ ~InList(queue'[h].order, "omit")
    BY <1>0, <1>9, <2>1, AfterOmit
  <2>6. setup.omit > 0
    BY <1>0, <2>5, TransferAssumption DEF QueuesInv
  <2>7. taken[h] = NULL /\ InList(queue[h].order, "omit")
    <3>1. PrintInv(result[h], test[h], "omit", taken[h], setup.interval[h])
      BY <1>0, <2>1 DEF PrintsInv
    <3>2. QueueInv(queue[h], "omit", walk[h].now, setup.interval[h])
      BY <1>0, <2>1 DEF QueuesInv
    <3>3. taken[h] # NULL => test[h].phase = "ending"
      BY <3>1 DEF PrintInv
    <3>4. test[h].phase = "ending" => "omit" = NoTimer
      BY <3>1 DEF PrintInv
    <3> QED
      BY <3>2, <3>3, <3>4 DEF QueueInv, NoTimer
  <2>8. \A i \in 1 .. Len(result[h].intervals) : result[h].intervals[i].omitted
    BY <1>1, <2>7 DEF BytesOf
  <2>9. BytesOf(s, FALSE, NULL, worker[h], Sender(h), setup.omit)
    BY <1>1, <2>2, <2>6, <2>8, BytesForgotten
  <2> QED
    BY <2>1, <2>3, <2>4, <2>5, <2>7, <2>9, BytesOfHost
<1> QED
  BY <1>2, <1>3, <1>4, <1>5, <1>6, <1>7, <1>8, <1>9 DEF TimerStep

LEMMA BytesEnd ==
    ASSUME TransferInv, TransferInv', BytesInv, EndStep
    PROVE  BytesInv'
<1>0. /\ QueuesInv /\ TransferTypes /\ TransferTypes' /\ result \in [Host -> Result]
      /\ test \in [Host -> Test] /\ taken \in [Host -> Seq(Int)]
      /\ worker \in [Host -> {"loop", "moved", "counted", "gone"}]
      /\ wire \in [Host -> Seq(Message)] /\ "client" \in Host /\ "server" \in Host
  BY DEF TransferInv, TransferTypes, Host
<1>1. \A h \in Host : /\ result[h] \in Result /\ result'[h] \in Result /\ test[h] \in Test
                      /\ InList(queue[h].order, "omit") => test[h].omitting
                      /\ BytesOf(result[h], test[h].omitting, taken[h], worker[h], Sender(h),
                                 setup.omit)
  BY <1>0 DEF TransferTypes, BytesInv
<1>2. ASSUME NEW h \in Host, NEW phase \in Phase, Moves(h, phase)
      PROVE  \A k \in Host : test'[k].omitting = test[k].omitting
  BY <1>0, <1>2, PhaseTyped
<1>3. ASSUME NEW h \in Host, NEW phase \in Phase, Moves(h, phase), taken[h] # NULL,
             result' = [result EXCEPT ![h] = AddInterval(@, taken[h][1], test[h].omitting)],
             taken' = [taken EXCEPT ![h] = NULL], UNCHANGED <<setup, queue, worker>>
      PROVE  BytesInv'
  <2>1. \A k \in Host : test'[k].omitting = test[k].omitting
    BY <1>2, <1>3
  <2>2. taken'[h] = NULL /\ \A k \in Host : k # h => result'[k] = result[k] /\ taken'[k] = taken[k]
    BY <1>0, <1>3
  <2>3. BytesOf(result'[h], test[h].omitting, NULL, worker[h], Sender(h), setup.omit)
    BY <1>0, <1>1, <1>3, BytesCollected
  <2> QED
    BY <1>1, <1>3, <2>1, <2>2, <2>3, BytesOfHost
<1>4. CASE ClientEnds
  <2>1. /\ UNCHANGED <<setup, queue, result, taken>> /\ Moves("client", "ending")
        /\ \A k \in Host : worker'[k] = worker[k] \/ worker'[k] # "counted"
    BY <1>0, <1>4 DEF ClientEnds
  <2>2. \A k \in Host : test'[k].omitting = test[k].omitting
    BY <1>0, <1>2, <2>1 DEF Phase
  <2> QED
    BY <1>0, <2>1, <2>2, BytesSame
<1>5. CASE ClientEnded
  BY <1>0, <1>3, <1>5 DEF ClientEnded, Phase
<1>6. CASE ServerEnds
  <2> DEFINE u == [test["server"] EXCEPT !.phase = "ending", !.done = TRUE]
  <2>1. /\ UNCHANGED <<setup, queue, result, taken, worker>>
        /\ test' = [test EXCEPT !["server"] = u]
    BY <1>6 DEF ServerEnds
  <2>2. u.omitting = test["server"].omitting
    BY <1>0, <1>1 DEF Test
  <2> HIDE DEF u
  <2>3. \A k \in Host : test'[k].omitting = test[k].omitting
    BY <1>0, <2>1, <2>2
  <2> QED
    BY <1>0, <2>1, <2>3, BytesSame
<1>7. CASE ServerCloses
  BY <1>0, <1>3, <1>7 DEF ServerCloses, Phase
<1>8. CASE ServerReports
  <2> DEFINE r == result["server"]
             p == PrintLast("server", r)
             q == Summarise(p, Sender("server"))
  <2>1. /\ p \in Result /\ p.intervals = r.intervals /\ p.part = r.part /\ p.sent = r.sent
        /\ p.sentOmit = r.sentOmit /\ p.received = r.received
    BY <1>0, <1>1, LastPrinted
  <2>2. /\ UNCHANGED <<setup, queue, taken, worker>> /\ Moves("server", "reported")
        /\ result' = [result EXCEPT !["server"] = q]
    BY <1>8 DEF ServerReports
  <2> HIDE DEF p
  <2>3. /\ q.intervals = p.intervals /\ q.part = p.part /\ q.sent = p.sent
        /\ q.sentOmit = p.sentOmit /\ q.received = p.received
    BY <2>1, Summarised DEF Sender
  <2> HIDE DEF q
  <2>4. \A k \in Host : /\ result'[k].intervals = result[k].intervals
                        /\ result'[k].part = result[k].part /\ result'[k].sent = result[k].sent
                        /\ result'[k].sentOmit = result[k].sentOmit
                        /\ result'[k].received = result[k].received
    BY <1>0, <2>1, <2>2, <2>3
  <2>5. \A k \in Host : test'[k].omitting = test[k].omitting
    BY <1>0, <1>2, <2>2 DEF Phase
  <2> QED
    BY <1>0, <2>2, <2>4, <2>5, BytesSame
<1>9. CASE ClientSendsResults
  <2>1. /\ UNCHANGED <<setup, queue, result, taken, worker>> /\ Moves("client", "exchange")
    BY <1>9 DEF ClientSendsResults
  <2>2. \A k \in Host : test'[k].omitting = test[k].omitting
    BY <1>0, <1>2, <2>1 DEF Phase
  <2> QED
    BY <1>0, <2>1, <2>2, BytesSame
<1>10. CASE ServerExchanges
  <2> DEFINE r == result["server"]
             q == Learn("server", r, Head(wire["server"]))
  <2>1. Head(wire["server"]) \in ResultsMessage
    BY <1>0, <1>10, FirstMessage DEF ServerExchanges, Gets
  <2>2. /\ q.intervals = r.intervals /\ q.part = r.part
        /\ Sender("server") => q.sent = r.sent /\ q.sentOmit = r.sentOmit
        /\ ~Sender("server") => q.received = r.received
    BY <1>0, <1>1, <2>1, Learned
  <2>3. /\ UNCHANGED <<setup, queue, taken, worker>> /\ Moves("server", "over")
        /\ result' = [result EXCEPT !["server"] = q]
    BY <1>10 DEF ServerExchanges
  <2> HIDE DEF q
  <2>4. \A k \in Host : /\ result'[k].intervals = result[k].intervals
                        /\ result'[k].part = result[k].part
                        /\ Sender(k) => /\ result'[k].sent = result[k].sent
                                        /\ result'[k].sentOmit = result[k].sentOmit
                        /\ ~Sender(k) => result'[k].received = result[k].received
    BY <1>0, <2>2, <2>3
  <2>5. \A k \in Host : test'[k].omitting = test[k].omitting
    BY <1>0, <1>2, <2>3 DEF Phase
  <2> QED
    BY <1>0, <2>3, <2>4, <2>5, BytesSame
<1>11. CASE ClientDisplays
  <2> DEFINE r == result["client"]
             l == Learn("client", r, Head(wire["client"]))
             p == PrintLast("client", l)
             q == Summarise(p, Sender("client"))
             u == [test["client"] EXCEPT !.phase = "over", !.done = TRUE]
  <2>1. Head(wire["client"]) \in ResultsMessage
    BY <1>0, <1>11, FirstMessage DEF ClientDisplays, Gets
  <2>2. /\ l \in Result /\ l.intervals = r.intervals /\ l.part = r.part
        /\ Sender("client") => l.sent = r.sent /\ l.sentOmit = r.sentOmit
        /\ ~Sender("client") => l.received = r.received
    BY <1>0, <1>1, <2>1, Learned
  <2>3. /\ UNCHANGED <<setup, queue, taken>> /\ test' = [test EXCEPT !["client"] = u]
        /\ result' = [result EXCEPT !["client"] = q]
        /\ \A k \in Host : worker'[k] = worker[k] \/ worker'[k] # "counted"
    BY <1>0, <1>11 DEF ClientDisplays
  <2>4. u.omitting = test["client"].omitting
    BY <1>0, <1>1 DEF Test
  <2> HIDE DEF l, u
  <2>5. /\ p \in Result /\ p.intervals = l.intervals /\ p.part = l.part /\ p.sent = l.sent
        /\ p.sentOmit = l.sentOmit /\ p.received = l.received
    BY <1>0, <2>2, LastPrinted
  <2> HIDE DEF p
  <2>6. /\ q.intervals = p.intervals /\ q.part = p.part /\ q.sent = p.sent
        /\ q.sentOmit = p.sentOmit /\ q.received = p.received
    BY <2>5, Summarised DEF Sender
  <2> HIDE DEF q
  <2>7. \A k \in Host : /\ result'[k].intervals = result[k].intervals
                        /\ result'[k].part = result[k].part
                        /\ Sender(k) => /\ result'[k].sent = result[k].sent
                                        /\ result'[k].sentOmit = result[k].sentOmit
                        /\ ~Sender(k) => result'[k].received = result[k].received
    BY <1>0, <2>2, <2>3, <2>5, <2>6
  <2>8. \A k \in Host : test'[k].omitting = test[k].omitting
    BY <1>0, <2>3, <2>4
  <2> QED
    BY <1>0, <2>3, <2>7, <2>8, BytesSame
<1>12. CASE ClientIsCut
  <2>1. /\ UNCHANGED <<setup, queue, result, taken>> /\ Moves("client", "over")
        /\ \A k \in Host : worker'[k] = worker[k] \/ worker'[k] # "counted"
    BY <1>0, <1>12 DEF ClientIsCut
  <2>2. \A k \in Host : test'[k].omitting = test[k].omitting
    BY <1>0, <1>2, <2>1 DEF Phase
  <2> QED
    BY <1>0, <2>1, <2>2, BytesSame
<1> QED
  BY <1>4, <1>5, <1>6, <1>7, <1>8, <1>9, <1>10, <1>11, <1>12 DEF EndStep

LEMMA BytesNext == TransferInv /\ TransferInv' /\ BytesInv /\ [Next]_vars => BytesInv'
<1> SUFFICES ASSUME TransferInv, TransferInv', BytesInv, [Next]_vars PROVE BytesInv'
  OBVIOUS
<1>1. TransferTypes /\ TransferTypes'
  BY DEF TransferInv
<1>2. CASE UNCHANGED vars \/ Tick
  <2>1. UNCHANGED <<setup, queue, test, result, taken, worker>>
    BY <1>2 DEF vars, Tick
  <2> QED
    BY <1>1, <2>1, BytesSame
<1>3. CASE EndStep
  BY <1>3, BytesEnd
<1>4. CASE \E h \in Host : WorkerStep(h) \/ TimerStep(h)
  BY <1>1, <1>4, BytesWorker, BytesTimer
<1> QED
  BY <1>2, <1>3, <1>4 DEF Next

(* The intervals after the omitted ones never show more than the total      *)
(* does, but for the one block whose total was counted before omitting      *)
(* ended and its interval after: whenever a control thread reads the        *)
(* interval counter, and whatever the worker counts before it is cleared    *)
THEOREM BlocksCountedOnce == Spec => []NothingCountedTwice
<1> DEFINE Inv == TransferInv /\ BytesInv
<1>1. Init => Inv
  BY QueuesInit, TypesInit, PrintsInit, TransferInit, BytesInit DEF TransferInv
<1>2. Inv /\ [Next]_vars => Inv'
  BY TransferNext, BytesNext
<1>3. Inv => NothingCountedTwice
  <2> SUFFICES ASSUME Inv, NEW h \in Host, ~test[h].omitting
      PROVE  KeptBytes(result[h]) <= Counted(h) + IF setup.omit > 0 THEN 1 ELSE 0
    BY DEF NothingCountedTwice
  <2> DEFINE r == result[h]
             n == KeptBytes(r)
             b == Block(worker[h])
             m == Counted(h)
             o == Owed(setup.omit)
  <2>1. r \in Result /\ BytesOf(r, FALSE, taken[h], worker[h], Sender(h), setup.omit)
    BY DEF TransferInv, TransferTypes, BytesInv, Test
  <2>2. n \in Int /\ r.part \in Int
    BY <2>1, KeptTyped DEF Result
  <2>3. b \in {0, 1} /\ m \in Int /\ o \in {0, 1}
    BY <2>1 DEF Block, Owed, Counted, Result
  <2>4. n + r.part + b <= m + o /\ r.part >= 0
    BY <2>1 DEF BytesOf, Counted
  <2> HIDE DEF r, n, b, m, o
  <2>5. n <= m + o
    BY <2>2, <2>3, <2>4
  <2> QED
    BY <2>5 DEF n, m, o, r, Owed
<1> HIDE DEF Inv
<1> QED
  BY <1>1, <1>2, <1>3, PTL DEF Spec
=============================================================================

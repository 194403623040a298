------------------------------ MODULE ChatProofs ------------------------------
(***************************************************************************)
(* Proofs about Chat, for every number of peers, rooms, messages and       *)
(* events: what the lists of messages are, in memory, on the disk and in   *)
(* the datagrams, and what a peer knows of its file.                       *)
(***************************************************************************)
EXTENDS Chat, InductionFacts

-----------------------------------------------------------------------------
(* Sets of numbers and lists of messages.                                  *)

LEMMA MaxProperties ==
  ASSUME NEW n \in Nat, NEW U \in SUBSET (0..n), U # {}
  PROVE  Max(U) \in U /\ \A k \in U : k <= Max(U)
<1> DEFINE V == {n - k : k \in U}
<1>1. V \in SUBSET Nat /\ V # {}
  OBVIOUS
<1>2. PICK v \in V : \A w \in V : v <= w
  BY <1>1, LeastNatural
<1>3. n - v \in U
  BY <1>2
<1>4. ASSUME NEW k \in U PROVE n - v >= k
  <2>1. n - k \in V /\ v <= n - k /\ v \in Nat /\ k \in Nat
    BY <1>1, <1>2
  <2> QED BY <2>1
<1>5. \E x \in U : \A y \in U : x >= y
  BY <1>3, <1>4
<1>6. Max(U) \in U /\ \A y \in U : Max(U) >= y
  BY <1>5 DEF Max
<1> QED BY <1>6

LEMMA MaxOfTwo ==
  ASSUME NEW a \in Int, NEW b \in Int
  PROVE  Max({a, b}) = IF a >= b THEN a ELSE b
<1> DEFINE m == IF a >= b THEN a ELSE b
<1>1. m \in {a, b} /\ \A y \in {a, b} : m >= y
  OBVIOUS
<1>2. Max({a, b}) \in {a, b} /\ \A y \in {a, b} : Max({a, b}) >= y
  BY <1>1 DEF Max
<1> QED BY <1>2

LEMMA MinOfTwo ==
  ASSUME NEW a \in Int, NEW b \in Int
  PROVE  Min({a, b}) = IF a <= b THEN a ELSE b
<1> DEFINE m == IF a <= b THEN a ELSE b
<1>1. m \in {a, b} /\ \A y \in {a, b} : m =< y
  OBVIOUS
<1>2. Min({a, b}) \in {a, b} /\ \A y \in {a, b} : Min({a, b}) =< y
  BY <1>1 DEF Min
<1> QED BY <1>2

(* The messages a peer keeps have a time; those of a datagram may not.     *)
Messages == [id : Nat, time : Times]
Received == [id : Nat, time : Times \cup {NotSet}]

Ordered(list) ==
  \A i, j \in 1..Len(list) : i <= j => list[i].time <= list[j].time
NoTwice(list) ==
  \A i, j \in 1..Len(list) : list[i].id = list[j].id => i = j
IsList(list) == list \in Seq(Messages) /\ Ordered(list) /\ NoTwice(list)

LEMMA IDsOfList ==
  ASSUME NEW M, NEW list \in Seq(M)
  PROVE  IDsOf(list) = {list[i].id : i \in 1..Len(list)}
<1>1. ToSet(list) = {list[i] : i \in 1..Len(list)}
  BY LenProperties DEF ToSet
<1> QED BY <1>1 DEF IDsOf

LEMMA IDsCounted ==
  ASSUME NEW list, IsList(list)
  PROVE  Cardinality(IDsOf(list)) = Len(list)
<1> DEFINE n == Len(list)
           IDs == IDsOf(list)
           f == [i \in 1..n |-> list[i].id]
<1>1. n \in Nat /\ IDs = {list[i].id : i \in 1..n}
  BY IDsOfList DEF IsList
<1>2. f \in [1..n -> IDs] /\ \A id \in IDs : \E i \in 1..n : f[i] = id
  BY <1>1
<1>3. \A i, j \in 1..n : f[i] = f[j] => i = j
  BY DEF IsList, NoTwice
<1> HIDE DEF f, IDs
<1>4. f \in Surjection(1..n, IDs) /\ f \in Injection(1..n, IDs)
  BY <1>2, <1>3 DEF Surjection, Injection, IsInjective
<1>5. IsFiniteSet(1..n) /\ Cardinality(1..n) = n
  <2>1. IsFiniteSet(1..n) /\ Cardinality(1..n) = IF 1 > n THEN 0 ELSE n - 1 + 1
    BY <1>1, FS_Interval
  <2> HIDE DEF n
  <2> QED BY <1>1, <2>1
<1>6. Cardinality(IDs) = Cardinality(1..n)
  BY <1>4, <1>5, FS_Surjection
<1> QED BY <1>5, <1>6 DEF IDs

(* A part of a list is a list.                                             *)
LEMMA PartOfList ==
  ASSUME NEW list, IsList(list), NEW a \in Nat \ {0}, NEW b \in Nat, b <= Len(list), a <= b + 1
  PROVE  /\ IsList(SubSeq(list, a, b))
         /\ Len(SubSeq(list, a, b)) = b + 1 - a
         /\ \A i \in 1..b + 1 - a : SubSeq(list, a, b)[i] = list[a + i - 1]
<1> DEFINE part == SubSeq(list, a, b)
           m == b + 1 - a
<1>1. list \in Seq(Messages) /\ Len(list) \in Nat
  BY DEF IsList
<1>2. \A i \in a..b : i \in 1..Len(list)
  BY <1>1
<1>3. \A i \in a..b : list[i] \in Messages
  BY <1>1, <1>2, ElementOfSeq
<1>4. /\ part \in Seq(Messages)
      /\ Len(part) = IF a <= b THEN b - a + 1 ELSE 0
      /\ \A i \in 1..b - a + 1 : part[i] = list[a + i - 1]
  BY <1>3, SubSeqProperties
<1>5. /\ m \in Nat /\ Len(part) = m /\ m = b - a + 1
      /\ \A i \in 1..m : part[i] = list[a + i - 1] /\ a + i - 1 \in 1..Len(list)
  BY <1>1, <1>4
<1>6. Ordered(part)
  BY <1>5 DEF IsList, Ordered
<1>7. NoTwice(part)
  BY <1>5 DEF IsList, NoTwice
<1> QED BY <1>4, <1>5, <1>6, <1>7 DEF IsList

(* The last n of a list.                                                   *)
LEMMA LastOfList ==
  ASSUME NEW list, IsList(list), NEW n \in Nat \ {0}
  PROVE  \E k \in Nat :
           /\ k = IF Len(list) <= n THEN 0 ELSE Len(list) - n
           /\ LastOf(list, n) = SubSeq(list, k + 1, Len(list))
           /\ IsList(LastOf(list, n))
           /\ k <= Len(list) /\ Len(LastOf(list, n)) = Len(list) - k
           /\ Len(LastOf(list, n)) <= n
           /\ \A i \in 1..Len(list) - k : LastOf(list, n)[i] = list[k + i]
<1> DEFINE k == IF Len(list) <= n THEN 0 ELSE Len(list) - n
<1>1. Len(list) \in Nat /\ k \in Nat /\ k <= Len(list) /\ Len(list) - k <= n
  BY DEF IsList
<1>2. Max({1, Len(list) - n + 1}) = k + 1
  BY <1>1, MaxOfTwo
<1>3. LastOf(list, n) = SubSeq(list, k + 1, Len(list))
  BY <1>2 DEF LastOf
<1> HIDE DEF k
<1>4. /\ IsList(LastOf(list, n))
      /\ Len(LastOf(list, n)) = Len(list) + 1 - (k + 1)
      /\ \A i \in 1..Len(list) + 1 - (k + 1) : LastOf(list, n)[i] = list[k + 1 + i - 1]
  BY <1>1, <1>3, PartOfList
<1>5. Len(LastOf(list, n)) = Len(list) - k
  BY <1>1, <1>4
<1>6. ASSUME NEW i \in 1..Len(list) - k PROVE LastOf(list, n)[i] = list[k + i]
  <2>1. i \in 1..Len(list) + 1 - (k + 1) /\ k + 1 + i - 1 = k + i
    BY <1>1
  <2> QED BY <1>4, <2>1
<1>7. k = IF Len(list) <= n THEN 0 ELSE Len(list) - n
  BY DEF k
<1> QED BY <1>1, <1>3, <1>4, <1>5, <1>6, <1>7

LEMMA LastOfAll ==
  ASSUME NEW list, IsList(list), NEW n \in Nat \ {0}, Len(list) <= n
  PROVE  LastOf(list, n) = list
<1>1. LastOf(list, n) = SubSeq(list, 0 + 1, Len(list))
  BY LastOfList
<1>2. SubSeq(list, 1, Len(list)) = list
  BY SubSeqFull DEF IsList
<1> QED BY <1>1, <1>2

(* A message inserted in a list.                                           *)
LEMMA Cuts ==
  ASSUME NEW S, NEW s \in Seq(S), NEW p \in Nat, p <= Len(s)
  PROVE  /\ SubSeq(s, 1, p) \in Seq(S) /\ Len(SubSeq(s, 1, p)) = p
         /\ \A i \in 1..p : SubSeq(s, 1, p)[i] = s[i]
         /\ SubSeq(s, p + 1, Len(s)) \in Seq(S) /\ Len(SubSeq(s, p + 1, Len(s))) = Len(s) - p
         /\ \A i \in 1..Len(s) - p : SubSeq(s, p + 1, Len(s))[i] = s[p + i]
<1>1. Len(s) \in Nat /\ \A i \in 1..Len(s) : s[i] \in S
  BY LenProperties, ElementOfSeq
<1>2. /\ SubSeq(s, 1, p) \in Seq(S) /\ Len(SubSeq(s, 1, p)) = p
      /\ \A i \in 1..p : SubSeq(s, 1, p)[i] = s[i]
  <2>1. \A i \in 1..p : s[i] \in S
    BY <1>1
  <2> QED BY <2>1, SubSeqProperties, SMT
<1>3. /\ SubSeq(s, p + 1, Len(s)) \in Seq(S) /\ Len(SubSeq(s, p + 1, Len(s))) = Len(s) - p
      /\ \A i \in 1..Len(s) - p : SubSeq(s, p + 1, Len(s))[i] = s[p + i]
  <2>1. \A i \in p + 1..Len(s) : s[i] \in S
    BY <1>1
  <2>2. p + 1 \in Int /\ Len(s) \in Int
    BY <1>1
  <2> QED BY <2>1, <2>2, SubSeqProperties, SMT
<1> QED BY <1>2, <1>3

LEMMA InsertAtElements ==
  ASSUME NEW S, NEW s \in Seq(S), NEW j \in 0..Len(s), NEW m \in S
  PROVE  /\ InsertAt(s, j + 1, m) \in Seq(S)
         /\ Len(InsertAt(s, j + 1, m)) = Len(s) + 1
         /\ \A i \in 1..Len(s) + 1 :
              InsertAt(s, j + 1, m)[i] = IF i <= j THEN s[i] ELSE IF i = j + 1 THEN m ELSE s[i - 1]
<1> DEFINE l == SubSeq(s, 1, j)
           r == SubSeq(s, j + 1, Len(s))
           q == l \o <<m>>
           t == InsertAt(s, j + 1, m)
<1>0. Len(s) \in Nat /\ j \in Nat /\ j <= Len(s)
  BY LenProperties
<1>1. t = q \o r
  <2>1. (j + 1) - 1 = j
    BY <1>0
  <2> QED BY <2>1 DEF InsertAt
<1>2. /\ l \in Seq(S) /\ Len(l) = j /\ \A i \in 1..j : l[i] = s[i]
      /\ r \in Seq(S) /\ Len(r) = Len(s) - j /\ \A i \in 1..Len(s) - j : r[i] = s[j + i]
  BY <1>0, Cuts
<1> HIDE DEF l, r
<1>3. <<m>> \in Seq(S) /\ Len(<<m>>) = 1 /\ <<m>>[1] = m
  OBVIOUS
<1>4. q \in Seq(S) /\ Len(q) = j + 1 /\ \A i \in 1..j + 1 : q[i] = IF i <= j THEN l[i] ELSE m
  <2>1. /\ l \o <<m>> \in Seq(S) /\ Len(l \o <<m>>) = Len(l) + 1
        /\ \A i \in 1..Len(l) + 1 : (l \o <<m>>)[i] = IF i <= Len(l) THEN l[i] ELSE <<m>>[i - Len(l)]
    BY <1>2, <1>3, ConcatProperties
  <2> QED BY <1>0, <1>2, <1>3, <2>1
<1> HIDE DEF q, t
<1>5. /\ t \in Seq(S) /\ Len(t) = Len(q) + Len(r)
      /\ \A i \in 1..Len(q) + Len(r) : t[i] = IF i <= Len(q) THEN q[i] ELSE r[i - Len(q)]
  BY <1>1, <1>2, <1>4, ConcatProperties
<1>6. Len(t) = Len(s) + 1
  BY <1>0, <1>2, <1>4, <1>5
<1>7. ASSUME NEW i \in 1..Len(s) + 1
      PROVE  t[i] = IF i <= j THEN s[i] ELSE IF i = j + 1 THEN m ELSE s[i - 1]
  <2>0. i \in 1..Len(q) + Len(r)
    BY <1>0, <1>2, <1>4
  <2>1. CASE i <= j
    BY <1>0, <1>2, <1>4, <1>5, <2>0, <2>1
  <2>2. CASE i = j + 1
    BY <1>0, <1>4, <1>5, <2>0, <2>2
  <2>3. CASE i > j + 1
    <3>1. i - Len(q) \in 1..Len(s) - j /\ j + (i - Len(q)) = i - 1
      BY <1>0, <1>4, <2>3
    <3>2. t[i] = r[i - Len(q)]
      BY <1>0, <1>4, <1>5, <2>0, <2>3
    <3>3. r[i - Len(q)] = s[i - 1]
      BY <1>2, <3>1
    <3> QED BY <1>0, <2>3, <3>2, <3>3
  <2> QED BY <1>0, <2>1, <2>2, <2>3
<1> QED BY <1>5, <1>6, <1>7 DEF t

LEMMA MessageInserted ==
  ASSUME NEW s \in Seq(Messages), NEW j \in 0..Len(s), NEW m \in Messages
  PROVE  /\ InsertAt(s, j + 1, m) \in Seq(Messages)
         /\ Len(InsertAt(s, j + 1, m)) = Len(s) + 1
         /\ \A i \in 1..Len(s) + 1 :
              InsertAt(s, j + 1, m)[i] = IF i <= j THEN s[i] ELSE IF i = j + 1 THEN m ELSE s[i - 1]
BY InsertAtElements

-----------------------------------------------------------------------------
(* insert(): a turn of its loop, and the loop.                             *)

Accumulators == {acc \in [list : Seq(Messages), ids : SUBSET Nat, j : Nat, inserted : BOOLEAN] :
                   acc.j <= Len(acc.list)}

(* The place j found by a turn: what is after it, up to the former j, is   *)
(* younger than the message, and the element at j is not.                  *)
Before(m, acc) == Max({0} \cup {k \in 1..acc.j : acc.list[k].time <= m.time})

LEMMA BeforeProperties ==
  ASSUME NEW acc \in Accumulators, NEW m \in Messages
  PROVE  /\ Before(m, acc) \in 0..acc.j
         /\ Before(m, acc) > 0 => acc.list[Before(m, acc)].time <= m.time
         /\ \A k \in 1..acc.j : k > Before(m, acc) => acc.list[k].time > m.time
<1> DEFINE U == {0} \cup {k \in 1..acc.j : acc.list[k].time <= m.time}
           b == Before(m, acc)
<1>1. acc.j \in Nat /\ acc.j <= Len(acc.list) /\ acc.list \in Seq(Messages)
  BY DEF Accumulators
<1>2. U \in SUBSET (0..acc.j) /\ U # {}
  BY <1>1
<1>3. b \in U /\ \A k \in U : k <= b
  BY <1>1, <1>2, MaxProperties DEF Before
<1>4. m.time \in Int /\ \A k \in 1..acc.j : acc.list[k].time \in Int
  <2>1. \A k \in 1..acc.j : acc.list[k] \in Messages
    BY <1>1
  <2> QED BY <2>1 DEF Messages, Times
<1> HIDE DEF b
<1>5. ASSUME NEW k \in 1..acc.j, k > b PROVE acc.list[k].time > m.time
  <2>1. k \notin U
    BY <1>1, <1>2, <1>3, <1>5
  <2>2. ~(acc.list[k].time <= m.time)
    BY <2>1
  <2> QED BY <1>4, <2>2
<1>6. b \in 0..acc.j /\ (b > 0 => acc.list[b].time <= m.time)
  BY <1>1, <1>2, <1>3
<1> QED BY <1>5, <1>6 DEF b

LEMMA PlacedCases ==
  ASSUME NEW acc \in Accumulators, NEW m \in Messages
  PROVE  \/ Placed(m, acc) = acc
         \/ Before(m, acc) = 0 /\ Placed(m, acc) = [acc EXCEPT !.j = 0]
         \/ /\ m.id \notin acc.ids
            /\ Placed(m, acc) = [list |-> InsertAt(acc.list, Before(m, acc) + 1, m),
                                 ids |-> acc.ids \cup {m.id},
                                 j |-> Before(m, acc), inserted |-> TRUE]
BY DEF Placed, Before

LEMMA PlacedType ==
  ASSUME NEW acc \in Accumulators, NEW m \in Messages
  PROVE  /\ Placed(m, acc) \in Accumulators
         /\ ~Placed(m, acc).inserted => ~acc.inserted /\ Placed(m, acc).list = acc.list
<1>1. /\ acc.list \in Seq(Messages) /\ acc.j \in Nat /\ acc.j <= Len(acc.list)
      /\ acc.ids \in SUBSET Nat /\ m.id \in Nat /\ Len(acc.list) \in Nat
  BY DEF Accumulators, Messages
<1>2. CASE Placed(m, acc) = acc
  BY <1>2
<1>3. CASE Placed(m, acc) = [acc EXCEPT !.j = 0]
  BY <1>1, <1>3 DEF Accumulators
<1>4. CASE Placed(m, acc) = [list |-> InsertAt(acc.list, Before(m, acc) + 1, m),
                             ids |-> acc.ids \cup {m.id},
                             j |-> Before(m, acc), inserted |-> TRUE]
  <2> DEFINE b == Before(m, acc)
             l == InsertAt(acc.list, b + 1, m)
  <2>1. b \in 0..acc.j
    BY BeforeProperties
  <2> HIDE DEF b
  <2>2. b \in 0..Len(acc.list)
    BY <1>1, <2>1
  <2>3. l \in Seq(Messages) /\ Len(l) = Len(acc.list) + 1
    BY <1>1, <2>2, MessageInserted DEF l
  <2> HIDE DEF l
  <2>4. Placed(m, acc) = [list |-> l, ids |-> acc.ids \cup {m.id}, j |-> b, inserted |-> TRUE]
    BY <1>4 DEF l, b
  <2>5. b \in Nat /\ b <= Len(l)
    BY <1>1, <2>2, <2>3
  <2> QED BY <1>1, <2>3, <2>4, <2>5 DEF Accumulators
<1> QED BY <1>2, <1>3, <1>4, PlacedCases

(* The loop: the batch is sorted, so that what remains of it goes at j or  *)
(* before.                                                                 *)
IsAcc(acc, t) ==
  /\ acc \in Accumulators /\ IsList(acc.list) /\ acc.ids = IDsOf(acc.list)
  /\ \A a \in 1..Len(acc.list) : a > acc.j => t <= acc.list[a].time

LEMMA IsAccEarlier ==
  ASSUME NEW acc, NEW t \in Int, NEW u \in Int, IsAcc(acc, t), u <= t
  PROVE  IsAcc(acc, u)
<1>1. \A a \in 1..Len(acc.list) : acc.list[a].time \in Int
  <2>1. \A a \in 1..Len(acc.list) : acc.list[a] \in Messages
    BY DEF IsAcc, IsList
  <2> QED BY <2>1 DEF Messages, Times
<1> QED BY <1>1 DEF IsAcc

LEMMA PlacedKeeps ==
  ASSUME NEW acc, NEW m \in Messages, IsAcc(acc, m.time)
  PROVE  IsAcc(Placed(m, acc), m.time)
<1> DEFINE b == Before(m, acc)
           s == acc.list
<1>1. /\ acc \in Accumulators /\ s \in Seq(Messages) /\ Len(s) \in Nat /\ IsList(s)
      /\ acc.j \in Nat /\ acc.j <= Len(s) /\ acc.ids = IDsOf(s)
  BY DEF IsAcc, Accumulators
<1>2. m.time \in Int /\ \A a \in 1..Len(s) : s[a].time \in Int
  <2>1. \A a \in 1..Len(s) : s[a] \in Messages
    BY <1>1
  <2> QED BY <2>1 DEF Messages, Times
<1>3. /\ b \in Nat /\ b <= acc.j /\ (b > 0 => s[b].time <= m.time)
      /\ \A k \in 1..acc.j : k > b => s[k].time > m.time
  BY <1>1, BeforeProperties
<1> HIDE DEF b
<1>4. \A a \in 1..Len(s) : a > b => m.time <= s[a].time
  <2> TAKE a \in 1..Len(s)
  <2>1. CASE a > acc.j
    BY <2>1 DEF IsAcc
  <2>2. CASE a \in 1..acc.j
    BY <1>2, <1>3, <2>2
  <2> QED BY <1>1, <2>1, <2>2
<1>5. Placed(m, acc) \in Accumulators
  BY <1>1, PlacedType
<1>6. CASE Placed(m, acc) = acc
  BY <1>6
<1>7. CASE b = 0 /\ Placed(m, acc) = [acc EXCEPT !.j = 0]
  <2> DEFINE r == [acc EXCEPT !.j = 0]
  <2>1. r.list = s /\ r.ids = acc.ids /\ r.j = 0
    BY <1>1 DEF Accumulators
  <2> HIDE DEF r
  <2>2. IsAcc(r, m.time)
    BY <1>1, <1>4, <1>5, <1>7, <2>1 DEF IsAcc, r
  <2> QED BY <1>7, <2>2 DEF r
<1>8. CASE /\ m.id \notin acc.ids
           /\ Placed(m, acc) = [list |-> InsertAt(s, b + 1, m), ids |-> acc.ids \cup {m.id},
                                j |-> b, inserted |-> TRUE]
  <2> DEFINE l == InsertAt(s, b + 1, m)
  <2>1. /\ l \in Seq(Messages) /\ Len(l) = Len(s) + 1
        /\ \A i \in 1..Len(s) + 1 : l[i] = IF i <= b THEN s[i] ELSE IF i = b + 1 THEN m ELSE s[i - 1]
    <3>1. b \in 0..Len(s)
      BY <1>1, <1>3
    <3>2. s \in Seq(Messages)
      BY <1>1
    <3> HIDE DEF s
    <3> QED BY <3>1, <3>2, MessageInserted DEF l
  <2> HIDE DEF l
  <2>2. \A i \in 1..b : i \in 1..Len(s) /\ i \in 1..Len(l) /\ l[i] = s[i]
    BY <1>1, <1>3, <2>1
  <2>3. b + 1 \in 1..Len(l) /\ l[b + 1] = m
    BY <1>1, <1>3, <2>1
  <2>4. \A i \in 1..Len(l) : i > b + 1 => i - 1 \in 1..Len(s) /\ l[i] = s[i - 1] /\ i - 1 > b
    BY <1>1, <1>3, <2>1
  <2>5. \A i \in 1..Len(l) : i \in 1..b \/ i = b + 1 \/ i > b + 1
    BY <1>1, <1>3, <2>1
  <2>6. \A i \in 1..b : s[i].time <= m.time
    <3> TAKE i \in 1..b
    <3>1. b \in 1..Len(s) /\ i \in 1..Len(s) /\ i <= b
      BY <1>1, <1>3
    <3>2. s[i].time <= s[b].time
      BY <1>1, <3>1 DEF IsList, Ordered
    <3> QED BY <1>2, <1>3, <3>1, <3>2
  <2>7. Ordered(l)
    <3> SUFFICES ASSUME NEW i \in 1..Len(l), NEW k \in 1..Len(l), i <= k
                 PROVE  l[i].time <= l[k].time
      BY DEF Ordered
    <3>1. CASE i \in 1..b /\ k \in 1..b
      BY <1>1, <2>2, <3>1 DEF IsList, Ordered
    <3>2. CASE i \in 1..b /\ k = b + 1
      BY <2>2, <2>3, <2>6, <3>2
    <3>3. CASE i \in 1..b /\ k > b + 1
      <4>1. i \in 1..Len(s) /\ k - 1 \in 1..Len(s) /\ i <= k - 1 /\ l[i] = s[i] /\ l[k] = s[k - 1]
        BY <1>3, <2>2, <2>4, <3>3
      <4> QED BY <1>1, <4>1 DEF IsList, Ordered
    <3>4. CASE i = b + 1 /\ k = b + 1
      BY <1>2, <2>3, <3>4
    <3>5. CASE i = b + 1 /\ k > b + 1
      <4>1. k - 1 \in 1..Len(s) /\ k - 1 > b /\ l[i] = m /\ l[k] = s[k - 1]
        BY <2>3, <2>4, <3>5
      <4> QED BY <1>4, <4>1
    <3>6. CASE i > b + 1 /\ k > b + 1
      <4>1. /\ i - 1 \in 1..Len(s) /\ k - 1 \in 1..Len(s) /\ i - 1 <= k - 1
            /\ l[i] = s[i - 1] /\ l[k] = s[k - 1]
        BY <2>4, <3>6
      <4> QED BY <1>1, <4>1 DEF IsList, Ordered
    <3>7. ~(i = b + 1 /\ k \in 1..b) /\ ~(i > b + 1 /\ (k \in 1..b \/ k = b + 1))
      BY <1>3
    <3> QED BY <2>5, <3>1, <3>2, <3>3, <3>4, <3>5, <3>6, <3>7
  <2>8. \A i \in 1..Len(s) : s[i].id # m.id
    BY <1>1, <1>8, IDsOfList
  <2>9. NoTwice(l)
    <3> SUFFICES ASSUME NEW i \in 1..Len(l), NEW k \in 1..Len(l), l[i].id = l[k].id
                 PROVE  i = k
      BY DEF NoTwice
    <3> DEFINE At(x) == IF x <= b THEN x ELSE x - 1
    <3>1. ASSUME NEW x \in 1..Len(l), x # b + 1 PROVE At(x) \in 1..Len(s) /\ l[x] = s[At(x)]
      <4>1. CASE x \in 1..b
        BY <2>2, <4>1
      <4>2. CASE x > b + 1
        BY <1>3, <2>4, <4>2
      <4> QED BY <2>5, <3>1, <4>1, <4>2
    <3>2. CASE i # b + 1 /\ k # b + 1
      <4>1. At(i) = At(k)
        BY <1>1, <3>1, <3>2 DEF IsList, NoTwice
      <4> QED BY <1>3, <3>2, <4>1
    <3>3. CASE i = b + 1 /\ k # b + 1
      BY <2>3, <2>8, <3>1, <3>3
    <3>4. CASE i # b + 1 /\ k = b + 1
      BY <2>3, <2>8, <3>1, <3>4
    <3> QED BY <3>2, <3>3, <3>4
  <2>10. acc.ids \cup {m.id} = IDsOf(l)
    <3>1. IDsOf(l) = {l[i].id : i \in 1..Len(l)} /\ acc.ids = {s[i].id : i \in 1..Len(s)}
      BY <1>1, <2>1, IDsOfList
    <3>2. ASSUME NEW i \in 1..Len(s) PROVE \E k \in 1..Len(l) : l[k] = s[i]
      <4>1. CASE i <= b
        BY <1>1, <2>1, <4>1
      <4>2. CASE i > b
        <5>1. i + 1 \in 1..Len(l) /\ i + 1 > b + 1 /\ (i + 1) - 1 = i
          BY <1>1, <1>3, <2>1, <4>2
        <5>2. l[i + 1] = s[i]
          BY <2>4, <5>1
        <5> QED BY <5>1, <5>2
      <4> QED BY <1>3, <4>1, <4>2
    <3>3. ASSUME NEW k \in 1..Len(l) PROVE l[k] = m \/ \E i \in 1..Len(s) : l[k] = s[i]
      BY <2>2, <2>3, <2>4, <2>5
    <3>4. IDsOf(l) \subseteq acc.ids \cup {m.id}
      BY <3>1, <3>3
    <3>5. acc.ids \cup {m.id} \subseteq IDsOf(l)
      BY <2>3, <3>1, <3>2
    <3> QED BY <3>4, <3>5
  <2>11. \A a \in 1..Len(l) : a > b => m.time <= l[a].time
    <3> TAKE a \in 1..Len(l)
    <3>1. a \in 1..b => ~(a > b)
      BY <1>3
    <3>2. a = b + 1 => m.time <= l[a].time
      BY <1>2, <2>3
    <3>3. a > b + 1 => m.time <= l[a].time
      BY <1>4, <2>4
    <3> QED BY <2>5, <3>1, <3>2, <3>3
  <2>12. /\ Placed(m, acc).list = l /\ Placed(m, acc).j = b
         /\ Placed(m, acc).ids = acc.ids \cup {m.id}
    BY <1>8 DEF l
  <2> QED BY <1>5, <2>1, <2>7, <2>9, <2>10, <2>11, <2>12 DEF IsAcc, IsList
<1> QED BY <1>1, <1>6, <1>7, <1>8, PlacedCases DEF b

(* The data of a chat: the list, its IDs and whether a save is to be done. *)
DataRecords == [messages : Seq(Messages), messageIDs : SUBSET Nat, changed : BOOLEAN]
IsData(d) ==
  /\ d \in DataRecords /\ IsList(d.messages)
  /\ d.messageIDs = IDsOf(d.messages) /\ Len(d.messages) <= limit

Begin(d) ==
  [list |-> d.messages, ids |-> d.messageIDs, j |-> Len(d.messages), inserted |-> FALSE]

LEMMA PlacingStepwise ==
  ASSUME NEW d, IsData(d), NEW batch \in Seq(Messages)
  PROVE  /\ Placing(d, batch) \in [0..Len(batch) -> Accumulators]
         /\ Placing(d, batch)[0] = Begin(d)
         /\ \A k \in 1..Len(batch) :
              Placing(d, batch)[k] = Placed(batch[Len(batch) - k + 1], Placing(d, batch)[k - 1])
<1> DEFINE n == Len(batch)
           V == Accumulators
           step == [x \in (1..n) \X V |-> Placed(batch[n - x[1] + 1], x[2])]
           Turn(f, k) == Placed(batch[n - k + 1], f[k - 1])
           Is(f) == f = [k \in 0..n |-> IF k = 0 THEN Begin(d) ELSE Turn(f, k)]
           placed == CHOOSE f : Is(f)
<1>1. n \in Nat /\ Begin(d) \in V
  BY DEF IsData, DataRecords, Begin, Accumulators
<1>2. \A k \in 1..n, acc \in V : Placed(batch[n - k + 1], acc) \in V
  <2> TAKE k \in 1..n, acc \in V
  <2>1. n - k + 1 \in 1..n
    BY <1>1
  <2>2. batch[n - k + 1] \in Messages
    BY <2>1, ElementOfSeq
  <2> QED BY <2>2, PlacedType
<1>3. /\ step \in [(1..n) \X V -> V]
      /\ \A k \in 1..n, acc \in V : step[<<k, acc>>] = Placed(batch[n - k + 1], acc)
  BY <1>2
<1>4. Placing(d, batch) = placed
  BY DEF Placing, Begin
<1> HIDE DEF step, V, n, Is, placed
<1>5. PICK f : Stepwise(f, n, V, Begin(d), step)
  BY <1>1, <1>3, StepwiseFunction
<1>6. \A k \in 1..n : k - 1 \in 0..n /\ k \in 0..n /\ k # 0
  BY <1>1
<1>7. \A k \in 1..n : f[k - 1] \in V /\ f[k] = Turn(f, k)
  BY <1>3, <1>5, <1>6 DEF Stepwise
<1>8. Is(f)
  <2>1. \A k \in 0..n : f[k] = IF k = 0 THEN Begin(d) ELSE Turn(f, k)
    <3> TAKE k \in 0..n
    <3>1. f[0] = Begin(d) /\ (k = 0 \/ k \in 1..n)
      BY <1>1, <1>5 DEF Stepwise
    <3> HIDE DEF Turn
    <3>2. k \in 1..n => k # 0 /\ f[k] = Turn(f, k)
      BY <1>6, <1>7
    <3> QED BY <3>1, <3>2
  <2>2. f = [k \in 0..n |-> f[k]]
    BY <1>5 DEF Stepwise
  <2> HIDE DEF Turn
  <2> QED BY <2>1, <2>2 DEF Is
<1>9. Is(placed)
  BY <1>8 DEF placed
<1>10. \A k \in 0..n : placed[k] = IF k = 0 THEN Begin(d) ELSE Turn(placed, k)
  <2> HIDE DEF Turn
  <2> QED BY <1>9 DEF Is
<1>11. placed[0] = Begin(d) /\ \A k \in 1..n : placed[k] = Turn(placed, k)
  <2> HIDE DEF Turn
  <2> QED BY <1>1, <1>6, <1>10
<1>12. placed \in [0..n -> V]
  <2> DEFINE G == {k \in 0..n : placed[k] \in V}
  <2>1. 0 \in G
    BY <1>1, <1>11
  <2>2. ASSUME NEW k \in 1..n, k - 1 \in G PROVE k \in G
    BY <1>2, <1>6, <1>11, <2>2
  <2>3. 0..n \subseteq G
    <3> HIDE DEF G
    <3> QED BY <1>1, <2>1, <2>2, IntervalIn
  <2>4. placed = [k \in 0..n |-> placed[k]]
    BY <1>9 DEF Is
  <2> QED BY <2>3, <2>4
<1> QED BY <1>4, <1>11, <1>12 DEF n, V

(* What the loop leaves: a list, with its IDs; nothing changed if nothing  *)
(* was inserted.                                                           *)
LEMMA PlacingKeeps ==
  ASSUME NEW d, IsData(d), NEW batch \in Seq(Messages), Ordered(batch)
  PROVE  LET end == Placing(d, batch)[Len(batch)]
         IN /\ end \in Accumulators /\ IsList(end.list) /\ end.ids = IDsOf(end.list)
            /\ ~end.inserted => end.list = d.messages
<1> DEFINE n == Len(batch)
           placed == Placing(d, batch)
           Remains(t, k) == \A i \in 1..n : i > n - k => t <= batch[i].time
           Fine(k) == /\ \A t \in Int : Remains(t, k) => IsAcc(placed[k], t)
                      /\ ~placed[k].inserted => placed[k].list = d.messages
           G == {k \in 0..n : Fine(k)}
<1>1. /\ n \in Nat /\ placed \in [0..n -> Accumulators] /\ placed[0] = Begin(d)
      /\ \A k \in 1..n : placed[k] = Placed(batch[n - k + 1], placed[k - 1])
  BY PlacingStepwise
<1>2. \A i \in 1..n : batch[i] \in Messages /\ batch[i].time \in Int
  <2>1. \A i \in 1..n : batch[i] \in Messages
    BY ElementOfSeq
  <2> QED BY <2>1 DEF Messages, Times
<1> HIDE DEF placed
<1>3. 0 \in G
  <2>1. Begin(d) \in Accumulators
    BY <1>1
  <2>2. \A t \in Int : IsAcc(Begin(d), t)
    BY <2>1 DEF IsAcc, IsData, Begin
  <2>3. ~Begin(d).inserted => Begin(d).list = d.messages
    BY DEF Begin
  <2> QED BY <1>1, <2>2, <2>3
<1>4. ASSUME NEW k \in 1..n, k - 1 \in G PROVE k \in G
  <2> DEFINE p == n - k + 1
             m == batch[p]
             acc == placed[k - 1]
  <2>1. p \in 1..n /\ k - 1 \in 0..n /\ n - (k - 1) = p /\ n - k = p - 1 /\ p \in Int
    BY <1>1
  <2>2. placed[k] = Placed(m, acc) /\ acc \in Accumulators /\ m \in Messages /\ m.time \in Int
    BY <1>1, <1>2, <2>1
  <2>3. Fine(k - 1)
    BY <1>4
  <2>4. IsAcc(acc, m.time)
    <3>1. \A i \in 1..n : i > p => m.time <= batch[i].time
      BY <2>1 DEF Ordered
    <3>2. Remains(m.time, k - 1)
      BY <2>1, <3>1
    <3> QED BY <2>2, <2>3, <3>2
  <2>5. IsAcc(placed[k], m.time)
    BY <2>2, <2>4, PlacedKeeps
  <2>6. ASSUME NEW t \in Int, Remains(t, k) PROVE IsAcc(placed[k], t)
    <3>1. t <= m.time
      BY <2>1, <2>6
    <3> HIDE DEF m
    <3> QED BY <2>2, <2>5, <3>1, IsAccEarlier
  <2>7. ~placed[k].inserted => placed[k].list = d.messages
    <3> HIDE DEF m, acc
    <3>1. ~placed[k].inserted => ~acc.inserted /\ placed[k].list = acc.list
      BY <2>2, PlacedType
    <3>2. ~acc.inserted => acc.list = d.messages
      BY <2>3 DEF acc
    <3> QED BY <3>1, <3>2
  <2>8. Fine(k)
    BY <2>6, <2>7
  <2> HIDE DEF Fine
  <2> QED BY <2>8
<1> HIDE DEF Fine
<1>5. 0..n \subseteq G
  <2> HIDE DEF G, n
  <2> QED BY <1>1, <1>3, <1>4, IntervalIn
<1>6. Fine(n)
  BY <1>1, <1>5
<1>7. \A i \in 1..n : 0 <= batch[i].time
  BY <1>2 DEF Messages, Times
<1>8. IsAcc(placed[n], 0) /\ (~placed[n].inserted => placed[n].list = d.messages)
  BY <1>6, <1>7 DEF Fine
<1> QED BY <1>8 DEF IsAcc, placed

(* insert() keeps the data of a chat, and says so when a message entered.  *)
LEMMA InsertKeeps ==
  ASSUME limit \in Nat \ {0}, NEW d, IsData(d), NEW batch \in Seq(Messages), Ordered(batch)
  PROVE  /\ IsData(Insert(d, batch))
         /\ d.changed => Insert(d, batch).changed
         /\ ~Insert(d, batch).changed => Insert(d, batch).messages = d.messages
<1> DEFINE end == Placing(d, batch)[Len(batch)]
           kept == LastOf(end.list, limit)
           erased == SubSeq(end.list, 1, Len(end.list) - Len(kept))
<1>1. /\ end \in Accumulators /\ IsList(end.list) /\ end.ids = IDsOf(end.list)
      /\ ~end.inserted => end.list = d.messages
  BY PlacingKeeps
<1>2. Insert(d, batch) = [messages |-> kept, messageIDs |-> end.ids \ IDsOf(erased),
                         changed |-> d.changed \/ end.inserted]
  BY DEF Insert
<1> HIDE DEF end
<1>3. /\ end.list \in Seq(Messages) /\ Len(end.list) \in Nat /\ end.ids \in SUBSET Nat
      /\ end.inserted \in BOOLEAN /\ d.changed \in BOOLEAN
  BY <1>1 DEF Accumulators, IsData, DataRecords
<1>4. PICK k \in Nat :
        /\ IsList(kept) /\ k <= Len(end.list) /\ Len(kept) = Len(end.list) - k
        /\ Len(kept) <= limit
        /\ \A i \in 1..Len(end.list) - k : kept[i] = end.list[k + i]
  <2> DEFINE s == end.list
             m == limit
  <2>1. IsList(s) /\ m \in Nat \ {0}
    BY <1>1
  <2> HIDE DEF s, m
  <2>2. \E k \in Nat :
           /\ IsList(LastOf(s, m)) /\ k <= Len(s) /\ Len(LastOf(s, m)) = Len(s) - k
           /\ Len(LastOf(s, m)) <= m
           /\ \A i \in 1..Len(s) - k : LastOf(s, m)[i] = s[k + i]
    BY <2>1, LastOfList
  <2> QED BY <2>2 DEF s, m
<1>5. Len(end.list) - Len(kept) = k
  BY <1>3, <1>4
<1>6. /\ erased \in Seq(Messages) /\ Len(erased) = k /\ \A i \in 1..k : erased[i] = end.list[i]
  BY <1>3, <1>4, <1>5, Cuts
<1>7. kept \in Seq(Messages)
  BY <1>4 DEF IsList
<1> DEFINE s == end.list
<1> HIDE DEF kept, erased
<1>8. end.ids \ IDsOf(erased) = IDsOf(kept)
  <2>1. /\ IDsOf(s) = {s[i].id : i \in 1..Len(s)}
        /\ IDsOf(erased) = {erased[i].id : i \in 1..k}
        /\ IDsOf(kept) = {kept[i].id : i \in 1..Len(s) - k}
    <3>1. s \in Seq(Messages)
      BY <1>3
    <3> HIDE DEF s
    <3>2. /\ IDsOf(s) = {s[i].id : i \in 1..Len(s)}
          /\ IDsOf(erased) = {erased[i].id : i \in 1..Len(erased)}
          /\ IDsOf(kept) = {kept[i].id : i \in 1..Len(kept)}
      BY <1>6, <1>7, <3>1, IDsOfList
    <3>3. Len(kept) = Len(s) - k /\ Len(erased) = k
      BY <1>4, <1>6 DEF s
    <3> QED BY <3>2, <3>3
  <2>2. \A i, j \in 1..Len(s) : s[i].id = s[j].id => i = j
    BY <1>1 DEF IsList, NoTwice
  <2>3. ASSUME NEW id \in IDsOf(s) \ IDsOf(erased) PROVE id \in IDsOf(kept)
    <3>1. PICK i \in 1..Len(s) : id = s[i].id
      BY <2>1
    <3>2. ~(i \in 1..k)
      BY <1>6, <2>1, <3>1
    <3>3. i - k \in 1..Len(s) - k /\ k + (i - k) = i
      BY <1>3, <1>4, <3>2
    <3>4. kept[i - k] = s[i]
      BY <1>4, <3>3
    <3> QED BY <2>1, <3>1, <3>3, <3>4
  <2>4. ASSUME NEW id \in IDsOf(kept) PROVE id \in IDsOf(s) \ IDsOf(erased)
    <3>1. PICK i \in 1..Len(s) - k : id = kept[i].id
      BY <2>1
    <3>2. k + i \in 1..Len(s) /\ id = s[k + i].id
      BY <1>3, <1>4, <3>1
    <3>3. \A a \in 1..k : erased[a].id # id
      <4> TAKE a \in 1..k
      <4>1. a \in 1..Len(s) /\ a # k + i /\ erased[a] = s[a]
        BY <1>3, <1>4, <1>6
      <4> QED BY <2>2, <3>2, <4>1
    <3> QED BY <2>1, <3>2, <3>3
  <2> QED BY <1>1, <2>3, <2>4
<1>9. IsData(Insert(d, batch))
  BY <1>2, <1>3, <1>4, <1>7, <1>8 DEF IsData, DataRecords
<1>10. ~end.inserted => kept = d.messages
  BY <1>1, LastOfAll DEF IsData, kept
<1> QED BY <1>2, <1>3, <1>9, <1>10

(* A list read again into empty data is that list: each message of it,     *)
(* from the last to the first, is placed before the others.                *)
LEMMA ReadAgain ==
  ASSUME limit \in Nat \ {0}, NEW saved, IsList(saved), Len(saved) <= limit
  PROVE  Insert(NoData, saved).messages = saved
<1> DEFINE n == Len(saved)
           placed == Placing(NoData, saved)
           Fine(k) == /\ placed[k].j = 0 /\ Len(placed[k].list) = k
                      /\ \A i \in 1..k : placed[k].list[i] = saved[n - k + i]
                      /\ placed[k].ids = {saved[i].id : i \in n - k + 1..n}
           G == {k \in 0..n : Fine(k)}
<1>1. saved \in Seq(Messages) /\ n \in Nat /\ n <= limit
  BY DEF IsList
<1>2. IsData(NoData)
  <2>1. <<>> \in Seq(Messages) /\ Len(<<>>) = 0 /\ IDsOf(<<>>) = {}
    <3>1. IDsOf(<<>>) = {<<>>[i].id : i \in 1..Len(<<>>)}
      BY IDsOfList, <<>> \in Seq(Messages)
    <3> QED BY <3>1
  <2>2. IsList(<<>>)
    BY <2>1 DEF IsList, Ordered, NoTwice
  <2> QED BY <2>1, <2>2 DEF NoData, IsData, DataRecords
<1>3. /\ placed \in [0..n -> Accumulators] /\ placed[0] = Begin(NoData)
      /\ \A k \in 1..n : placed[k] = Placed(saved[n - k + 1], placed[k - 1])
  BY <1>1, <1>2, PlacingStepwise
<1> HIDE DEF placed
<1>4. 0 \in G
  <2>1. {saved[i].id : i \in n - 0 + 1..n} = {}
    BY <1>1
  <2>2. placed[0].j = 0 /\ placed[0].list = <<>> /\ placed[0].ids = {}
    BY <1>3 DEF Begin, NoData
  <2> QED BY <1>1, <2>1, <2>2
<1>5. ASSUME NEW k \in 1..n, k - 1 \in G PROVE k \in G
  <2> DEFINE p == n - k + 1
             m == saved[p]
             acc == placed[k - 1]
  <2>1. p \in 1..n /\ k - 1 \in 0..n /\ n - (k - 1) = p /\ n - k = p - 1 /\ p \in Int
    BY <1>1
  <2>2. placed[k] = Placed(m, acc) /\ acc \in Accumulators /\ m \in Messages
    BY <1>1, <1>3, <2>1
  <2>3. /\ acc.j = 0 /\ Len(acc.list) = k - 1
        /\ \A i \in 1..k - 1 : acc.list[i] = saved[p + i]
        /\ acc.ids = {saved[i].id : i \in p + 1..n}
    BY <1>5, <2>1
  <2> HIDE DEF acc
  <2>4. m.id \notin acc.ids
    <3>1. \A i \in p + 1..n : i \in 1..n /\ i # p
      BY <1>1, <2>1
    <3>2. \A i, j \in 1..n : saved[i].id = saved[j].id => i = j
      BY DEF IsList, NoTwice
    <3>3. \A i \in p + 1..n : saved[i].id # saved[p].id
      <4> HIDE DEF p, n
      <4> QED BY <2>1, <3>1, <3>2
    <3> QED BY <2>3, <3>3
  <2>5. Before(m, acc) = 0
    <3>1. Before(m, acc) \in 0..acc.j
      BY <2>2, BeforeProperties
    <3> QED BY <2>3, <3>1
  <2>6. Len(acc.list) # limit
    BY <1>1, <2>3
  <2>7. placed[k] = [list |-> InsertAt(acc.list, 0 + 1, m), ids |-> acc.ids \cup {m.id},
                     j |-> 0, inserted |-> TRUE]
    <3> HIDE DEF m
    <3> QED BY <2>2, <2>4, <2>5, <2>6 DEF Placed, Before
  <2> DEFINE l == InsertAt(acc.list, 0 + 1, m)
             s == acc.list
  <2>8. /\ Len(l) = Len(s) + 1
        /\ \A i \in 1..Len(s) + 1 : l[i] = IF i <= 0 THEN s[i] ELSE IF i = 0 + 1 THEN m ELSE s[i - 1]
    <3> DEFINE z == 0
    <3>1. s \in Seq(Messages) /\ z \in 0..Len(s) /\ Len(s) \in Nat
      BY <1>1, <2>2, <2>3 DEF Accumulators
    <3> HIDE DEF s, m, z
    <3>2. /\ Len(InsertAt(s, z + 1, m)) = Len(s) + 1
          /\ \A i \in 1..Len(s) + 1 :
               InsertAt(s, z + 1, m)[i] = IF i <= z THEN s[i] ELSE IF i = z + 1 THEN m ELSE s[i - 1]
      BY <2>2, <3>1, MessageInserted
    <3> QED BY <3>2 DEF s, z
  <2> HIDE DEF l
  <2>9. Len(l) = k /\ \A i \in 1..k : l[i] = saved[n - k + i]
    <3>1. Len(l) = k
      BY <1>1, <2>3, <2>8
    <3>2. ASSUME NEW i \in 1..k PROVE l[i] = saved[n - k + i]
      <4>0. i \in 1..Len(s) + 1
        BY <1>1, <2>3
      <4>1. CASE i = 1
        BY <1>1, <2>1, <2>8, <4>0, <4>1
      <4>2. CASE i > 1
        <5>1. i - 1 \in 1..k - 1 /\ p + (i - 1) = n - k + i
          BY <1>1, <4>2
        <5>2. l[i] = s[i - 1]
          BY <2>8, <4>0, <4>2
        <5> QED BY <2>3, <5>1, <5>2
      <4> QED BY <4>1, <4>2
    <3> QED BY <3>1, <3>2
  <2>10. acc.ids \cup {m.id} = {saved[i].id : i \in p..n}
    <3>1. p..n = {p} \cup p + 1..n
      BY <1>1, <2>1
    <3> QED BY <2>3, <3>1
  <2>11. /\ placed[k].list = l /\ placed[k].j = 0 /\ placed[k].ids = {saved[i].id : i \in p..n}
    BY <2>7, <2>10 DEF l
  <2>12. Fine(k)
    BY <2>1, <2>9, <2>11
  <2> HIDE DEF Fine
  <2> QED BY <1>1, <2>12
<1> HIDE DEF Fine
<1>6. 0..n \subseteq G
  <2> HIDE DEF G, n
  <2> QED BY <1>1, <1>4, <1>5, IntervalIn
<1>7. Fine(n)
  BY <1>1, <1>6
<1> DEFINE end == placed[n]
<1>8. end \in Accumulators /\ end.list \in Seq(Messages)
  BY <1>1, <1>3 DEF Accumulators
<1>9. end.list = saved
  <2>1. Len(end.list) = n /\ \A i \in 1..n : end.list[i] = saved[n - n + i]
    BY <1>7 DEF Fine
  <2>2. \A i \in 1..n : end.list[i] = saved[i]
    BY <1>1, <2>1
  <2> HIDE DEF end
  <2> QED BY <1>1, <1>8, <2>1, <2>2, SeqEqual
<1>10. Insert(NoData, saved).messages = LastOf(end.list, limit)
  BY DEF Insert, placed
<1> HIDE DEF end
<1> QED BY <1>1, <1>9, <1>10, LastOfAll

LEMMA NoDataIsData ==
  limit \in Nat => IsData(NoData)
<1>1. <<>> \in Seq(Messages) /\ Len(<<>>) = 0 /\ IDsOf(<<>>) = {}
  <2>1. IDsOf(<<>>) = {<<>>[i].id : i \in 1..Len(<<>>)}
    BY IDsOfList, <<>> \in Seq(Messages)
  <2> QED BY <2>1
<1>2. IsList(<<>>)
  BY <1>1 DEF IsList, Ordered, NoTwice
<1> QED BY <1>1, <1>2 DEF NoData, IsData, DataRecords

LEMMA LoadedKeeps ==
  ASSUME limit \in Nat \ {0}, NEW d, IsData(d), NEW saved, IsList(saved), Len(saved) <= limit
  PROVE  IsData(Loaded(d, saved)) /\ Loaded(NoData, saved).messages = saved
<1>1. IsData(Insert(d, saved)) /\ Insert(NoData, saved).messages = saved
  BY InsertKeeps, ReadAgain DEF IsList
<1> DEFINE e == Insert(d, saved)
           r == Insert(NoData, saved)
<1>2. IsData(r)
  BY NoDataIsData, InsertKeeps DEF IsList
<1> HIDE DEF e, r
<1>3. IsData(Loaded(d, saved))
  <2>1. IsData([e EXCEPT !.changed = FALSE])
    BY <1>1 DEF IsData, DataRecords, e
  <2> QED BY <2>1 DEF Loaded, e
<1>4. Loaded(NoData, saved).messages = saved
  <2>1. [r EXCEPT !.changed = FALSE].messages = saved
    BY <1>1, <1>2 DEF IsData, DataRecords, r
  <2> QED BY <2>1 DEF Loaded, NoData, r
<1> QED BY <1>3, <1>4

-----------------------------------------------------------------------------
(* Datagrams.                                                              *)

(* The messages of a datagram: one, or several of the list of its sender.  *)
IsBatch(l) ==
  \/ l \in Seq(Received) /\ Len(l) <= 1
  \/ l \in Seq(Messages) /\ Ordered(l)

LEMMA TimedBatch ==
  ASSUME NEW l, IsBatch(l), NEW t \in Times
  PROVE  Timed(l, t) \in Seq(Messages) /\ Ordered(Timed(l, t))
<1> DEFINE At(i) == IF l[i].time = NotSet THEN [l[i] EXCEPT !.time = t] ELSE l[i]
           r == Timed(l, t)
<1>1. CASE l \in Seq(Received) /\ Len(l) <= 1
  <2>1. /\ DOMAIN l = 1..Len(l) /\ Len(l) \in Nat
        /\ \A i \in 1..Len(l) : l[i] \in Received
    BY <1>1, LenProperties, ElementOfSeq
  <2>2. \A i \in 1..Len(l) : At(i) \in Messages
    BY <2>1 DEF Received, Messages, NotSet
  <2>3. r = [i \in 1..Len(l) |-> At(i)]
    BY <2>1 DEF Timed
  <2> HIDE DEF At
  <2>4. r \in Seq(Messages) /\ Len(r) = Len(l)
    BY <2>1, <2>2, <2>3
  <2> HIDE DEF r
  <2>5. \A i \in 1..Len(r) : r[i].time <= r[i].time
    <3>1. \A i \in 1..Len(r) : r[i] \in Messages
      BY <2>4
    <3> QED BY <3>1 DEF Messages, Times
  <2>6. Ordered(r)
    BY <1>1, <2>1, <2>4, <2>5 DEF Ordered
  <2> QED BY <2>4, <2>6 DEF r
<1>2. CASE l \in Seq(Messages) /\ Ordered(l)
  <2>1. /\ DOMAIN l = 1..Len(l) /\ Len(l) \in Nat
        /\ \A i \in 1..Len(l) : l[i] \in Messages
    BY <1>2, LenProperties, ElementOfSeq
  <2>2. \A i \in 1..Len(l) : At(i) = l[i]
    BY <2>1 DEF Messages, NotSet, Times
  <2>3. r = [i \in 1..Len(l) |-> At(i)]
    BY <2>1 DEF Timed
  <2> HIDE DEF At
  <2>4. r = [i \in 1..Len(l) |-> l[i]]
    BY <2>2, <2>3
  <2>5. l = [i \in 1..Len(l) |-> l[i]]
    BY <1>2, LenProperties
  <2> QED BY <1>2, <2>4, <2>5
<1> QED BY <1>1, <1>2 DEF IsBatch

LEMMA UnknownOrdered ==
  ASSUME NEW d, IsData(d), NEW known
  PROVE  Unknown(d, known) \in Seq(Messages) /\ Ordered(Unknown(d, known))
<1> DEFINE s == LastOf(d.messages, Number)
           K == {m \in ToSet(s) : m.id \notin known}
           R == {x \in Messages \X Messages : x[1].time <= x[2].time}
           r == Only(s, K)
<1>1. IsList(s)
  <2> DEFINE list == d.messages
             N == Number
  <2>1. IsList(list) /\ N \in Nat \ {0}
    BY ChatAssumption DEF IsData
  <2> HIDE DEF list, N
  <2>2. IsList(LastOf(list, N))
    BY <2>1, LastOfList
  <2> QED BY <2>2 DEF list, N
<1>2. Unknown(d, known) = r
  BY DEF Unknown
<1> HIDE DEF s, K
<1>3. s \in Seq(Messages) /\ \A i \in 1..Len(s) : s[i] \in Messages
  BY <1>1 DEF IsList
<1>4. \A i, j \in 1..Len(s) : i < j => <<s[i], s[j]>> \in R
  <2> TAKE i, j \in 1..Len(s)
  <2> HAVE i < j
  <2>1. s[i].time <= s[j].time /\ s[i] \in Messages /\ s[j] \in Messages
    BY <1>1, <1>3 DEF IsList, Ordered
  <2> QED BY <2>1
<1> HIDE DEF R
<1>5. /\ r \in Seq(Messages)
      /\ \A a, b \in 1..Len(r) : a < b => <<r[a], r[b]>> \in R
  BY <1>3, <1>4, OnlyProperties, OnlyOrder
<1> HIDE DEF r
<1>6. Ordered(r)
  <2> SUFFICES ASSUME NEW a \in 1..Len(r), NEW b \in 1..Len(r), a <= b
               PROVE  r[a].time <= r[b].time
    BY DEF Ordered
  <2>1. CASE a < b
    BY <1>5, <2>1 DEF R
  <2>2. CASE a = b
    <3>1. r[a] \in Messages
      BY <1>5
    <3> QED BY <2>2, <3>1 DEF Messages, Times
  <2> QED BY <2>1, <2>2
<1> QED BY <1>2, <1>5, <1>6

(* A datagram under way.                                                   *)
IsDatagram(d) == d.from \in Peers /\ d.to \in Peers /\ d.chat \in Chats /\ IsBatch(d.list)

LEMMA AnswerDatagrams ==
  ASSUME NEW p \in Peers, NEW d, IsData(data[p][d.chat]), d.from \in Peers, d.chat \in Chats
  PROVE  \A e \in Answer(p, d) : IsDatagram(e) /\ e.from = p
<1> DEFINE ms == Unknown(data[p][d.chat], d.ids)
<1>1. ms \in Seq(Messages) /\ Ordered(ms)
  BY UnknownOrdered
<1> SUFFICES ASSUME NEW e \in Answer(p, d) PROVE IsDatagram(e) /\ e.from = p
  OBVIOUS
<1>2. PICK i \in 1..Len(ms) :
        e = ChatMessages(p, d.from, d.chat, SubSeq(ms, i, Min({i + Fit - 1, Len(ms)})))
  BY DEF Answer
<1> HIDE DEF ms
<1> DEFINE k == Min({i + Fit - 1, Len(ms)})
           part == SubSeq(ms, i, k)
<1>3. i \in Nat /\ i >= 1 /\ k \in i..Len(ms)
  <2>1. Fit \in Nat /\ Fit >= 1 /\ Len(ms) \in Nat
    BY <1>1, ChatAssumption
  <2>2. k = IF i + Fit - 1 <= Len(ms) THEN i + Fit - 1 ELSE Len(ms)
    BY <2>1, MinOfTwo
  <2> HIDE DEF k
  <2> QED BY <2>1, <2>2
<1> HIDE DEF k
<1>4. /\ part \in Seq(Messages) /\ Len(part) = k - i + 1
      /\ \A a \in 1..k - i + 1 : part[a] = ms[i + a - 1]
  <2>1. \A a \in i..k : ms[a] \in Messages
    BY <1>1, <1>3
  <2> QED BY <1>3, <2>1, SubSeqProperties
<1> HIDE DEF part
<1>5. Ordered(part)
  <2> SUFFICES ASSUME NEW a \in 1..Len(part), NEW b \in 1..Len(part), a <= b
               PROVE  part[a].time <= part[b].time
    BY DEF Ordered
  <2>1. i + a - 1 \in 1..Len(ms) /\ i + b - 1 \in 1..Len(ms) /\ i + a - 1 <= i + b - 1
    BY <1>3, <1>4
  <2>2. ms[i + a - 1].time <= ms[i + b - 1].time
    BY <1>1, <2>1 DEF Ordered
  <2> QED BY <1>3, <1>4, <2>2
<1>6. e.to = d.from /\ e.chat = d.chat /\ e.list = part /\ e.from = p
  BY <1>2 DEF ChatMessages, part, k
<1> QED BY <1>4, <1>5, <1>6 DEF IsDatagram, IsBatch

-----------------------------------------------------------------------------
(* The inductive invariant.                                                *)

ChatData == {d \in DataRecords : IsData(d)}
SavedLists == {l \in Seq(Messages) : IsList(l) /\ Len(l) <= limit}

DataOK == data \in [Peers -> [Chats -> ChatData]] /\ file \in [Peers -> [Chats -> SavedLists]]
RoomsOK ==
  /\ joined \in [Peers -> SUBSET Rooms] /\ settings \in [Peers -> SUBSET Rooms]
  /\ \A p \in running : joined[p] = settings[p]
  /\ members \in [Peers -> [Rooms -> SUBSET Peers]]
  /\ \A p \in Peers, r \in Rooms : p \notin members[p][r]
CountsOK ==
  /\ limit \in Limits /\ running \subseteq Peers
  /\ sent \in 0..NbMessages /\ events \in 0..MaxEvents
NetOK == \A d \in net : IsDatagram(d)
CInv == CountsOK /\ RoomsOK /\ NetOK /\ DataOK

LEMMA LimitStays ==
  ASSUME [Next]_vars
  PROVE  limit' = limit /\ ChatData' = ChatData /\ SavedLists' = SavedLists
<1>1. limit' = limit
  BY DEF Next, vars, SaveAll, Stop, Crash, Stopped, Start, Send, HearIMAlive, Retrieve, JoinRoom,
         LeaveRoom, ReceiveMessages, ReceiveGetLast, Lose
<1> QED BY <1>1 DEF ChatData, IsData, SavedLists

LEMMA CountsStep ==
  ASSUME CInv, [Next]_vars
  PROVE  CountsOK'
<1>1. limit' \in Limits
  BY LimitStays DEF CInv, CountsOK
<1>2. running' \subseteq Peers
  BY DEF CInv, CountsOK, Next, vars, SaveAll, Stop, Crash, Stopped, Start, Send, HearIMAlive,
         Retrieve, JoinRoom, LeaveRoom, ReceiveMessages, ReceiveGetLast, Lose
<1>3. sent' \in 0..NbMessages
  <2>1. \/ sent' = sent
        \/ sent < NbMessages /\ sent' = sent + 1
    BY DEF Next, vars, SaveAll, Stop, Crash, Stopped, Start, Send, HearIMAlive,
           Retrieve, JoinRoom, LeaveRoom, ReceiveMessages, ReceiveGetLast, Lose
  <2>2. sent \in 0..NbMessages /\ NbMessages \in Nat
    BY ChatAssumption DEF CInv, CountsOK
  <2> QED BY <2>1, <2>2
<1>4. events' \in 0..MaxEvents
  <2>1. events' = events \/ Event
    BY DEF Next, vars, SaveAll, Stop, Crash, Stopped, Start, Send, HearIMAlive,
           Retrieve, JoinRoom, LeaveRoom, ReceiveMessages, ReceiveGetLast, Receives, Lose
  <2>2. events \in 0..MaxEvents /\ MaxEvents \in Nat
    BY ChatAssumption DEF CInv, CountsOK
  <2> QED BY <2>1, <2>2 DEF Event
<1> QED BY <1>1, <1>2, <1>3, <1>4 DEF CountsOK

LEMMA RoomsStep ==
  ASSUME CInv, [Next]_vars
  PROVE  RoomsOK'
<1> USE DEF RoomsOK
<1>0. RoomsOK /\ running \subseteq Peers
  BY DEF CInv, CountsOK
<1>1. ASSUME UNCHANGED <<joined, settings, members, running>> PROVE RoomsOK'
  BY <1>0, <1>1
<1>2. ASSUME NEW p \in Peers, NEW q \in Peers, HearIMAlive(p, q) PROVE RoomsOK'
  <2> DEFINE known == [r \in Rooms |-> IF r \in joined[q] THEN members[p][r] \cup {q} ELSE members[p][r] \ {q}]
  <2>1. /\ p # q /\ members' = [members EXCEPT ![p] = known]
        /\ UNCHANGED <<joined, settings, running>>
    BY <1>2 DEF HearIMAlive
  <2>2. known \in [Rooms -> SUBSET Peers] /\ \A r \in Rooms : p \notin known[r]
    BY <1>0, <2>1
  <2> HIDE DEF known
  <2> QED BY <1>0, <2>1, <2>2
<1>3. ASSUME NEW p \in Peers, NEW r \in Rooms, JoinRoom(p, r) PROVE RoomsOK'
  <2>1. /\ joined' = [joined EXCEPT ![p] = joined[p] \cup {r}]
        /\ settings' = [settings EXCEPT ![p] = joined'[p]]
        /\ UNCHANGED <<members, running>>
    BY <1>3 DEF JoinRoom
  <2> QED BY <1>0, <2>1
<1>4. ASSUME NEW p \in Peers, NEW r \in Rooms, LeaveRoom(p, r) PROVE RoomsOK'
  <2>1. /\ joined' = [joined EXCEPT ![p] = joined[p] \ {r}]
        /\ settings' = [settings EXCEPT ![p] = joined'[p]]
        /\ UNCHANGED <<members, running>>
    BY <1>4 DEF LeaveRoom
  <2> QED BY <1>0, <2>1
<1>5. ASSUME NEW p \in Peers, Stopped(p) PROVE RoomsOK'
  <2>1. /\ running' = running \ {p}
        /\ joined' = [joined EXCEPT ![p] = {}]
        /\ members' = [members EXCEPT ![p] = [r \in Rooms |-> {}]]
        /\ UNCHANGED settings
    BY <1>5 DEF Stopped
  <2>2. [r \in Rooms |-> {}] \in [Rooms -> SUBSET Peers] /\ \A r \in Rooms : p \notin [s \in Rooms |-> {}][r]
    OBVIOUS
  <2> QED BY <1>0, <2>1, <2>2
<1>6. ASSUME NEW p \in Peers, Start(p) PROVE RoomsOK'
  <2>1. /\ running' = running \cup {p}
        /\ joined' = [joined EXCEPT ![p] = settings[p]]
        /\ UNCHANGED <<members, settings>>
    BY <1>6 DEF Start
  <2> QED BY <1>0, <2>1
<1> QED
  BY <1>1, <1>2, <1>3, <1>4, <1>5, <1>6
  DEF Next, vars, SaveAll, Stop, Crash, Send, Retrieve, ReceiveMessages, ReceiveGetLast, Lose

(* The datagrams sent.                                                     *)
LEMMA RequestsDatagrams ==
  ASSUME NEW p \in Peers, NEW chats \in SUBSET Chats, NEW asked \in RandomPeers(p, chats)
  PROVE  \A d \in Requests(p, asked) : IsDatagram(d)
<1>1. asked \in [chats -> Peers \ {p}]
  BY DEF RandomPeers
<1>2. IsBatch(<<>>)
  BY DEF IsBatch
<1> QED BY <1>1, <1>2 DEF Requests, GetLast, IsDatagram

LEMMA NetStep ==
  ASSUME CInv, [Next]_vars
  PROVE  NetOK'
<1> USE DEF NetOK
<1>0. NetOK /\ sent \in Nat /\ running \subseteq Peers /\ RoomsOK
  BY ChatAssumption DEF CInv, CountsOK
<1>1. ASSUME net' \subseteq net PROVE NetOK'
  BY <1>0, <1>1
<1>2. ASSUME NEW p \in Peers, NEW c \in Chats, NEW t \in Times, Send(p, c, t) PROVE NetOK'
  <2> DEFINE m == [id |-> sent + 1, time |-> t]
             l == <<[m EXCEPT !.time = NotSet]>>
  <2>1. net' = net \cup {ChatMessages(p, q, c, l) : q \in Peers \ {p}}
    BY <1>2 DEF Send, Sends
  <2>2. IsBatch(l)
    <3>1. [m EXCEPT !.time = NotSet] \in Received
      BY <1>0 DEF Received, NotSet
    <3> HIDE DEF m
    <3> QED BY <3>1 DEF IsBatch
  <2> HIDE DEF l
  <2> QED BY <1>0, <2>1, <2>2 DEF ChatMessages, IsDatagram
<1>3. ASSUME NEW d \in net, ReceiveGetLast(d) PROVE NetOK'
  <2>1. IsDatagram(d) /\ IsData(data[d.to][d.chat])
    BY <1>0 DEF CInv, DataOK, IsDatagram, ChatData
  <2>2. \A e \in Answer(d.to, d) : IsDatagram(e)
    BY <2>1, AnswerDatagrams DEF IsDatagram
  <2>3. net' \subseteq net \cup Answer(d.to, d)
    BY <1>3 DEF ReceiveGetLast, Receives
  <2> QED BY <1>0, <2>2, <2>3
<1>4. ASSUME NEW p \in Peers, NEW q \in Peers, Retrieve(p, q) PROVE NetOK'
  <2> DEFINE chats == {Main} \cup {r \in joined[p] : members[p][r] # {}}
  <2>1. PICK asked \in RandomPeers(p, chats) : net' = net \cup Requests(p, asked)
    BY <1>4 DEF Retrieve, Sends
  <2>2. chats \in SUBSET Chats
    BY <1>0 DEF RoomsOK, Chats
  <2> HIDE DEF chats
  <2> QED BY <1>0, <2>1, <2>2, RequestsDatagrams
<1>5. ASSUME NEW p \in Peers, NEW r \in Rooms, JoinRoom(p, r) PROVE NetOK'
  <2> DEFINE chats == {c \in {r} : members[p][c] # {}}
  <2>1. PICK asked \in RandomPeers(p, chats) : net' = net \cup Requests(p, asked)
    BY <1>5 DEF JoinRoom, Sends
  <2>2. chats \in SUBSET Chats
    BY DEF Chats
  <2> HIDE DEF chats
  <2> QED BY <1>0, <2>1, <2>2, RequestsDatagrams
<1>6. ASSUME NEW d \in net, NEW t \in Times, ReceiveMessages(d, t) PROVE NetOK'
  BY <1>1, <1>6 DEF ReceiveMessages, Receives
<1> QED
  BY <1>1, <1>2, <1>3, <1>4, <1>5, <1>6
  DEF Next, vars, SaveAll, Stop, Crash, Stopped, Start, HearIMAlive, LeaveRoom, Lose

(* What the operations of ChatMessages leave.                              *)
LEMMA DataOperations ==
  ASSUME CInv
  PROVE  /\ NoData \in ChatData /\ <<>> \in SavedLists
         /\ \A d \in ChatData, batch \in Seq(Messages) :
              Ordered(batch) => Insert(d, batch) \in ChatData
         /\ \A d \in ChatData, saved \in SavedLists : Loaded(d, saved) \in ChatData
         /\ \A d \in ChatData, outcome \in Outcomes, old \in SavedLists :
              Saved(d, outcome) \in ChatData /\ Written(old, d, outcome) \in SavedLists
<1>1. limit \in Nat \ {0}
  BY ChatAssumption DEF CInv, CountsOK
<1>2. NoData \in ChatData
  BY <1>1, NoDataIsData DEF ChatData, IsData
<1>3. <<>> \in SavedLists
  BY <1>1, <1>2 DEF ChatData, IsData, NoData, SavedLists
<1>4. \A d \in ChatData, batch \in Seq(Messages) : Ordered(batch) => Insert(d, batch) \in ChatData
  <2> SUFFICES ASSUME NEW d \in ChatData, NEW batch \in Seq(Messages), Ordered(batch)
               PROVE  Insert(d, batch) \in ChatData
    OBVIOUS
  <2>1. IsData(d)
    BY DEF ChatData
  <2>2. IsData(Insert(d, batch))
    BY <1>1, <2>1, InsertKeeps
  <2> QED BY <2>2 DEF ChatData, IsData
<1>5. \A d \in ChatData, saved \in SavedLists : Loaded(d, saved) \in ChatData
  <2> SUFFICES ASSUME NEW d \in ChatData, NEW saved \in SavedLists
               PROVE  Loaded(d, saved) \in ChatData
    OBVIOUS
  <2>1. IsData(d) /\ IsList(saved) /\ Len(saved) <= limit
    BY DEF ChatData, SavedLists
  <2>2. IsData(Loaded(d, saved))
    BY <1>1, <2>1, LoadedKeeps
  <2> QED BY <2>2 DEF ChatData, IsData
<1>6. ASSUME NEW d \in ChatData, NEW outcome \in Outcomes, NEW old \in SavedLists
      PROVE  Saved(d, outcome) \in ChatData /\ Written(old, d, outcome) \in SavedLists
  <2>1. /\ d \in DataRecords /\ IsList(d.messages) /\ d.messageIDs = IDsOf(d.messages)
        /\ Len(d.messages) <= limit
    BY DEF ChatData, IsData
  <2> DEFINE e == Saved(d, outcome)
             b == d.changed /\ outcome = "failed"
  <2>2. /\ e \in DataRecords /\ e.messages = d.messages /\ e.messageIDs = d.messageIDs
    <3>1. b \in BOOLEAN
      OBVIOUS
    <3>2. e = [d EXCEPT !.changed = b]
      BY DEF Saved
    <3> HIDE DEF b, e
    <3> QED BY <2>1, <3>1, <3>2 DEF DataRecords
  <2> HIDE DEF e
  <2>3. e \in ChatData
    BY <2>1, <2>2 DEF ChatData, IsData
  <2>4. d.messages \in SavedLists
    BY <2>1 DEF SavedLists, DataRecords
  <2> QED BY <2>3, <2>4 DEF Written, e
<1> QED BY <1>2, <1>3, <1>4, <1>5, <1>6

LEMMA DataStep ==
  ASSUME CInv, [Next]_vars
  PROVE  DataOK'
<1>0. /\ data \in [Peers -> [Chats -> ChatData]] /\ file \in [Peers -> [Chats -> SavedLists]]
      /\ running \subseteq Peers /\ sent \in Nat
  BY ChatAssumption DEF CInv, DataOK, CountsOK
<1> SUFFICES /\ data' \in [Peers -> [Chats -> ChatData]]
             /\ file' \in [Peers -> [Chats -> SavedLists]]
  BY LimitStays DEF DataOK
<1>1. ASSUME UNCHANGED <<data, file>>
      PROVE  data' \in [Peers -> [Chats -> ChatData]] /\ file' \in [Peers -> [Chats -> SavedLists]]
  BY <1>0, <1>1
<1>2. ASSUME NEW p \in Peers, NEW c \in Chats, NEW t \in Times, Send(p, c, t)
      PROVE  data' \in [Peers -> [Chats -> ChatData]] /\ file' \in [Peers -> [Chats -> SavedLists]]
  <2> DEFINE batch == <<[id |-> sent + 1, time |-> t]>>
             e == Insert(data[p][c], batch)
  <2>1. data' = [data EXCEPT ![p][c] = e] /\ UNCHANGED file
    BY <1>2 DEF Send
  <2>2. batch \in Seq(Messages) /\ Ordered(batch)
    <3>1. [id |-> sent + 1, time |-> t] \in Messages
      BY <1>0 DEF Messages
    <3> QED BY <3>1 DEF Ordered, Messages, Times
  <2>3. data[p][c] \in ChatData
    BY <1>0
  <2> HIDE DEF batch
  <2>4. e \in ChatData
    BY <2>2, <2>3, DataOperations
  <2> HIDE DEF e
  <2> QED BY <1>0, <2>1, <2>4
<1>3. ASSUME NEW d \in net, NEW t \in Times, ReceiveMessages(d, t)
      PROVE  data' \in [Peers -> [Chats -> ChatData]] /\ file' \in [Peers -> [Chats -> SavedLists]]
  <2> DEFINE batch == Timed(d.list, t)
             p == d.to
             c == d.chat
             e == Insert(data[p][c], batch)
  <2>1. (data' = [data EXCEPT ![p][c] = e] \/ data' = data) /\ UNCHANGED file
    BY <1>3 DEF ReceiveMessages
  <2>2. p \in Peers /\ c \in Chats /\ batch \in Seq(Messages) /\ Ordered(batch)
    BY TimedBatch DEF CInv, NetOK, IsDatagram
  <2>3. data[p][c] \in ChatData
    BY <1>0, <2>2
  <2> HIDE DEF batch, p, c
  <2>4. e \in ChatData
    BY <2>2, <2>3, DataOperations
  <2> HIDE DEF e
  <2>5. CASE data' = [data EXCEPT ![p][c] = e]
    <3>1. data' \in [Peers -> [Chats -> ChatData]]
      BY <1>0, <2>2, <2>4, <2>5
    <3> QED BY <1>0, <2>1, <3>1
  <2>6. CASE data' = data
    BY <1>0, <2>1, <2>6
  <2> QED BY <2>1, <2>5, <2>6
<1>4. ASSUME NEW p \in Peers, NEW q \in Peers, HearIMAlive(p, q)
      PROVE  data' \in [Peers -> [Chats -> ChatData]] /\ file' \in [Peers -> [Chats -> SavedLists]]
  <2>1. PICK forgotten \in SUBSET Chats :
          /\ data' = [data EXCEPT ![p] = [c \in Chats |-> IF c \in forgotten THEN NoData ELSE data[p][c]]]
          /\ UNCHANGED file
    <3> DEFINE known == [r \in Rooms |-> IF r \in joined[q] THEN members[p][r] \cup {q} ELSE members[p][r] \ {q}]
               forgotten == {c \in Chats : c \in Rooms \ (joined[p] \cup joined[q]) /\ known[c] = {}}
    <3>1. /\ data' = [data EXCEPT ![p] = [c \in Chats |-> IF c \in forgotten THEN NoData ELSE data[p][c]]]
          /\ UNCHANGED file
      BY <1>4 DEF HearIMAlive
    <3> HIDE DEF forgotten
    <3>2. forgotten \in SUBSET Chats
      BY DEF forgotten
    <3> QED BY <3>1, <3>2
  <2>2. [c \in Chats |-> IF c \in forgotten THEN NoData ELSE data[p][c]] \in [Chats -> ChatData]
    BY <1>0, DataOperations
  <2> QED BY <1>0, <2>1, <2>2
<1>5. ASSUME NEW p \in Peers, NEW r \in Rooms, JoinRoom(p, r)
      PROVE  data' \in [Peers -> [Chats -> ChatData]] /\ file' \in [Peers -> [Chats -> SavedLists]]
  <2> DEFINE e == Loaded(data[p][r], file[p][r])
  <2>1. data' = [data EXCEPT ![p][r] = e] /\ UNCHANGED file /\ r \in Chats
    BY <1>5 DEF JoinRoom, Chats
  <2>2. e \in ChatData
    BY <1>0, <2>1, DataOperations
  <2> HIDE DEF e
  <2> QED BY <1>0, <2>1, <2>2
<1>6. ASSUME NEW p \in Peers, NEW r \in Rooms, LeaveRoom(p, r)
      PROVE  data' \in [Peers -> [Chats -> ChatData]] /\ file' \in [Peers -> [Chats -> SavedLists]]
  <2>1. PICK outcome \in Outcomes :
          /\ file' = [file EXCEPT ![p][r] = Written(file[p][r], data[p][r], outcome)]
          /\ data' = [data EXCEPT ![p][r] = IF members[p][r] = {} THEN NoData ELSE Saved(data[p][r], outcome)]
    BY <1>6 DEF LeaveRoom
  <2> DEFINE e == IF members[p][r] = {} THEN NoData ELSE Saved(data[p][r], outcome)
             l == Written(file[p][r], data[p][r], outcome)
  <2>2. r \in Chats
    BY DEF Chats
  <2>3. e \in ChatData /\ l \in SavedLists
    <3>1. data[p][r] \in ChatData /\ file[p][r] \in SavedLists
      BY <1>0, <2>2
    <3> QED BY <3>1, DataOperations
  <2>4. file' = [file EXCEPT ![p][r] = l] /\ data' = [data EXCEPT ![p][r] = e]
    BY <2>1
  <2> HIDE DEF e, l
  <2> QED BY <1>0, <2>2, <2>3, <2>4
<1>7. ASSUME NEW p \in Peers, NEW outcome \in [Chats -> Outcomes], SavesAll(p, outcome)
      PROVE  file' \in [Peers -> [Chats -> SavedLists]]
  <2> DEFINE lists == [c \in Chats |-> IF c \in joined[p] \cup {Main}
                                       THEN Written(file[p][c], data[p][c], outcome[c]) ELSE file[p][c]]
  <2>1. file' = [file EXCEPT ![p] = lists]
    BY <1>7 DEF SavesAll
  <2>2. lists \in [Chats -> SavedLists]
    <3> SUFFICES ASSUME NEW c \in Chats
                 PROVE  file[p][c] \in SavedLists /\ Written(file[p][c], data[p][c], outcome[c]) \in SavedLists
      OBVIOUS
    <3>1. data[p][c] \in ChatData /\ file[p][c] \in SavedLists /\ outcome[c] \in Outcomes
      BY <1>0
    <3> QED BY <3>1, DataOperations
  <2> HIDE DEF lists
  <2> QED BY <1>0, <2>1, <2>2
<1>8. ASSUME NEW p \in Peers, SaveAll(p)
      PROVE  data' \in [Peers -> [Chats -> ChatData]] /\ file' \in [Peers -> [Chats -> SavedLists]]
  <2>1. PICK outcome \in [Chats -> Outcomes] :
          /\ SavesAll(p, outcome)
          /\ data' = [data EXCEPT ![p] = [c \in Chats |->
                        IF c \in joined[p] \cup {Main} THEN Saved(data[p][c], outcome[c]) ELSE data[p][c]]]
    BY <1>8 DEF SaveAll
  <2> DEFINE all == [c \in Chats |-> IF c \in joined[p] \cup {Main}
                                     THEN Saved(data[p][c], outcome[c]) ELSE data[p][c]]
  <2>2. all \in [Chats -> ChatData]
    <3> SUFFICES ASSUME NEW c \in Chats
                 PROVE  data[p][c] \in ChatData /\ Saved(data[p][c], outcome[c]) \in ChatData
      OBVIOUS
    <3>1. data[p][c] \in ChatData /\ file[p][c] \in SavedLists /\ outcome[c] \in Outcomes
      BY <1>0
    <3> QED BY <3>1, DataOperations
  <2>3. data' = [data EXCEPT ![p] = all]
    BY <2>1
  <2> HIDE DEF all
  <2>4. data' \in [Peers -> [Chats -> ChatData]]
    BY <1>0, <2>2, <2>3
  <2> QED BY <1>7, <2>1, <2>4
<1>9. ASSUME NEW p \in Peers, Stop(p) \/ Crash(p)
      PROVE  data' \in [Peers -> [Chats -> ChatData]] /\ file' \in [Peers -> [Chats -> SavedLists]]
  <2>1. data' = [data EXCEPT ![p] = [c \in Chats |-> NoData]]
    BY <1>9 DEF Stop, Crash, Stopped
  <2>2. [c \in Chats |-> NoData] \in [Chats -> ChatData]
    BY DataOperations
  <2>3. data' \in [Peers -> [Chats -> ChatData]]
    BY <1>0, <2>1, <2>2
  <2>4. UNCHANGED file \/ \E outcome \in [Chats -> Outcomes] : SavesAll(p, outcome)
    BY <1>9 DEF Stop, Crash
  <2> QED BY <1>0, <1>7, <2>3, <2>4
<1>10. ASSUME NEW p \in Peers, Start(p)
      PROVE  data' \in [Peers -> [Chats -> ChatData]] /\ file' \in [Peers -> [Chats -> SavedLists]]
  <2> DEFINE all == [c \in Chats |-> IF c \in settings[p] \cup {Main}
                                     THEN Loaded(NoData, file[p][c]) ELSE NoData]
  <2>1. data' = [data EXCEPT ![p] = all] /\ UNCHANGED file
    BY <1>10 DEF Start
  <2>2. all \in [Chats -> ChatData]
    <3> SUFFICES ASSUME NEW c \in Chats
                 PROVE  NoData \in ChatData /\ Loaded(NoData, file[p][c]) \in ChatData
      OBVIOUS
    <3>1. file[p][c] \in SavedLists
      BY <1>0
    <3> QED BY <3>1, DataOperations
  <2> HIDE DEF all
  <2> QED BY <1>0, <2>1, <2>2
<1> QED
  BY <1>1, <1>2, <1>3, <1>4, <1>5, <1>6, <1>8, <1>9, <1>10
  DEF Next, vars, Retrieve, ReceiveGetLast, Lose

(* What loadFromFile() reads is what is on the disk, and what insert() or  *)
(* a save leaves unchanged is what was in the file.                        *)
NothingUnsaved == \A p \in running : data[p][Main].changed \/ data[p][Main].messages = file[p][Main]

LEMMA SavedStep ==
  ASSUME ~DiskMayFill, CInv, NothingUnsaved, [Next]_vars
  PROVE  NothingUnsaved'
<1>0. /\ data \in [Peers -> [Chats -> ChatData]] /\ file \in [Peers -> [Chats -> SavedLists]]
      /\ running \subseteq Peers /\ sent \in Nat /\ limit \in Nat \ {0}
      /\ Main \in Chats /\ Main \notin Rooms
  <2>1. running \subseteq Peers /\ sent \in Nat /\ limit \in Nat \ {0}
    BY ChatAssumption DEF CInv, CountsOK
  <2>2. data \in [Peers -> [Chats -> ChatData]] /\ file \in [Peers -> [Chats -> SavedLists]]
    BY DEF CInv, DataOK
  <2>3. Main \in Chats /\ Main \notin Rooms
    BY ChatAssumption DEF Chats
  <2> QED BY <2>1, <2>2, <2>3
<1> SUFFICES ASSUME NEW s \in running'
             PROVE  data'[s][Main].changed \/ data'[s][Main].messages = file'[s][Main]
  BY DEF NothingUnsaved
<1> DEFINE Known == data[s][Main].changed \/ data[s][Main].messages = file[s][Main]
           Goal == data'[s][Main].changed \/ data'[s][Main].messages = file'[s][Main]
<1>1. s \in running => s \in Peers /\ Known
  BY <1>0 DEF NothingUnsaved
<1>2. ASSUME s \in running, data'[s][Main] = data[s][Main], file'[s][Main] = file[s][Main] PROVE Goal
  BY <1>1, <1>2
<1>3. ASSUME s \in running, NEW batch \in Seq(Messages), Ordered(batch),
             data'[s][Main] = Insert(data[s][Main], batch), UNCHANGED file
      PROVE  Goal
  <2> DEFINE d == data[s][Main]
             e == Insert(d, batch)
  <2>1. IsData(d)
    BY <1>0, <1>1, <1>3 DEF ChatData
  <2>2. d.changed \in BOOLEAN
    BY <2>1 DEF IsData, DataRecords
  <2> HIDE DEF d
  <2>3. (d.changed => e.changed) /\ (~e.changed => e.messages = d.messages)
    BY <1>0, <1>3, <2>1, InsertKeeps
  <2> HIDE DEF e
  <2>4. data'[s][Main] = e /\ file' = file
    BY <1>3 DEF e, d
  <2>5. d.changed \/ d.messages = file[s][Main]
    BY <1>1, <1>3 DEF d
  <2> QED BY <2>3, <2>4, <2>5
<1>4. ASSUME NEW p \in Peers, NEW c \in Chats, NEW t \in Times, Send(p, c, t) PROVE Goal
  <2> DEFINE batch == <<[id |-> sent + 1, time |-> t]>>
             e == Insert(data[p][c], batch)
  <2>1. data' = [data EXCEPT ![p][c] = e] /\ UNCHANGED <<file, running>>
    BY <1>4 DEF Send
  <2>2. batch \in Seq(Messages) /\ Ordered(batch)
    <3>1. [id |-> sent + 1, time |-> t] \in Messages
      BY <1>0 DEF Messages
    <3> QED BY <3>1 DEF Ordered, Messages, Times
  <2> HIDE DEF batch
  <2>3. s \in running /\ s \in Peers
    BY <1>0, <2>1
  <2>4. data'[s][Main] = data[s][Main] \/ data'[s][Main] = Insert(data[s][Main], batch)
    <3>1. CASE p = s /\ c = Main
      BY <1>0, <2>1, <2>3, <3>1
    <3>2. CASE ~(p = s /\ c = Main)
      <4> HIDE DEF e
      <4> QED BY <1>0, <2>1, <2>3, <3>2
    <3> QED BY <3>1, <3>2
  <2> QED BY <1>2, <1>3, <2>1, <2>2, <2>3, <2>4
<1>5. ASSUME NEW d \in net, NEW t \in Times, ReceiveMessages(d, t) PROVE Goal
  <2> DEFINE batch == Timed(d.list, t)
             p == d.to
             c == d.chat
             e == Insert(data[p][c], batch)
  <2>1. (data' = [data EXCEPT ![p][c] = e] \/ data' = data) /\ UNCHANGED <<file, running>>
    BY <1>5 DEF ReceiveMessages
  <2>2. p \in Peers /\ c \in Chats /\ batch \in Seq(Messages) /\ Ordered(batch)
    BY TimedBatch DEF CInv, NetOK, IsDatagram
  <2> HIDE DEF batch, p, c
  <2>3. s \in running /\ s \in Peers
    BY <1>0, <2>1
  <2>4. data'[s][Main] = data[s][Main] \/ data'[s][Main] = Insert(data[s][Main], batch)
    <3>0. CASE data' = data
      BY <3>0
    <3>1. CASE data' = [data EXCEPT ![p][c] = e] /\ p = s /\ c = Main
      BY <1>0, <2>3, <3>1
    <3>2. CASE data' = [data EXCEPT ![p][c] = e] /\ ~(p = s /\ c = Main)
      <4> HIDE DEF e
      <4> QED BY <1>0, <2>2, <2>3, <3>2
    <3> QED BY <2>1, <3>0, <3>1, <3>2
  <2> QED BY <1>2, <1>3, <2>1, <2>2, <2>3, <2>4
<1>6. ASSUME NEW p \in Peers, NEW q \in Peers, HearIMAlive(p, q) PROVE Goal
  <2>1. data'[s][Main] = data[s][Main] /\ UNCHANGED <<file, running>> /\ s \in running
    <3>1. UNCHANGED <<file, running>> /\ s \in Peers /\ s \in running
      BY <1>0, <1>6 DEF HearIMAlive
    <3>2. PICK forgotten \in SUBSET Rooms :
            data' = [data EXCEPT ![p] = [c \in Chats |-> IF c \in forgotten THEN NoData ELSE data[p][c]]]
      <4> DEFINE known == [r \in Rooms |-> IF r \in joined[q] THEN members[p][r] \cup {q} ELSE members[p][r] \ {q}]
                 forgotten == {c \in Rooms : c \in Rooms \ (joined[p] \cup joined[q]) /\ known[c] = {}}
      <4>1. data' = [data EXCEPT ![p] = [c \in Chats |->
                      IF c \in Rooms \ (joined[p] \cup joined[q]) /\ known[c] = {} THEN NoData ELSE data[p][c]]]
        BY <1>6 DEF HearIMAlive
      <4>2. \A c \in Chats : c \in Rooms \ (joined[p] \cup joined[q]) /\ known[c] = {} <=> c \in forgotten
        OBVIOUS
      <4> HIDE DEF forgotten, known
      <4>3. data' = [data EXCEPT ![p] = [c \in Chats |-> IF c \in forgotten THEN NoData ELSE data[p][c]]]
        BY <4>1, <4>2
      <4>4. forgotten \in SUBSET Rooms
        BY DEF forgotten
      <4> QED BY <4>3, <4>4
    <3>3. data'[s][Main] = data[s][Main]
      BY <1>0, <3>1, <3>2
    <3> QED BY <3>1, <3>3
  <2> QED BY <1>2, <2>1
<1>7. ASSUME NEW p \in Peers, NEW r \in Rooms, JoinRoom(p, r) \/ LeaveRoom(p, r) PROVE Goal
  <2>1. /\ UNCHANGED running /\ s \in Peers /\ s \in running /\ r # Main /\ r \in Chats
    BY <1>0, <1>7 DEF JoinRoom, LeaveRoom, Chats
  <2>2. /\ \E e : data' = [data EXCEPT ![p][r] = e]
        /\ UNCHANGED file \/ \E l : file' = [file EXCEPT ![p][r] = l]
    BY <1>7 DEF JoinRoom, LeaveRoom
  <2>3. data'[s][Main] = data[s][Main]
    BY <1>0, <2>1, <2>2
  <2>4. file'[s][Main] = file[s][Main]
    BY <1>0, <2>1, <2>2
  <2> QED BY <1>2, <2>1, <2>3, <2>4
<1>8. ASSUME NEW p \in Peers, SaveAll(p) PROVE Goal
  <2>1. PICK outcome \in [Chats -> Outcomes] :
          /\ SavesAll(p, outcome)
          /\ data' = [data EXCEPT ![p] = [c \in Chats |->
                        IF c \in joined[p] \cup {Main} THEN Saved(data[p][c], outcome[c]) ELSE data[p][c]]]
    BY <1>8 DEF SaveAll
  <2>2. s \in Peers /\ s \in running
    BY <1>0, <1>8 DEF SaveAll
  <2> DEFINE files == [c \in Chats |-> IF c \in joined[p] \cup {Main}
                                       THEN Written(file[p][c], data[p][c], outcome[c]) ELSE file[p][c]]
             all == [c \in Chats |-> IF c \in joined[p] \cup {Main}
                                     THEN Saved(data[p][c], outcome[c]) ELSE data[p][c]]
  <2>3. file' = [file EXCEPT ![p] = files] /\ data' = [data EXCEPT ![p] = all]
    BY <2>1 DEF SavesAll
  <2>4. /\ files[Main] = Written(file[p][Main], data[p][Main], outcome[Main])
        /\ all[Main] = Saved(data[p][Main], outcome[Main])
    BY <1>0
  <2> HIDE DEF files, all
  <2>5. CASE s # p
    <3>1. data'[s][Main] = data[s][Main] /\ file'[s][Main] = file[s][Main]
      BY <1>0, <2>2, <2>3, <2>5
    <3> QED BY <1>2, <2>2, <3>1
  <2>6. CASE s = p
    <3> DEFINE d == data[s][Main]
               o == outcome[Main]
    <3>1. data'[s][Main] = Saved(d, o) /\ file'[s][Main] = Written(file[s][Main], d, o)
      BY <1>0, <2>2, <2>3, <2>4, <2>6
    <3>2. o = "written" \/ o = "failed"
      <4>1. o \in Outcomes
        BY <1>0
      <4> QED BY <4>1 DEF Outcomes
    <3>3. d \in DataRecords
      BY <1>0, <2>2 DEF ChatData
    <3>4. d.changed \/ d.messages = file[s][Main]
      BY <1>1, <2>2
    <3> HIDE DEF d, o
    <3>5. CASE o = "written"
      <4>1. Saved(d, o).messages = d.messages
        BY <3>3 DEF Saved, DataRecords
      <4>2. Written(file[s][Main], d, o) = d.messages
        BY <3>4, <3>5 DEF Written
      <4> QED BY <3>1, <4>1, <4>2
    <3>6. CASE o = "failed"
      <4>1. d.changed \in BOOLEAN
        BY <3>3 DEF DataRecords
      <4>2. Saved(d, o).messages = d.messages /\ (Saved(d, o).changed <=> d.changed)
        BY <3>3, <3>6, <4>1 DEF Saved, DataRecords
      <4>3. Written(file[s][Main], d, o) = file[s][Main]
        BY <3>6 DEF Written
      <4> QED BY <3>1, <3>4, <4>2, <4>3
    <3> QED BY <3>2, <3>5, <3>6
  <2> QED BY <2>5, <2>6
<1>9. ASSUME NEW p \in Peers, Stop(p) \/ Crash(p) PROVE Goal
  <2>1. /\ running' = running \ {p} /\ data' = [data EXCEPT ![p] = [c \in Chats |-> NoData]]
        /\ UNCHANGED file \/ \E l : file' = [file EXCEPT ![p] = l]
    BY <1>9 DEF Stop, Crash, Stopped, SavesAll
  <2>2. s \in running /\ s \in Peers /\ s # p
    BY <1>0, <2>1
  <2>3. data'[s][Main] = data[s][Main] /\ file'[s][Main] = file[s][Main]
    BY <1>0, <2>1, <2>2
  <2> QED BY <1>2, <2>2, <2>3
<1>10. ASSUME NEW p \in Peers, Start(p) PROVE Goal
  <2> DEFINE all == [c \in Chats |-> IF c \in settings[p] \cup {Main}
                                     THEN Loaded(NoData, file[p][c]) ELSE NoData]
  <2>1. data' = [data EXCEPT ![p] = all] /\ UNCHANGED file /\ running' = running \cup {p}
    BY <1>10 DEF Start
  <2>2. all[Main] = Loaded(NoData, file[p][Main])
    BY <1>0
  <2> HIDE DEF all
  <2>3. CASE s = p
    <3>1. IsList(file[p][Main]) /\ Len(file[p][Main]) <= limit
      BY <1>0 DEF SavedLists
    <3>2. Loaded(NoData, file[p][Main]).messages = file[p][Main]
      BY <1>0, <3>1, NoDataIsData, LoadedKeeps
    <3>3. data'[s][Main] = Loaded(NoData, file[p][Main])
      BY <1>0, <2>1, <2>2, <2>3
    <3> QED BY <2>1, <2>3, <3>2, <3>3
  <2>4. CASE s # p
    <3>1. s \in running /\ s \in Peers
      BY <1>0, <2>1, <2>4
    <3>2. data'[s][Main] = data[s][Main] /\ file'[s][Main] = file[s][Main]
      BY <1>0, <2>1, <2>4, <3>1
    <3> QED BY <1>2, <3>1, <3>2
  <2> QED BY <2>3, <2>4
<1>11. ASSUME UNCHANGED <<data, file, running>> PROVE Goal
  BY <1>2, <1>11
<1> HIDE DEF Goal
<1>12. Goal
  BY <1>4, <1>5, <1>6, <1>7, <1>8, <1>9, <1>10, <1>11
  DEF Next, vars, Retrieve, ReceiveGetLast, Lose
<1> QED BY <1>12 DEF Goal

-----------------------------------------------------------------------------
(* The theorems.                                                           *)

LEMMA InitCInv == Init => CInv /\ NothingUnsaved
<1> SUFFICES ASSUME Init PROVE CInv /\ NothingUnsaved
  OBVIOUS
<1>1. CountsOK
  BY ChatAssumption DEF Init, CountsOK
<1>2. RoomsOK
  BY DEF Init, RoomsOK
<1>3. NetOK
  BY DEF Init, NetOK
<1>4. NoData \in ChatData /\ <<>> \in SavedLists
  <2>1. IsData(NoData) /\ limit \in Nat
    BY <1>1, NoDataIsData, ChatAssumption DEF CountsOK
  <2>2. NoData \in ChatData
    BY <2>1 DEF ChatData, IsData
  <2>3. <<>> \in SavedLists
    BY <2>1 DEF IsData, NoData, SavedLists
  <2> QED BY <2>2, <2>3
<1>5. DataOK
  BY <1>4 DEF Init, DataOK
<1>6. NothingUnsaved
  BY DEF Init, NothingUnsaved, NoData, Chats
<1> QED BY <1>1, <1>2, <1>3, <1>5, <1>6 DEF CInv

LEMMA AlwaysCInv == Spec => []CInv
<1>1. Init => CInv
  BY InitCInv
<1>2. CInv /\ [Next]_vars => CInv'
  BY CountsStep, RoomsStep, NetStep, DataStep DEF CInv
<1> QED BY <1>1, <1>2, PTL DEF Spec

(* A list of messages, in memory or on the disk, is sorted by time, has no *)
(* message twice and not more than the limit, whatever the order in which  *)
(* the batches came, and the set of its IDs that insert() consults is that *)
(* of the list.                                                            *)
THEOREM ListsSorted == Spec => []TypeOK
<1>1. CInv => TypeOK
  <2> SUFFICES ASSUME CInv PROVE TypeOK
    OBVIOUS
  <2>1. \A l : IsList(l) => \A i \in 2..Len(l) : l[i - 1].time <= l[i].time
    <3> SUFFICES ASSUME NEW l, IsList(l), NEW i \in 2..Len(l) PROVE l[i - 1].time <= l[i].time
      OBVIOUS
    <3>1. Len(l) \in Nat
      BY DEF IsList
    <3>2. i - 1 \in 1..Len(l) /\ i \in 1..Len(l) /\ i - 1 <= i
      BY <3>1
    <3> QED BY <3>2 DEF IsList, Ordered
  <2>2. ASSUME NEW p \in Peers, NEW c \in Chats
        PROVE  /\ IsChatData(data[p][c])
               /\ IsChatData([messages |-> file[p][c], messageIDs |-> IDsOf(file[p][c])])
    <3>1. /\ IsList(data[p][c].messages) /\ data[p][c].messageIDs = IDsOf(data[p][c].messages)
          /\ Len(data[p][c].messages) <= limit
      BY DEF CInv, DataOK, ChatData, IsData
    <3>2. IsList(file[p][c]) /\ Len(file[p][c]) <= limit
      BY DEF CInv, DataOK, SavedLists
    <3> QED BY <2>1, <3>1, <3>2, IDsCounted DEF IsChatData
  <2>3. \A p \in Peers : members[p] \in [Rooms -> SUBSET (Peers \ {p})]
    BY DEF CInv, RoomsOK
  <2> QED BY <2>2, <2>3 DEF TypeOK, CInv, CountsOK, RoomsOK
<1> QED BY <1>1, AlwaysCInv, PTL

(* What is not on the disk is known not to be, whatever was received,      *)
(* saved or failed to be, stopped and started again: if no save is skipped *)
(* without a word because the disk is nearly full.                         *)
THEOREM ChangesNotForgotten ==
  ASSUME ~DiskMayFill
  PROVE  Spec => []SavedUnlessChanged
<1>1. Init => NothingUnsaved
  BY InitCInv
<1>2. CInv /\ NothingUnsaved /\ [Next]_vars => NothingUnsaved'
  BY SavedStep
<1>3. NothingUnsaved => SavedUnlessChanged
  BY DEF NothingUnsaved, SavedUnlessChanged
<1> QED BY <1>1, <1>2, <1>3, AlwaysCInv, PTL DEF Spec
=============================================================================

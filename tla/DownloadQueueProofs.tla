------------------------ MODULE DownloadQueueProofs ------------------------
(***************************************************************************)
(* Proofs about DownloadQueue, for every set of downloads, of places and   *)
(* of predicates and every bound.  The markers of the scans are right      *)
(* after each insertion, removal and move; what a move needs for that is   *)
(* that its indices stay ordered while it shifts downloads about.          *)
(***************************************************************************)
EXTENDS DownloadQueue, InductionFacts, FiniteSetTheorems, SequenceTheorems, TLAPS

(* A position of a queue, and what follows it. *)
LEMMA Cuts ==
  ASSUME NEW s \in Seq(Downloads), NEW p \in Nat, NEW q \in Nat, p <= q, q <= Len(s)
  PROVE  /\ SubSeq(s, 1, p) \in Seq(Downloads) /\ Len(SubSeq(s, 1, p)) = p
         /\ \A i \in 1..p : SubSeq(s, 1, p)[i] = s[i]
         /\ SubSeq(s, q + 1, Len(s)) \in Seq(Downloads) /\ Len(SubSeq(s, q + 1, Len(s))) = Len(s) - q
         /\ \A i \in 1..Len(s) - q : SubSeq(s, q + 1, Len(s))[i] = s[q + i]
<1>1. Len(s) \in Nat /\ \A i \in 1..Len(s) : s[i] \in Downloads
  OBVIOUS
<1>2. /\ SubSeq(s, 1, p) \in Seq(Downloads) /\ Len(SubSeq(s, 1, p)) = IF 1 <= p THEN p - 1 + 1 ELSE 0
      /\ \A i \in 1..p - 1 + 1 : SubSeq(s, 1, p)[i] = s[1 + i - 1]
  <2>1. \A i \in 1..p : s[i] \in Downloads
    BY <1>1
  <2> QED
    BY <2>1, SubSeqProperties, SMT
<1>3. /\ SubSeq(s, q + 1, Len(s)) \in Seq(Downloads)
      /\ Len(SubSeq(s, q + 1, Len(s))) = IF q + 1 <= Len(s) THEN Len(s) - (q + 1) + 1 ELSE 0
      /\ \A i \in 1..Len(s) - (q + 1) + 1 : SubSeq(s, q + 1, Len(s))[i] = s[q + 1 + i - 1]
  <2>1. \A i \in q + 1..Len(s) : s[i] \in Downloads
    BY <1>1
  <2>2. q + 1 \in Int /\ Len(s) \in Int
    BY <1>1
  <2> QED
    BY <2>1, <2>2, SubSeqProperties, SMT
<1> QED
  BY <1>1, <1>2, <1>3

(* InsertAt and RemoveAt, element by element. *)
LEMMA InsertAtElements ==
  ASSUME NEW s \in Seq(Downloads), NEW d \in Downloads, NEW k \in 1..Len(s) + 1
  PROVE  /\ InsertAt(s, k, d) \in Seq(Downloads)
         /\ Len(InsertAt(s, k, d)) = Len(s) + 1
         /\ \A i \in 1..Len(s) + 1 :
              /\ i < k => InsertAt(s, k, d)[i] = s[i]
              /\ i = k => InsertAt(s, k, d)[i] = d
              /\ i > k => InsertAt(s, k, d)[i] = s[i - 1]
<1> DEFINE l == SubSeq(s, 1, k - 1)
           r == SubSeq(s, k, Len(s))
           m == l \o <<d>>
<1>0. PICK p \in Nat : p = k - 1
  OBVIOUS
<1>1. InsertAt(s, k, d) = m \o r
  BY DEF InsertAt
<1>2. Len(s) \in Nat /\ k \in Nat /\ p <= Len(s) /\ k = p + 1
  BY <1>0
<1>3. /\ SubSeq(s, 1, p) \in Seq(Downloads) /\ Len(SubSeq(s, 1, p)) = p
      /\ \A i \in 1..p : SubSeq(s, 1, p)[i] = s[i]
      /\ SubSeq(s, p + 1, Len(s)) \in Seq(Downloads) /\ Len(SubSeq(s, p + 1, Len(s))) = Len(s) - p
      /\ \A i \in 1..Len(s) - p : SubSeq(s, p + 1, Len(s))[i] = s[p + i]
  BY <1>2, Cuts
<1>4. /\ l \in Seq(Downloads) /\ Len(l) = p /\ \A i \in 1..p : l[i] = s[i]
      /\ r \in Seq(Downloads) /\ Len(r) = Len(s) - p /\ \A i \in 1..Len(s) - p : r[i] = s[p + i]
  BY <1>0, <1>2, <1>3
<1>5. <<d>> \in Seq(Downloads) /\ Len(<<d>>) = 1 /\ <<d>>[1] = d
  OBVIOUS
<1> HIDE DEF l, r
<1>6. /\ m \in Seq(Downloads) /\ Len(m) = p + 1
      /\ \A i \in 1..p + 1 : m[i] = IF i <= p THEN l[i] ELSE d
  <2>1. /\ l \o <<d>> \in Seq(Downloads) /\ Len(l \o <<d>>) = Len(l) + 1
        /\ \A i \in 1..Len(l) + 1 : (l \o <<d>>)[i] = IF i <= Len(l) THEN l[i] ELSE <<d>>[i - Len(l)]
    BY <1>4, <1>5, ConcatProperties
  <2> QED
    BY <1>4, <1>5, <2>1
<1> HIDE DEF m
<1>7. /\ m \o r \in Seq(Downloads) /\ Len(m \o r) = Len(m) + Len(r)
      /\ \A i \in 1..Len(m) + Len(r) : (m \o r)[i] = IF i <= Len(m) THEN m[i] ELSE r[i - Len(m)]
  <2>1. m \in Seq(Downloads) /\ r \in Seq(Downloads)
    BY <1>4, <1>6
  <2> QED
    BY ONLY <2>1, ConcatProperties
<1>8. Len(m \o r) = Len(s) + 1
  BY <1>2, <1>4, <1>6, <1>7
<1>9. ASSUME NEW i \in 1..Len(s) + 1
      PROVE  /\ i < k => (m \o r)[i] = s[i]
             /\ i = k => (m \o r)[i] = d
             /\ i > k => (m \o r)[i] = s[i - 1]
  <2>1. i \in 1..Len(m) + Len(r)
    BY <1>2, <1>4, <1>6
  <2>2. i < k => (m \o r)[i] = s[i]
    BY <2>1, <1>2, <1>4, <1>6, <1>7
  <2>3. i = k => (m \o r)[i] = d
    BY <2>1, <1>2, <1>4, <1>6, <1>7
  <2>4. ASSUME i > k PROVE (m \o r)[i] = s[i - 1]
    <3>1. PICK n \in 1..Len(s) - p : n = i - (p + 1)
      BY <2>4, <1>2
    <3>2. (m \o r)[i] = r[n]
      BY <3>1, <2>1, <2>4, <1>2, <1>6, <1>7
    <3>3. r[n] = s[p + n]
      BY <1>4
    <3>4. p + n = i - 1
      BY <3>1, <1>2
    <3> QED
      BY <3>2, <3>3, <3>4
  <2> QED
    BY <2>2, <2>3, <2>4, Zenon
<1> QED
  BY <1>1, <1>7, <1>8, <1>9, Zenon

LEMMA RemoveAtElements ==
  ASSUME NEW s \in Seq(Downloads), NEW k \in 1..Len(s)
  PROVE  /\ RemoveAt(s, k) \in Seq(Downloads)
         /\ Len(RemoveAt(s, k)) = Len(s) - 1
         /\ \A i \in 1..Len(s) - 1 :
              /\ i < k => RemoveAt(s, k)[i] = s[i]
              /\ i >= k => RemoveAt(s, k)[i] = s[i + 1]
<1> DEFINE l == SubSeq(s, 1, k - 1)
           r == SubSeq(s, k + 1, Len(s))
<1>0. PICK p \in Nat : p = k - 1
  OBVIOUS
<1>1. RemoveAt(s, k) = l \o r
  BY DEF RemoveAt
<1>2. Len(s) \in Nat /\ k \in Nat /\ p <= k /\ k <= Len(s) /\ k = p + 1
  BY <1>0
<1>3. /\ SubSeq(s, 1, p) \in Seq(Downloads) /\ Len(SubSeq(s, 1, p)) = p
      /\ \A i \in 1..p : SubSeq(s, 1, p)[i] = s[i]
      /\ SubSeq(s, k + 1, Len(s)) \in Seq(Downloads) /\ Len(SubSeq(s, k + 1, Len(s))) = Len(s) - k
      /\ \A i \in 1..Len(s) - k : SubSeq(s, k + 1, Len(s))[i] = s[k + i]
  BY <1>2, Cuts
<1>4. /\ l \in Seq(Downloads) /\ Len(l) = p /\ \A i \in 1..p : l[i] = s[i]
      /\ r \in Seq(Downloads) /\ Len(r) = Len(s) - k /\ \A i \in 1..Len(s) - k : r[i] = s[k + i]
  BY <1>0, <1>3
<1> HIDE DEF l, r
<1>5. /\ l \o r \in Seq(Downloads) /\ Len(l \o r) = Len(l) + Len(r)
      /\ \A i \in 1..Len(l) + Len(r) : (l \o r)[i] = IF i <= Len(l) THEN l[i] ELSE r[i - Len(l)]
  BY <1>4, ConcatProperties
<1>6. Len(l \o r) = Len(s) - 1
  BY <1>2, <1>4, <1>5
<1>7. ASSUME NEW i \in 1..Len(s) - 1
      PROVE  /\ i < k => (l \o r)[i] = s[i]
             /\ i >= k => (l \o r)[i] = s[i + 1]
  <2>1. i \in 1..Len(l) + Len(r)
    BY <1>2, <1>4
  <2>2. i < k => (l \o r)[i] = s[i]
    BY <2>1, <1>2, <1>4, <1>5
  <2>3. ASSUME i >= k PROVE (l \o r)[i] = s[i + 1]
    <3>1. PICK n \in 1..Len(s) - k : n = i - p
      BY <2>3, <1>2
    <3>2. (l \o r)[i] = r[n]
      BY <3>1, <2>1, <2>3, <1>2, <1>4, <1>5
    <3>3. r[n] = s[k + n]
      BY <1>4
    <3>4. k + n = i + 1
      BY <3>1, <1>2
    <3> QED
      BY <3>2, <3>3, <3>4
  <2> QED
    BY <2>2, <2>3, Zenon
<1> QED
  BY <1>1, <1>5, <1>6, <1>7, Zenon

(* The same by the positions of the code, from 0; a position beyond the    *)
(* end is the end.                                                         *)
At(s, q) == s[q + 1]

(* t is s with d inserted at c. *)
IsInserted(t, s, c, d) ==
  /\ t \in Seq(Downloads) /\ Len(t) = Len(s) + 1
  /\ \A q \in 0..Len(s) : /\ q < c => At(t, q) = At(s, q)
                          /\ q = c => At(t, q) = d
                          /\ q > c => At(t, q) = At(s, q - 1)

LEMMA InsertedElements ==
  ASSUME NEW s \in Seq(Downloads), NEW d \in Downloads, NEW p \in Nat,
         NEW c \in 0..Len(s), c = IF p <= Len(s) THEN p ELSE Len(s)
  PROVE  IsInserted(Inserted(s, p, d), s, c, d)
<1>1. PICK k \in 1..Len(s) + 1 : k = IF p <= Len(s) THEN p + 1 ELSE Len(s) + 1
  OBVIOUS
<1>2. Inserted(s, p, d) = InsertAt(s, k, d)
  BY <1>1 DEF Inserted
<1>3. k = c + 1 /\ c \in Nat
  BY <1>1
<1>4. /\ InsertAt(s, k, d) \in Seq(Downloads)
      /\ Len(InsertAt(s, k, d)) = Len(s) + 1
      /\ \A i \in 1..Len(s) + 1 :
           /\ i < k => InsertAt(s, k, d)[i] = s[i]
           /\ i = k => InsertAt(s, k, d)[i] = d
           /\ i > k => InsertAt(s, k, d)[i] = s[i - 1]
  <2>1. d \in Downloads /\ s \in Seq(Downloads) /\ k \in 1..Len(s) + 1
    OBVIOUS
  <2> QED
    BY <2>1, InsertAtElements
<1>5. ASSUME NEW q \in 0..Len(s)
      PROVE  /\ q < c => InsertAt(s, k, d)[q + 1] = s[q + 1]
             /\ q = c => InsertAt(s, k, d)[q + 1] = d
             /\ q > c => InsertAt(s, k, d)[q + 1] = s[q - 1 + 1]
  <2>1. PICK i \in 1..Len(s) + 1 : i = q + 1
    OBVIOUS
  <2>2. /\ i - 1 = q - 1 + 1
        /\ q < c => i < k
        /\ q = c => i = k
        /\ q > c => i > k
    BY <1>3, <2>1
  <2> QED
    BY <2>1, <2>2, <1>4
<1> QED
  BY <1>2, <1>4, <1>5 DEF At, IsInserted

LEMMA RemovedElements ==
  ASSUME NEW s \in Seq(Downloads), NEW p \in 0..Len(s) - 1
  PROVE  /\ Removed(s, p) \in Seq(Downloads)
         /\ Len(Removed(s, p)) = Len(s) - 1
         /\ \A q \in 0..Len(s) - 2 :
              /\ q < p => At(Removed(s, p), q) = At(s, q)
              /\ q >= p => At(Removed(s, p), q) = At(s, q + 1)
<1>1. PICK k \in 1..Len(s) : k = p + 1
  OBVIOUS
<1>2. Removed(s, p) = RemoveAt(s, k)
  BY <1>1 DEF Removed
<1>3. ASSUME NEW q \in 0..Len(s) - 2
      PROVE  /\ q < p => RemoveAt(s, k)[q + 1] = s[q + 1]
             /\ q >= p => RemoveAt(s, k)[q + 1] = s[q + 1 + 1]
  <2>1. PICK i \in 1..Len(s) - 1 : i = q + 1
    OBVIOUS
  <2>2. /\ i < k => RemoveAt(s, k)[i] = s[i]
        /\ i >= k => RemoveAt(s, k)[i] = s[i + 1]
    BY RemoveAtElements
  <2> QED
    BY <1>1, <2>1, <2>2
<1> QED
  BY <1>2, <1>3, RemoveAtElements DEF At

(* A download at i inserted again at a, not after i, and its old place     *)
(* removed.                                                                *)
LEMMA MovedBack ==
  ASSUME NEW s \in Seq(Downloads), NEW i \in 0..Len(s) - 1, NEW a \in 0..i,
         NEW d \in Downloads, d = At(s, i), NEW r, r = i + 1,
         NEW t, t = Removed(Inserted(s, a, d), r)
  PROVE  /\ t \in Seq(Downloads) /\ Len(t) = Len(s)
         /\ \A q \in 0..Len(s) - 1 :
              /\ q < a => At(t, q) = At(s, q)
              /\ q = a => At(t, q) = At(s, i)
              /\ a < q /\ q <= i => At(t, q) = At(s, q - 1)
              /\ q > i => At(t, q) = At(s, q)
<1> DEFINE u == Inserted(s, a, d)
<1>1. Len(s) \in Nat /\ a \in Nat
  OBVIOUS
<1>2. /\ u \in Seq(Downloads) /\ Len(u) = Len(s) + 1
      /\ \A q \in 0..Len(s) : /\ q < a => At(u, q) = At(s, q)
                              /\ q = a => At(u, q) = d
                              /\ q > a => At(u, q) = At(s, q - 1)
  <2>1. s \in Seq(Downloads) /\ d \in Downloads /\ a \in Nat /\ a \in 0..Len(s)
        /\ a = IF a <= Len(s) THEN a ELSE Len(s)
    BY <1>1
  <2>2. IsInserted(u, s, a, d)
    BY ONLY <2>1, InsertedElements
  <2> QED
    BY ONLY <2>2 DEF IsInserted
<1> HIDE DEF u
<1>3. r \in 0..Len(u) - 1
  BY <1>1, <1>2
<1>4. /\ Removed(u, r) \in Seq(Downloads) /\ Len(Removed(u, r)) = Len(u) - 1
      /\ \A q \in 0..Len(u) - 2 : /\ q < r => At(Removed(u, r), q) = At(u, q)
                                  /\ q >= r => At(Removed(u, r), q) = At(u, q + 1)
  BY <1>2, <1>3, RemovedElements
<1>5. t = Removed(u, r)
  BY DEF u
<1>6. ASSUME NEW q \in 0..Len(s) - 1
      PROVE  /\ q < a => At(t, q) = At(s, q)
             /\ q = a => At(t, q) = At(s, i)
             /\ a < q /\ q <= i => At(t, q) = At(s, q - 1)
             /\ q > i => At(t, q) = At(s, q)
  <2>1. q \in 0..Len(s) /\ q \in 0..Len(u) - 2
    BY <1>1, <1>2
  <2>2. PICK n \in 0..Len(s) : n = q + 1
    BY <1>1
  <2>3. q <= i => At(t, q) = At(u, q)
    BY <2>1, <1>1, <1>4, <1>5
  <2>4. q > i => At(t, q) = At(u, n) /\ At(u, n) = At(s, n - 1) /\ n - 1 = q
    BY <2>1, <2>2, <1>1, <1>2, <1>4, <1>5
  <2> QED
    BY <2>1, <2>3, <2>4, <1>2
<1> QED
  BY <1>1, <1>2, <1>4, <1>5, <1>6

(* A download at r inserted again at a, after r, and its old place         *)
(* removed.                                                                *)
LEMMA MovedForward ==
  ASSUME NEW s \in Seq(Downloads), NEW a \in 0..Len(s), NEW r \in 0..a - 1,
         NEW d \in Downloads, d = At(s, r),
         NEW t, t = Removed(Inserted(s, a, d), r)
  PROVE  /\ t \in Seq(Downloads) /\ Len(t) = Len(s)
         /\ \A q \in 0..Len(s) - 1 :
              /\ q < r => At(t, q) = At(s, q)
              /\ r <= q /\ q < a - 1 => At(t, q) = At(s, q + 1)
              /\ q = a - 1 => At(t, q) = At(s, r)
              /\ q >= a => At(t, q) = At(s, q)
<1> DEFINE u == Inserted(s, a, d)
<1>1. Len(s) \in Nat /\ a \in Nat /\ r \in Nat
  OBVIOUS
<1>2. /\ u \in Seq(Downloads) /\ Len(u) = Len(s) + 1
      /\ \A q \in 0..Len(s) : /\ q < a => At(u, q) = At(s, q)
                              /\ q = a => At(u, q) = d
                              /\ q > a => At(u, q) = At(s, q - 1)
  <2>1. s \in Seq(Downloads) /\ d \in Downloads /\ a \in Nat /\ a \in 0..Len(s)
        /\ a = IF a <= Len(s) THEN a ELSE Len(s)
    BY <1>1
  <2>2. IsInserted(u, s, a, d)
    BY ONLY <2>1, InsertedElements
  <2> QED
    BY ONLY <2>2 DEF IsInserted
<1> HIDE DEF u
<1>3. r \in 0..Len(u) - 1
  BY <1>1, <1>2
<1>4. /\ Removed(u, r) \in Seq(Downloads) /\ Len(Removed(u, r)) = Len(u) - 1
      /\ \A q \in 0..Len(u) - 2 : /\ q < r => At(Removed(u, r), q) = At(u, q)
                                  /\ q >= r => At(Removed(u, r), q) = At(u, q + 1)
  BY <1>2, <1>3, RemovedElements
<1>5. t = Removed(u, r)
  BY DEF u
<1>6. ASSUME NEW q \in 0..Len(s) - 1
      PROVE  /\ q < r => At(t, q) = At(s, q)
             /\ r <= q /\ q < a - 1 => At(t, q) = At(s, q + 1)
             /\ q = a - 1 => At(t, q) = At(s, r)
             /\ q >= a => At(t, q) = At(s, q)
  <2>1. q \in 0..Len(s) /\ q \in 0..Len(u) - 2
    BY <1>1, <1>2
  <2>2. PICK n \in 0..Len(s) : n = q + 1
    BY <1>1
  <2>3. q < r => At(t, q) = At(u, q) /\ At(u, q) = At(s, q)
    BY <2>1, <1>1, <1>2, <1>4, <1>5
  <2>4. q >= r => At(t, q) = At(u, n)
    BY <2>1, <2>2, <1>1, <1>4, <1>5
  <2>5. /\ n < a => At(u, n) = At(s, q + 1)
        /\ n = a => At(u, n) = At(s, r)
        /\ n > a => At(u, n) = At(s, n - 1) /\ n - 1 = q
    BY <2>2, <1>2
  <2> QED
    BY <2>2, <2>3, <2>4, <2>5, <1>1
<1> QED
  BY <1>1, <1>2, <1>4, <1>5, <1>6

-----------------------------------------------------------------------------
(* The markers.                                                            *)

Statuses == {"unborn", "live", "erroneous", "complete", "deleted"}

(* What is before a marker is not looked for. *)
Marked(s, st, mk) ==
  /\ s \in Seq(Downloads) /\ st \in [Downloads -> Statuses]
  /\ DOMAIN mk \subseteq Predicates
  /\ \A P \in DOMAIN mk : mk[P] \in 0..Len(s)
  /\ \A P \in DOMAIN mk : \A q \in 0..mk[P] - 1 : ~Satisfies(At(s, q), st[At(s, q)], P)

LEMMA PositionTyped ==
  ASSUME NEW s \in Seq(Downloads), NEW q \in 0..Len(s) - 1
  PROVE  At(s, q) \in Downloads
<1>1. PICK i \in 1..Len(s) : i = q + 1
  OBVIOUS
<1>2. s[i] \in Downloads
  OBVIOUS
<1> QED
  BY <1>1, <1>2 DEF At

(* Only a download that is complete or deleted was skipped for its status: *)
(* one that is neither, or that becomes so, is still skipped.              *)
LEMMA StillMarked ==
  ASSUME NEW s, NEW st, NEW mk, Marked(s, st, mk), NEW d \in Downloads, NEW new \in Statuses,
         st[d] \notin {"complete", "deleted"} \/ new \in {"complete", "deleted"}
  PROVE  Marked(s, [st EXCEPT ![d] = new], mk)
<1> DEFINE st2 == [st EXCEPT ![d] = new]
<1>1. st \in [Downloads -> Statuses] /\ s \in Seq(Downloads)
  BY DEF Marked
<1>2. ASSUME NEW P \in DOMAIN mk, NEW q \in 0..mk[P] - 1
      PROVE  ~Satisfies(At(s, q), st2[At(s, q)], P)
  <2>1. ~Satisfies(At(s, q), st[At(s, q)], P)
    BY DEF Marked
  <2>2. q \in 0..Len(s) - 1
    BY <1>1 DEF Marked
  <2>3. At(s, q) \in Downloads
    BY <1>1, <2>2, PositionTyped
  <2> QED
    BY <1>1, <2>1, <2>3 DEF Satisfies
<1> QED
  BY <1>1, <1>2 DEF Marked

(* insert: a download looked for pulls the markers after it to its place.  *)
LEMMA InsertMarked ==
  ASSUME NEW s, NEW st, NEW mk, Marked(s, st, mk), markers = mk,
         NEW p \in Nat, NEW d \in Downloads, NEW created \in Statuses,
         \A P : Satisfies(d, st[d], P) => Satisfies(d, created, P)
  PROVE  Marked(Inserted(s, p, d), st, MarkersInsert(p, d, created))
<1> DEFINE t == Inserted(s, p, d)
           mk2 == MarkersInsert(p, d, created)
<1>1. s \in Seq(Downloads) /\ Len(s) \in Nat /\ st \in [Downloads -> Statuses]
  BY DEF Marked
<1>2. PICK c \in 0..Len(s) : c = IF p <= Len(s) THEN p ELSE Len(s)
  BY <1>1
<1>3. /\ t \in Seq(Downloads) /\ Len(t) = Len(s) + 1
      /\ \A q \in 0..Len(s) : /\ q < c => At(t, q) = At(s, q)
                              /\ q = c => At(t, q) = d
                              /\ q > c => At(t, q) = At(s, q - 1)
  <2>1. s \in Seq(Downloads) /\ d \in Downloads /\ p \in Nat /\ c \in 0..Len(s)
        /\ c = IF p <= Len(s) THEN p ELSE Len(s)
    BY <1>1, <1>2
  <2>2. IsInserted(t, s, c, d)
    BY ONLY <2>1, InsertedElements
  <2> QED
    BY ONLY <2>2 DEF IsInserted
<1> HIDE DEF t
<1>4. ASSUME NEW P \in DOMAIN mk
      PROVE  /\ mk2[P] \in 0..Len(t)
             /\ \A q \in 0..mk2[P] - 1 : ~Satisfies(At(t, q), st[At(t, q)], P)
  <2> DEFINE m == mk[P]
  <2>1. m \in 0..Len(s) /\ \A q \in 0..m - 1 : ~Satisfies(At(s, q), st[At(s, q)], P)
    BY DEF Marked
  <2>2. mk2[P] = IF Satisfies(d, created, P)
                 THEN IF p < m THEN p ELSE m
                 ELSE IF p <= m THEN m + 1 ELSE m
    BY DEF MarkersInsert
  <2> HIDE DEF m, mk2
  <2>3. mk2[P] \in 0..Len(t)
    BY <1>1, <1>3, <2>1, <2>2
  <2>4. ASSUME NEW q \in 0..mk2[P] - 1
        PROVE  ~Satisfies(At(t, q), st[At(t, q)], P)
    <3>1. q \in 0..Len(s)
      BY <1>3, <2>3
    <3>2. CASE q < c
      <4>1. q \in 0..m - 1
        BY <1>1, <1>2, <2>1, <2>2, <3>2
      <4> QED
        BY <1>3, <2>1, <3>1, <3>2, <4>1
    <3>3. CASE q = c
      <4>1. ~Satisfies(d, created, P)
        BY <1>1, <1>2, <2>1, <2>2, <3>3
      <4> QED
        BY <1>3, <3>1, <3>3, <4>1
    <3>4. CASE q > c
      <4>1. q - 1 \in 0..m - 1
        BY <1>1, <1>2, <2>1, <2>2, <3>1, <3>4
      <4> QED
        BY <1>3, <2>1, <3>1, <3>4, <4>1
    <3> QED
      BY <3>1, <3>2, <3>3, <3>4
  <2> QED
    BY <2>3, <2>4
<1>5. DOMAIN mk2 = DOMAIN mk
  BY DEF MarkersInsert
<1> HIDE DEF mk2
<1>6. Marked(t, st, mk2)
  BY <1>1, <1>3, <1>4, <1>5 DEF Marked
<1> QED
  BY <1>6 DEF t, mk2

(* remove: the markers after it follow. *)
LEMMA RemoveMarked ==
  ASSUME NEW s, NEW st, NEW mk, Marked(s, st, mk), markers = mk, NEW p \in 0..Len(s) - 1
  PROVE  Marked(Removed(s, p), st, MarkersRemove(p))
<1> DEFINE t == Removed(s, p)
           mk2 == MarkersRemove(p)
<1>1. s \in Seq(Downloads) /\ Len(s) \in Nat /\ st \in [Downloads -> Statuses]
  BY DEF Marked
<1>3. /\ t \in Seq(Downloads) /\ Len(t) = Len(s) - 1
      /\ \A q \in 0..Len(s) - 2 : /\ q < p => At(t, q) = At(s, q)
                                  /\ q >= p => At(t, q) = At(s, q + 1)
  BY <1>1, RemovedElements
<1> HIDE DEF t
<1>4. ASSUME NEW P \in DOMAIN mk
      PROVE  /\ mk2[P] \in 0..Len(t)
             /\ \A q \in 0..mk2[P] - 1 : ~Satisfies(At(t, q), st[At(t, q)], P)
  <2> DEFINE m == mk[P]
  <2>1. m \in 0..Len(s) /\ \A q \in 0..m - 1 : ~Satisfies(At(s, q), st[At(s, q)], P)
    BY DEF Marked
  <2>2. mk2[P] = IF p < m THEN m - 1 ELSE m
    BY DEF MarkersRemove
  <2> HIDE DEF m, mk2
  <2>3. mk2[P] \in 0..Len(t)
    BY <1>1, <1>3, <2>1, <2>2
  <2>4. ASSUME NEW q \in 0..mk2[P] - 1
        PROVE  ~Satisfies(At(t, q), st[At(t, q)], P)
    <3>1. q \in 0..Len(s) - 2
      BY <1>3, <2>3
    <3>2. CASE q < p
      <4>1. q \in 0..m - 1
        BY <1>1, <2>1, <2>2, <3>2
      <4> QED
        BY <1>3, <2>1, <3>1, <3>2, <4>1
    <3>3. CASE q >= p
      <4>1. q + 1 \in 0..m - 1
        BY <1>1, <2>1, <2>2, <3>1, <3>3
      <4> QED
        BY <1>3, <2>1, <3>1, <3>3, <4>1
    <3> QED
      BY <3>1, <3>2, <3>3
  <2> QED
    BY <2>3, <2>4
<1>5. DOMAIN mk2 = DOMAIN mk
  BY DEF MarkersRemove
<1> HIDE DEF mk2
<1>6. Marked(t, st, mk2)
  BY <1>1, <1>3, <1>4, <1>5 DEF Marked
<1> QED
  BY <1>6 DEF t, mk2

(* What a marker becomes when d moves: see MarkersMove. *)
MarkerMoved(m, a, r, looked) ==
  LET shifted == IF a <= m THEN m + 1 ELSE m
  IN IF looked
     THEN IF r > m /\ a < m THEN a ELSE IF r < m /\ a > m THEN m - 1 ELSE m
     ELSE IF r < shifted THEN shifted - 1 ELSE shifted

(* move, towards the start. *)
LEMMA BackMarked ==
  ASSUME NEW s, NEW st, NEW mk, Marked(s, st, mk), markers = mk, status = st,
         NEW i \in 0..Len(s) - 1, NEW a \in 0..i, NEW r, r = i + 1,
         NEW d \in Downloads, d = At(s, i), NEW t, t = Removed(Inserted(s, a, d), r)
  PROVE  Marked(t, st, MarkersMove(a, r, d)) /\ Len(t) = Len(s)
<1> DEFINE mk2 == MarkersMove(a, r, d)
<1>1. s \in Seq(Downloads) /\ Len(s) \in Nat /\ st \in [Downloads -> Statuses]
  BY DEF Marked
<1>3. /\ t \in Seq(Downloads) /\ Len(t) = Len(s)
      /\ \A q \in 0..Len(s) - 1 :
           /\ q < a => At(t, q) = At(s, q)
           /\ q = a => At(t, q) = At(s, i)
           /\ a < q /\ q <= i => At(t, q) = At(s, q - 1)
           /\ q > i => At(t, q) = At(s, q)
  BY <1>1, MovedBack
<1>4. ASSUME NEW P \in DOMAIN mk
      PROVE  /\ mk2[P] \in 0..Len(t)
             /\ \A q \in 0..mk2[P] - 1 : ~Satisfies(At(t, q), st[At(t, q)], P)
  <2> DEFINE m == mk[P]
             looked == Satisfies(d, st[d], P)
  <2>1. m \in 0..Len(s) /\ \A q \in 0..m - 1 : ~Satisfies(At(s, q), st[At(s, q)], P)
    BY DEF Marked
  <2>2. mk2[P] = MarkerMoved(m, a, r, looked)
    BY DEF MarkersMove, MarkerMoved
  <2>3. looked => ~(i < m)
    BY <2>1
  <2> HIDE DEF m, mk2
  <2>5. CASE looked
    <3>1. mk2[P] \in 0..m /\ (mk2[P] = m \/ mk2[P] = a) /\ (a < m => mk2[P] = a)
      BY <1>1, <2>1, <2>2, <2>3, <2>5 DEF MarkerMoved
    <3>2. ASSUME NEW q \in 0..mk2[P] - 1
          PROVE  ~Satisfies(At(t, q), st[At(t, q)], P)
      <4>1. q \in 0..m - 1 /\ q \in 0..Len(s) - 1 /\ q < a
        BY <1>1, <2>1, <3>1
      <4> QED
        BY <1>3, <2>1, <4>1
    <3> QED
      BY <1>1, <1>3, <2>1, <3>1, <3>2
  <2>6. CASE ~looked
    <3>1. /\ mk2[P] \in 0..Len(s) /\ mk2[P] <= m + 1
          /\ mk2[P] = m + 1 => a <= m /\ i >= m
      BY <1>1, <2>1, <2>2, <2>6 DEF MarkerMoved
    <3>2. ASSUME NEW q \in 0..mk2[P] - 1
          PROVE  ~Satisfies(At(t, q), st[At(t, q)], P)
      <4>0. q \in 0..Len(s) - 1 /\ q <= m
        BY <1>1, <2>1, <3>1
      <4>1. CASE q < a
        <5>1. q \in 0..m - 1
          BY <1>1, <2>1, <3>1, <4>1
        <5> QED
          BY <1>3, <2>1, <4>0, <4>1, <5>1
      <4>2. CASE q = a
        BY <1>3, <2>6, <4>0, <4>2
      <4>3. CASE a < q /\ q <= i
        <5>1. q - 1 \in 0..m - 1
          BY <2>1, <4>0, <4>3
        <5> QED
          BY <1>3, <2>1, <4>0, <4>3, <5>1
      <4>4. CASE q > i
        <5>1. q \in 0..m - 1
          BY <2>1, <3>1, <4>0, <4>4
        <5> QED
          BY <1>3, <2>1, <4>0, <4>4, <5>1
      <4> QED
        BY <4>0, <4>1, <4>2, <4>3, <4>4
    <3> QED
      BY <1>3, <3>1, <3>2
  <2> QED
    BY <2>5, <2>6
<1>5. DOMAIN mk2 = DOMAIN mk
  BY DEF MarkersMove
<1> HIDE DEF mk2
<1>6. Marked(t, st, mk2)
  BY <1>1, <1>3, <1>4, <1>5 DEF Marked
<1> QED
  BY <1>3, <1>6 DEF mk2

(* move, towards the end. *)
LEMMA ForwardMarked ==
  ASSUME NEW s, NEW st, NEW mk, Marked(s, st, mk), markers = mk, status = st,
         NEW a \in 0..Len(s), NEW r \in 0..a - 1,
         NEW d \in Downloads, d = At(s, r), NEW t, t = Removed(Inserted(s, a, d), r)
  PROVE  Marked(t, st, MarkersMove(a, r, d)) /\ Len(t) = Len(s)
<1> DEFINE mk2 == MarkersMove(a, r, d)
<1>1. s \in Seq(Downloads) /\ Len(s) \in Nat /\ st \in [Downloads -> Statuses]
  BY DEF Marked
<1>3. /\ t \in Seq(Downloads) /\ Len(t) = Len(s)
      /\ \A q \in 0..Len(s) - 1 :
           /\ q < r => At(t, q) = At(s, q)
           /\ r <= q /\ q < a - 1 => At(t, q) = At(s, q + 1)
           /\ q = a - 1 => At(t, q) = At(s, r)
           /\ q >= a => At(t, q) = At(s, q)
  BY <1>1, MovedForward
<1>4. ASSUME NEW P \in DOMAIN mk
      PROVE  /\ mk2[P] \in 0..Len(t)
             /\ \A q \in 0..mk2[P] - 1 : ~Satisfies(At(t, q), st[At(t, q)], P)
  <2> DEFINE m == mk[P]
             looked == Satisfies(d, st[d], P)
  <2>1. m \in 0..Len(s) /\ \A q \in 0..m - 1 : ~Satisfies(At(s, q), st[At(s, q)], P)
    BY DEF Marked
  <2>2. mk2[P] = MarkerMoved(m, a, r, looked)
    BY DEF MarkersMove, MarkerMoved
  <2>3. looked => ~(r < m)
    BY <2>1
  <2> HIDE DEF m, mk2
  <2>5. CASE looked
    <3>1. mk2[P] = m /\ m <= r
      BY <1>1, <2>1, <2>2, <2>3, <2>5 DEF MarkerMoved
    <3>2. ASSUME NEW q \in 0..mk2[P] - 1
          PROVE  ~Satisfies(At(t, q), st[At(t, q)], P)
      <4>1. q \in 0..m - 1 /\ q \in 0..Len(s) - 1 /\ q < r
        BY <1>1, <2>1, <3>1
      <4> QED
        BY <1>3, <2>1, <4>1
    <3> QED
      BY <1>3, <2>1, <3>1, <3>2
  <2>6. CASE ~looked
    <3>1. /\ mk2[P] \in 0..Len(s) /\ mk2[P] <= m
          /\ r < m /\ a > m => mk2[P] = m - 1
      BY <1>1, <2>1, <2>2, <2>6 DEF MarkerMoved
    <3>2. ASSUME NEW q \in 0..mk2[P] - 1
          PROVE  ~Satisfies(At(t, q), st[At(t, q)], P)
      <4>0. q \in 0..Len(s) - 1 /\ q \in 0..m - 1
        BY <1>1, <2>1, <3>1
      <4>1. CASE q < r \/ q >= a
        BY <1>3, <2>1, <4>0, <4>1
      <4>2. CASE q = a - 1
        BY <1>3, <2>6, <4>0, <4>2
      <4>3. CASE r <= q /\ q < a - 1
        <5>1. q + 1 \in 0..m - 1
          BY <2>1, <3>1, <4>0, <4>3
        <5> QED
          BY <1>3, <2>1, <4>0, <4>3, <5>1
      <4> QED
        BY <4>0, <4>1, <4>2, <4>3
    <3> QED
      BY <1>3, <3>1, <3>2
  <2> QED
    BY <2>5, <2>6
<1>5. DOMAIN mk2 = DOMAIN mk
  BY DEF MarkersMove
<1> HIDE DEF mk2
<1>6. Marked(t, st, mk2)
  BY <1>1, <1>3, <1>4, <1>5 DEF Marked
<1> QED
  BY <1>3, <1>6 DEF mk2

-----------------------------------------------------------------------------
(* The inductive invariant.                                                *)

QueueOK == Marked(downloads, status, markers)

(* The indices of a removal and of a move.  A move has met toMove before   *)
(* i, and while it shifts them the reference is at i, or one further when  *)
(* it is itself the last to be moved before itself.                        *)
RemovalWithin == handler.kind = "removing" => handler.position <= Len(downloads)
MoveWithin ==
  handler.kind = "moving" =>
    /\ handler.i <= Len(downloads)
    /\ \A k \in DOMAIN handler.toMove :
         handler.toMove[k] >= k - 1 /\ handler.toMove[k] <= handler.i
    /\ handler.j = 0 =>
         /\ Len(handler.toMove) <= handler.i
         /\ \A k \in DOMAIN handler.toMove : handler.toMove[k] < handler.i
         /\ handler.iRef <= handler.i /\ (handler.after => handler.iRef < handler.i)
    /\ handler.j > 0 =>
         /\ handler.i < Len(downloads)
         /\ handler.shift <= 0 /\ handler.shift >= 1 - handler.j
         /\ handler.iRef = handler.i \/ (~handler.after /\ handler.iRef = handler.i + 1)

HandlerOK == handler \in Handlers /\ RemovalWithin /\ MoveWithin

RestOK ==
  /\ place \in [Downloads -> Places \cup {NoPlace}]
  /\ erroneous \in Seq(Downloads)
  /\ {timer, queueLoaded, queueChanged, unsaved} \subseteq BOOLEAN
  /\ saved \in Seq(Entries)

IInv == QueueOK /\ HandlerOK /\ RestOK

LEMMA Shapes ==
  ASSUME handler \in Handlers
  PROVE  /\ handler.kind = "entering" => handler \in Entering
         /\ handler.kind = "removing" => handler \in Removing
         /\ handler.kind = "moving" => handler \in Moving
         /\ handler.kind = "idle" => handler = Idle
         /\ Idle \in Handlers /\ Idle.kind = "idle"
BY DEF Handlers, Entering, Removing, Moving, Idle

(* With no handler under way, or one that enters downloads, the indices    *)
(* say nothing.                                                            *)
LEMMA NoIndices ==
  ASSUME handler' = Idle \/ handler' \in Entering
  PROVE  HandlerOK'
BY DEF HandlerOK, Handlers, Entering, Idle, RemovalWithin, MoveWithin

LEMMA QueueFrame ==
  ASSUME QueueOK, UNCHANGED <<downloads, status, markers>>
  PROVE  QueueOK'
BY DEF QueueOK

(* Download::setStatus, for the queue and for the list of the errors. *)
LEMMA StatusKeeps ==
  ASSUME IInv, NEW d \in Downloads, NEW st \in Statuses, SetStatus(d, st),
         status[d] \notin {"complete", "deleted"}
  PROVE  /\ Marked(downloads, status', markers)
         /\ erroneous' \in Seq(Downloads) /\ timer' \in BOOLEAN
<1>1. Marked(downloads, status', markers)
  BY StillMarked DEF IInv, QueueOK, SetStatus
<1>2. Append(erroneous, d) \in Seq(Downloads)
  BY DEF IInv, RestOK
<1> QED
  BY <1>1, <1>2 DEF IInv, RestOK, SetStatus, errors

LEMMA OutcomesTyped ==
  \A d \in Downloads : Outcomes(d) \subseteq Statuses \ {"unborn", "deleted"}
BY DEF Outcomes, Statuses

(* Removal from a sequence of downloads, and its end. *)
LEMMA ErrorsCut ==
  ASSUME NEW s \in Seq(Downloads), NEW k \in DOMAIN s
  PROVE  RemoveAt(s, k) \in Seq(Downloads) /\ SubSeq(s, k + 1, Len(s)) \in Seq(Downloads)
<1>1. k \in 1..Len(s) /\ k \in Nat /\ k <= Len(s) /\ Len(s) \in Nat
  OBVIOUS
<1>2. RemoveAt(s, k) \in Seq(Downloads)
  BY <1>1, RemoveAtElements
<1>3. SubSeq(s, k + 1, Len(s)) \in Seq(Downloads)
  BY <1>1, Cuts
<1> QED
  BY <1>2, <1>3

LEMMA ForgetTyped ==
  ASSUME NEW d, ForgetErroneous(d), erroneous \in Seq(Downloads)
  PROVE  erroneous' \in Seq(Downloads)
<1>1. CASE UNCHANGED erroneous
  BY <1>1
<1>2. CASE \E k \in DOMAIN erroneous : erroneous' = RemoveAt(erroneous, k)
  BY <1>2, ErrorsCut
<1> QED
  BY <1>1, <1>2 DEF ForgetErroneous

(* addDownload. *)
LEMMA AddKeeps ==
  ASSUME IInv, NEW entry \in Entries, NEW position \in Nat, NEW loading,
         AddDownload(entry, position, loading)
  PROVE  /\ QueueOK' /\ erroneous' \in Seq(Downloads)
         /\ {timer, queueChanged}' \subseteq BOOLEAN
         /\ place' \in [Downloads -> Places \cup {NoPlace}]
<1>1. CASE UNCHANGED <<downloads, status, place, markers, errors, queueChanged>>
  BY <1>1 DEF IInv, QueueOK, RestOK, errors
<1>2. ASSUME NEW d \in Downloads, NEW created \in {"live", "complete"}, NEW started,
             created = "complete" => started = "complete",
             started \in Outcomes(d) \/ started = created,
             status[d] = "unborn",
             downloads' = Inserted(downloads, position, d),
             markers' = MarkersInsert(position, d, created),
             place' = [place EXCEPT ![d] = entry.place],
             SetStatus(d, started), queueChanged' = TRUE
      PROVE  /\ QueueOK' /\ erroneous' \in Seq(Downloads)
             /\ {timer, queueChanged}' \subseteq BOOLEAN
             /\ place' \in [Downloads -> Places \cup {NoPlace}]
  <2>1. started \in Statuses
    BY <1>2, OutcomesTyped DEF Statuses
  <2>2. /\ Marked(downloads, status', markers)
        /\ erroneous' \in Seq(Downloads) /\ timer' \in BOOLEAN
    BY <1>2, <2>1, StatusKeeps
  <2>3. status'[d] = started
    BY <1>2 DEF IInv, QueueOK, Marked, SetStatus
  <2>4. \A P : Satisfies(d, status'[d], P) => Satisfies(d, created, P)
    BY <1>2, <2>3 DEF Satisfies
  <2>5. created \in Statuses
    BY DEF Statuses
  <2>6. Marked(Inserted(downloads, position, d), status', MarkersInsert(position, d, created))
    BY <2>2, <2>4, <2>5, InsertMarked
  <2>7. place' \in [Downloads -> Places \cup {NoPlace}]
    BY <1>2 DEF IInv, RestOK, Entries
  <2> QED
    BY <1>2, <2>2, <2>6, <2>7 DEF QueueOK
<1>3. CASE ~AlreadyQueued(entry)
  <2>1. PICK d \in Downloads :
          \E created \in IF loading /\ d \in Files THEN {"live", "complete"} ELSE {"live"} :
          \E started \in IF created = "live" THEN Outcomes(d) ELSE {created} :
            /\ NameOf[d] = entry.name /\ status[d] = "unborn"
            /\ downloads' = Inserted(downloads, position, d)
            /\ markers' = MarkersInsert(position, d, created)
            /\ place' = [place EXCEPT ![d] = entry.place]
            /\ SetStatus(d, started)
            /\ queueChanged' = TRUE
    BY <1>3 DEF AddDownload
  <2>2. PICK created \in {"live", "complete"} :
          \E started \in IF created = "live" THEN Outcomes(d) ELSE {created} :
            /\ status[d] = "unborn"
            /\ downloads' = Inserted(downloads, position, d)
            /\ markers' = MarkersInsert(position, d, created)
            /\ place' = [place EXCEPT ![d] = entry.place]
            /\ SetStatus(d, started)
            /\ queueChanged' = TRUE
    BY <2>1
  <2>3. PICK started \in IF created = "live" THEN Outcomes(d) ELSE {created} :
            /\ status[d] = "unborn"
            /\ downloads' = Inserted(downloads, position, d)
            /\ markers' = MarkersInsert(position, d, created)
            /\ place' = [place EXCEPT ![d] = entry.place]
            /\ SetStatus(d, started)
            /\ queueChanged' = TRUE
    BY <2>2
  <2>4. /\ created = "complete" => started = "complete"
        /\ started \in Outcomes(d) \/ started = created
    BY <2>3
  <2> QED
    BY <1>2, <2>3, <2>4
<1> QED
  BY <1>1, <1>3 DEF AddDownload

-----------------------------------------------------------------------------
(* The steps.                                                              *)

LEMMA InitOK == Init => IInv
<1> SUFFICES ASSUME Init PROVE IInv
  OBVIOUS
<1>1. QueueOK
  BY DEF Init, QueueOK, Marked, Statuses
<1>2. HandlerOK
  BY DEF Init, HandlerOK, Handlers, Idle, RemovalWithin, MoveWithin
<1>3. RestOK
  <2>1. place \in [Downloads -> Places \cup {NoPlace}]
    BY DEF Init
  <2>2. <<>> \in Seq(Downloads) /\ <<>> \in Seq(Entries)
    OBVIOUS
  <2> QED
    BY <2>1, <2>2 DEF Init, RestOK
<1> QED
  BY <1>1, <1>2, <1>3 DEF IInv

(* What a directory holds, as entries of the queue. *)
LEMMA ListingTyped ==
  ASSUME NEW d \in Dirs, NEW listing \in Listings[NameOf[d]], NEW pl \in Places \cup {NoPlace}
  PROVE  [i \in 1..Len(listing) |-> [name |-> listing[i], place |-> pl]] \in Seq(Entries)
<1>1. listing \in Seq({NameOf[x] : x \in Downloads})
  BY NamesAssumption
<1>2. Len(listing) \in Nat /\ \A i \in 1..Len(listing) : listing[i] \in {NameOf[x] : x \in Downloads}
  BY <1>1
<1>3. \A i \in 1..Len(listing) : [name |-> listing[i], place |-> pl] \in Entries
  BY <1>2 DEF Entries
<1> QED
  BY <1>2, <1>3

LEMMA EnteringSteps ==
  ASSUME IInv,
         \/ \E n \in Asked, p \in Destinations : UserAdds(n, p)
         \/ \E d \in Dirs : \E l \in Listings[NameOf[d]] : NewEntries(d, l)
         \/ LoadQueue \/ Enter \/ EnterSkips \/ SecondPass \/ EnterEnds
  PROVE  IInv'
<1> USE DEF IInv
<1>0. downloads \in Seq(Downloads) /\ Len(downloads) \in Nat
  BY DEF QueueOK, Marked
<1>1. ASSUME NEW n \in Asked, NEW p \in Destinations, UserAdds(n, p)
      PROVE  IInv'
  <2> DEFINE entry == [name |-> n, place |-> p]
  <2>1. AddDownload(entry, Len(downloads), FALSE) /\ handler' = Idle
        /\ UNCHANGED <<queueLoaded, saved, unsaved>>
    BY <1>1, Shapes DEF UserAdds, MainIdle, HandlerOK
  <2>2. CASE AlreadyQueued(entry)
    BY <2>1, <2>2, QueueFrame, NoIndices DEF AddDownload, RestOK, errors
  <2>3. CASE ~AlreadyQueued(entry)
    <3>1. PICK d \in Downloads : NameOf[d] = entry.name
      BY <2>1, <2>3 DEF AddDownload
    <3>2. entry \in Entries
      BY <3>1, DestinationsAssumption DEF Entries
    <3> QED
      BY <1>0, <2>1, <3>2, AddKeeps, NoIndices DEF RestOK
  <2> QED
    BY <2>2, <2>3
<1>2. ASSUME NEW d \in Dirs, NEW l \in Listings[NameOf[d]], NewEntries(d, l)
      PROVE  IInv'
  <2> DEFINE position == PositionOf(d)
  <2>1. d \in Downloads /\ d \in Queued
    BY <1>2 DEF NewEntries, Downloads
  <2>2. PICK k \in 1..Len(downloads) : downloads[k] = d
    BY <1>0, <2>1 DEF Queued, ToSet
  <2>3. PICK q \in 0..Len(downloads) - 1 : q + 1 = k
    BY <1>0, <2>2
  <2>4. position \in 0..Len(downloads) - 1
    BY <2>2, <2>3 DEF PositionOf
  <2> HIDE DEF position
  <2>5. Marked(downloads, status', markers)
    BY <1>2, <2>1, StillMarked DEF NewEntries, QueueOK, Statuses
  <2>6. QueueOK'
    BY <1>2, <2>4, <2>5, RemoveMarked DEF NewEntries, QueueOK, position
  <2>7. RestOK'
    BY <1>2, ForgetTyped DEF NewEntries, RestOK, storage
  <2>8. [i \in 1..Len(l) |-> [name |-> l[i], place |-> place[d]]] \in Seq(Entries)
    BY <2>1, ListingTyped DEF RestOK
  <2>9. handler' \in Entering
    BY <1>0, <1>2, <2>4, <2>8 DEF NewEntries, Entering, position
  <2> QED
    BY <2>6, <2>7, <2>9, NoIndices
<1>3. CASE LoadQueue
  <2>1. handler' \in Entering
    BY <1>0, <1>3 DEF LoadQueue, Entering, RestOK
  <2> QED
    BY <1>3, <2>1, NoIndices, QueueFrame DEF LoadQueue, RestOK, errors, storage
<1>4. CASE Enter
  <2>1. handler \in Entering
    BY <1>4, Shapes DEF Enter, AtEntry, HandlerOK
  <2>2. handler' = [handler EXCEPT !.n = handler.n + 1, !.at = handler.at + 1]
    BY <1>4 DEF Enter
  <2>3. /\ handler.entries \in Seq(Entries) /\ handler.n \in Nat \ {0} /\ handler.at \in Nat
        /\ handler.n + 1 \in Nat \ {0} /\ handler.at + 1 \in Nat
    BY <2>1 DEF Entering
  <2>4. handler' \in Entering
    BY <2>1, <2>2, <2>3 DEF Entering
  <2>5. handler.n \in 1..Len(handler.entries)
    BY <1>4, <2>3 DEF Enter, AtEntry
  <2>6. handler.entries[handler.n] \in Entries
    BY <2>3, <2>5
  <2>7. PICK position \in Nat : AddDownload(handler.entries[handler.n], position, Loading)
    BY <1>0, <1>4, <2>3 DEF Enter
  <2> QED
    BY <1>4, <2>4, <2>6, <2>7, AddKeeps, NoIndices DEF Enter, RestOK
<1>5. CASE EnterSkips \/ SecondPass
  <2>1. handler \in Entering
    BY <1>5, Shapes DEF EnterSkips, SecondPass, AtEntry, HandlerOK
  <2>2. handler.n + 1 \in Nat \ {0}
    BY <2>1 DEF Entering
  <2>3. \/ handler' = [handler EXCEPT !.n = handler.n + 1]
        \/ handler' = [handler EXCEPT !.n = 1, !.pass = "directories"]
    BY <1>5 DEF EnterSkips, SecondPass
  <2>4. handler' \in Entering
    <3>1. CASE handler' = [handler EXCEPT !.n = handler.n + 1]
      BY <2>1, <2>2, <3>1 DEF Entering
    <3>2. CASE handler' = [handler EXCEPT !.n = 1, !.pass = "directories"]
      <4>1. 1 \in Nat \ {0} /\ "directories" \in {"saved", "files", "directories"}
        OBVIOUS
      <4> QED
        BY <2>1, <3>2, <4>1 DEF Entering
    <3> QED
      BY <2>3, <3>1, <3>2
  <2> QED
    BY <1>5, <2>4, NoIndices, QueueFrame DEF EnterSkips, SecondPass, RestOK, errors, storage
<1>6. CASE EnterEnds
  BY <1>6, Shapes, NoIndices, QueueFrame DEF EnterEnds, RestOK, HandlerOK, errors
<1> QED
  BY <1>1, <1>2, <1>3, <1>4, <1>5, <1>6

LEMMA RemovingSteps ==
  ASSUME IInv, RemoveSome \/ RemoveComplete \/ RemoveSkips \/ RemoveOne \/ RemoveEnds
  PROVE  IInv'
<1> USE DEF IInv
<1>0. downloads \in Seq(Downloads) /\ Len(downloads) \in Nat
  BY DEF QueueOK, Marked
<1>1. ASSUME NEW S \in SUBSET Downloads, RemoveDownloads(S)
      PROVE  IInv'
  <2>1. handler' \in Removing /\ handler'.kind = "removing" /\ handler'.position = 0
    BY <1>0, <1>1 DEF RemoveDownloads, Removing
  <2>2. HandlerOK'
    BY <1>0, <1>1, <2>1 DEF HandlerOK, Handlers, RemovalWithin, MoveWithin, RemoveDownloads
  <2> QED
    BY <1>1, <2>2, QueueFrame DEF RemoveDownloads, RestOK, errors, storage
<1>2. CASE RemoveSome \/ RemoveComplete
  BY <1>1, <1>2 DEF RemoveSome, RemoveComplete, Selections
<1>3. CASE RemoveSkips
  <2>1. handler \in Removing /\ handler.position \in Nat
    BY <1>3, Shapes DEF RemoveSkips, HandlerOK, Removing
  <2>2. /\ handler' \in Removing /\ handler'.kind = "removing"
        /\ handler'.position = handler.position + 1
    BY <1>3, <2>1 DEF RemoveSkips, Removing
  <2>3. HandlerOK'
    BY <1>0, <1>3, <2>1, <2>2 DEF HandlerOK, Handlers, RemovalWithin, MoveWithin, RemoveSkips
  <2> QED
    BY <1>3, <2>3, QueueFrame DEF RemoveSkips, RestOK, errors, storage
<1>4. CASE RemoveOne
  <2> DEFINE d == downloads[handler.position + 1]
  <2>1. handler \in Removing /\ handler.position \in 0..Len(downloads) - 1
    BY <1>0, <1>4, Shapes DEF RemoveOne, HandlerOK, Removing
  <2>2. d \in Downloads
    BY <1>0, <2>1, PositionTyped DEF At
  <2>3. Marked(downloads, status', markers)
    BY <1>4, <2>2, StillMarked DEF RemoveOne, QueueOK, Statuses
  <2>4. QueueOK'
    BY <1>4, <2>1, <2>3, RemoveMarked DEF RemoveOne, QueueOK
  <2>5. Len(downloads') = Len(downloads) - 1
    BY <1>0, <1>4, <2>1, RemovedElements DEF RemoveOne
  <2>6. HandlerOK'
    BY <1>0, <1>4, <2>1, <2>5 DEF HandlerOK, RemovalWithin, MoveWithin, RemoveOne
  <2>7. RestOK'
    BY <1>4, ForgetTyped DEF RemoveOne, RestOK, storage
  <2> QED
    BY <2>4, <2>6, <2>7
<1>5. CASE RemoveEnds
  BY <1>5, NoIndices, QueueFrame DEF RemoveEnds, RestOK, errors
<1> QED
  BY <1>2, <1>3, <1>4, <1>5

(* A move: the fields of its handler, and what a step makes of them.       *)
LEMMA MovingTyped ==
  ASSUME HandlerOK, handler.kind = "moving"
  PROVE  /\ handler \in Moving /\ handler.i \in Nat /\ handler.j \in Nat
         /\ handler.iRef \in Nat \cup {-1} /\ handler.shift \in Int
         /\ handler.toMove \in Seq(Nat) /\ Len(handler.toMove) \in Nat
         /\ handler.after \in BOOLEAN
BY Shapes DEF HandlerOK, Moving

LEMMA MoveStarts ==
  ASSUME IInv, NEW ids \in SUBSET Downloads, NEW refs \in SUBSET Downloads,
         NEW after \in BOOLEAN, Move(ids, refs, after)
  PROVE  IInv'
<1> USE DEF IInv
<1>0. downloads \in Seq(Downloads) /\ Len(downloads) \in Nat
  BY DEF QueueOK, Marked
<1> DEFINE ref == IF Cardinality(refs) = 1 THEN CHOOSE r \in refs : TRUE ELSE NoRef
<1>1. ref \in Downloads \cup {NoRef}
  <2>1. CASE Cardinality(refs) = 1 /\ refs # {}
    BY <2>1
  <2>2. CASE refs = {}
    BY <2>2, FS_EmptySet
  <2> QED
    BY <2>1, <2>2
<1> HIDE DEF ref
<1>2. handler' = [kind |-> "moving", i |-> 0, iRef |-> -1, toMove |-> <<>>, j |-> 0,
                  shift |-> 0, ids |-> ids \cap Queued, refs |-> refs, left |-> refs,
                  after |-> after, ref |-> ref, before |-> downloads]
  BY DEF Move, ref
<1>3. ids \cap Queued \in SUBSET Downloads
  OBVIOUS
<1>4. handler' \in Moving
  BY <1>0, <1>1, <1>2, <1>3 DEF Moving
<1>5. HandlerOK'
  BY <1>0, <1>2, <1>4 DEF HandlerOK, Handlers, RemovalWithin, MoveWithin, Move
<1> QED
  BY <1>5, QueueFrame DEF Move, RestOK, errors, storage

(* A step of a move is right if its indices are: the rest it leaves alone. *)
LEMMA MovingKeeps ==
  ASSUME IInv, handler' \in Moving, MoveWithin', UNCHANGED <<place, errors, storage>>
  PROVE  HandlerOK' /\ RestOK'
BY DEF IInv, HandlerOK, Handlers, Moving, RemovalWithin, RestOK, errors, storage

LEMMA MoveBackOK ==
  ASSUME IInv, MoveBack
  PROVE  IInv'
<1> USE DEF IInv
<1>0. downloads \in Seq(Downloads) /\ Len(downloads) \in Nat
  BY DEF QueueOK, Marked
<1>1. handler.kind = "moving" /\ handler.j = 0 /\ handler.i < Len(downloads) /\ handler.iRef # -1
  BY DEF MoveBack, AtTurn
<1>2. /\ handler \in Moving /\ handler.i \in Nat /\ handler.iRef \in Nat
      /\ handler.toMove \in Seq(Nat) /\ Len(handler.toMove) \in Nat
  BY <1>1, MovingTyped
<1> DEFINE i == handler.i
           r == handler.i + 1
           a == IF handler.after THEN handler.iRef + 1 ELSE handler.iRef
           d == downloads[r]
<1>3. i \in 0..Len(downloads) - 1 /\ a \in 0..i
  BY <1>0, <1>1, <1>2 DEF HandlerOK, MoveWithin
<1>4. d \in Downloads /\ d = At(downloads, i)
  BY <1>0, <1>3, PositionTyped DEF At
<1>5. downloads' = Removed(Inserted(downloads, a, d), r) /\ markers' = MarkersMove(a, r, d)
  BY DEF MoveBack, MoveOne
<1>6. UNCHANGED status
  BY DEF MoveBack
<1> HIDE DEF a, d
<1>7. Marked(downloads', status, MarkersMove(a, r, d)) /\ Len(downloads') = Len(downloads)
  BY <1>3, <1>4, <1>5, BackMarked DEF QueueOK
<1>8. QueueOK'
  BY <1>5, <1>6, <1>7 DEF QueueOK
<1>9. handler' = [handler EXCEPT !.i = handler.i + 1, !.iRef = handler.iRef + 1]
  BY DEF MoveBack
<1>10. handler' \in Moving
  <2>1. handler.i + 1 \in Nat /\ handler.iRef + 1 \in Nat \cup {-1}
    BY <1>2
  <2> QED
    BY <1>2, <1>9, <2>1 DEF Moving
<1>11. /\ handler'.kind = "moving" /\ handler'.i = handler.i + 1 /\ handler'.iRef = handler.iRef + 1
       /\ handler'.toMove = handler.toMove /\ handler'.j = 0 /\ handler'.after = handler.after
  BY <1>1, <1>2, <1>9 DEF Moving
<1>12. MoveWithin'
  <2>1. /\ handler.i < Len(downloads) /\ Len(handler.toMove) <= handler.i
        /\ \A k \in DOMAIN handler.toMove :
             handler.toMove[k] >= k - 1 /\ handler.toMove[k] < handler.i
        /\ handler.iRef <= handler.i /\ (handler.after => handler.iRef < handler.i)
    BY <1>1, <1>2 DEF HandlerOK, MoveWithin
  <2>2. /\ handler.i + 1 <= Len(downloads') /\ Len(handler.toMove) <= handler.i + 1
        /\ handler.iRef + 1 <= handler.i + 1
        /\ handler.after => handler.iRef + 1 < handler.i + 1
    BY <1>0, <1>2, <1>7, <2>1
  <2>3. ASSUME NEW k \in DOMAIN handler.toMove
        PROVE  /\ handler.toMove[k] >= k - 1 /\ handler.toMove[k] <= handler.i + 1
               /\ handler.toMove[k] < handler.i + 1
    <3>1. handler.toMove[k] \in Nat
      BY <1>2
    <3> QED
      BY <1>2, <2>1, <3>1
  <2> QED
    BY <1>11, <2>2, <2>3 DEF MoveWithin
<1> QED
  BY <1>8, <1>10, <1>12, MovingKeeps DEF MoveBack

LEMMA MoveForwardOK ==
  ASSUME IInv, MoveForward
  PROVE  IInv'
<1> USE DEF IInv
<1>0. downloads \in Seq(Downloads) /\ Len(downloads) \in Nat
  BY DEF QueueOK, Marked
<1>1. handler.kind = "moving" /\ handler.j \in 1..Len(handler.toMove) /\ ~RefStays
  BY DEF MoveForward, AtShift
<1>2. /\ handler \in Moving /\ handler.i \in Nat /\ handler.iRef \in Nat \cup {-1}
      /\ handler.toMove \in Seq(Nat) /\ Len(handler.toMove) \in Nat /\ handler.j \in Nat
      /\ handler.shift \in Int /\ handler.after \in BOOLEAN
  BY <1>1, MovingTyped
<1>3. handler.toMove[handler.j] \in Nat
  BY <1>1, <1>2
<1> DEFINE r == handler.toMove[handler.j] + handler.shift
           a == IF handler.after THEN handler.iRef + 1 ELSE handler.iRef
           d == downloads[r + 1]
<1>4. /\ handler.toMove[handler.j] >= handler.j - 1 /\ handler.toMove[handler.j] <= handler.i
      /\ handler.i < Len(downloads) /\ handler.shift <= 0 /\ handler.shift >= 1 - handler.j
      /\ handler.iRef = handler.i \/ (~handler.after /\ handler.iRef = handler.i + 1)
  <2>1. MoveWithin
    BY DEF HandlerOK
  <2>2. handler.j > 0 /\ handler.j \in DOMAIN handler.toMove
    BY ONLY <1>1, <1>2, \A x \in Seq(Nat) : DOMAIN x = 1..Len(x)
  <2> QED
    BY ONLY <1>1, <2>1, <2>2 DEF MoveWithin
<1>5. ~handler.after => handler.toMove[handler.j] # handler.iRef
  BY <1>1 DEF RefStays
<1>6. a \in 0..Len(downloads) /\ r \in 0..a - 1
  <2>1. r \in Nat /\ r <= handler.toMove[handler.j]
    <3>1. PICK n \in Nat : n = handler.toMove[handler.j]
      BY <1>3
    <3>2. PICK h \in Int : h = handler.shift
      BY <1>2
    <3>3. PICK j \in Nat : j = handler.j
      BY <1>2
    <3>4. n >= j - 1 /\ h <= 0 /\ h >= 1 - j
      BY <1>4, <3>1, <3>2, <3>3
    <3>5. n + h \in Nat /\ n + h <= n
      BY <3>4
    <3> QED
      BY <3>1, <3>2, <3>5
  <2>2. handler.after => a = handler.i + 1
    BY <1>4
  <2>3. ~handler.after => a = handler.iRef
    OBVIOUS
  <2> HIDE DEF a, r
  <2>4. PICK n \in Nat : n = handler.toMove[handler.j]
    BY <1>3
  <2>5. r <= n /\ n <= handler.i /\ handler.i + 1 <= Len(downloads)
    BY <1>0, <1>2, <1>4, <2>1, <2>4
  <2>6. handler.i \in Nat /\ handler.iRef \in Nat \cup {-1}
    BY <1>2
  <2>7. CASE handler.after
    <3>1. a \in Nat /\ a <= Len(downloads) /\ r < a
      BY ONLY <1>0, <2>1, <2>2, <2>5, <2>7, <2>6
    <3> QED
      BY <1>0, <2>1, <3>1
  <2>8. CASE ~handler.after
    <3>1. handler.iRef = handler.i + 1 \/ (handler.iRef = handler.i /\ n # handler.i)
      BY <1>4, <1>5, <2>4, <2>8
    <3>2. a \in Nat /\ a <= Len(downloads) /\ r < a
      BY ONLY <1>0, <2>1, <2>3, <2>5, <2>8, <2>6, <3>1
    <3> QED
      BY <1>0, <2>1, <3>2
  <2> QED
    BY <2>7, <2>8
<1>7. d \in Downloads /\ d = At(downloads, r)
  BY <1>0, <1>6, PositionTyped DEF At
<1>8. downloads' = Removed(Inserted(downloads, a, d), r) /\ markers' = MarkersMove(a, r, d)
  BY DEF MoveForward, MoveOne
<1>9. UNCHANGED status
  BY DEF MoveForward
<1> HIDE DEF a, d, r
<1>10. Marked(downloads', status, MarkersMove(a, r, d)) /\ Len(downloads') = Len(downloads)
  BY <1>6, <1>7, <1>8, ForwardMarked DEF QueueOK
<1>11. QueueOK'
  BY <1>8, <1>9, <1>10 DEF QueueOK
<1>12. handler' = [handler EXCEPT !.j = handler.j + 1, !.shift = handler.shift - 1]
  BY DEF MoveForward
<1>13. handler' \in Moving
  <2>1. handler.j + 1 \in Nat /\ handler.shift - 1 \in Int
    BY <1>2
  <2> QED
    BY <1>2, <1>12, <2>1 DEF Moving
<1>14. /\ handler'.i = handler.i /\ handler'.iRef = handler.iRef /\ handler'.toMove = handler.toMove
       /\ handler'.j = handler.j + 1 /\ handler'.shift = handler.shift - 1
       /\ handler'.after = handler.after
  BY <1>2, <1>12 DEF Moving
<1>15. MoveWithin'
  <2>1. \A k \in DOMAIN handler.toMove :
          handler.toMove[k] >= k - 1 /\ handler.toMove[k] <= handler.i
    BY <1>1 DEF HandlerOK, MoveWithin
  <2>2. handler.j \in Nat /\ handler.shift \in Int /\ handler.i \in Nat
    BY <1>2
  <2>3. /\ handler'.shift >= 1 - handler'.j /\ handler'.shift <= 0
        /\ handler'.j > 0 /\ handler'.j # 0
    BY ONLY <1>4, <1>14, <2>2
  <2>4. handler'.i < Len(downloads') /\ handler'.i <= Len(downloads')
    BY ONLY <1>0, <1>4, <1>10, <1>14, <2>2
  <2> QED
    BY ONLY <1>4, <1>14, <2>1, <2>3, <2>4 DEF MoveWithin
<1> QED
  BY <1>11, <1>13, <1>15, MovingKeeps DEF MoveForward

LEMMA MoveLooksOK ==
  ASSUME IInv, MoveLooks
  PROVE  IInv'
<1> USE DEF IInv
<1>0. downloads \in Seq(Downloads) /\ Len(downloads) \in Nat
  BY DEF QueueOK, Marked
<1>1. handler.kind = "moving" /\ handler.j = 0 /\ handler.i < Len(downloads)
  BY DEF MoveLooks, AtTurn
<1>2. /\ handler \in Moving /\ handler.i \in Nat /\ handler.iRef \in Nat \cup {-1}
      /\ handler.toMove \in Seq(Nat) /\ Len(handler.toMove) \in Nat /\ handler.after \in BOOLEAN
  BY <1>1, MovingTyped
<1> DEFINE d == downloads[handler.i + 1]
           listed == IF d \in handler.ids THEN Append(handler.toMove, handler.i)
                                          ELSE handler.toMove
<1>3. d \in Downloads
  <2>1. handler.i \in 0..Len(downloads) - 1
    BY <1>0, <1>1, <1>2
  <2> QED
    BY <1>0, <2>1, PositionTyped DEF At
<1>4. /\ Len(handler.toMove) <= handler.i
      /\ \A k \in DOMAIN handler.toMove :
           handler.toMove[k] >= k - 1 /\ handler.toMove[k] < handler.i
      /\ handler.iRef <= handler.i /\ (handler.after => handler.iRef < handler.i)
  BY <1>1, <1>2 DEF HandlerOK, MoveWithin
<1>5. /\ listed \in Seq(Nat) /\ Len(listed) \in Nat /\ Len(listed) <= handler.i + 1
      /\ \A k \in DOMAIN listed : listed[k] \in Nat /\ listed[k] >= k - 1 /\ listed[k] <= handler.i
  <2>1. CASE listed = handler.toMove
    <3>1. ASSUME NEW k \in DOMAIN handler.toMove
          PROVE  /\ handler.toMove[k] \in Nat /\ handler.toMove[k] >= k - 1
                 /\ handler.toMove[k] <= handler.i
      <4>1. handler.toMove[k] \in Nat
        BY <1>2
      <4> QED
        BY <1>2, <1>4, <4>1
    <3>2. Len(handler.toMove) <= handler.i + 1
      BY <1>2, <1>4
    <3> QED
      BY <1>2, <2>1, <3>1, <3>2
  <2>2. CASE listed = Append(handler.toMove, handler.i)
    <3>1. /\ Append(handler.toMove, handler.i) \in Seq(Nat)
          /\ Len(Append(handler.toMove, handler.i)) = Len(handler.toMove) + 1
          /\ \A k \in 1..Len(handler.toMove) :
               Append(handler.toMove, handler.i)[k] = handler.toMove[k]
          /\ Append(handler.toMove, handler.i)[Len(handler.toMove) + 1] = handler.i
      BY <1>2, AppendProperties
    <3> HIDE DEF listed
    <3>2. Len(listed) \in Nat /\ Len(listed) <= handler.i + 1
      BY <1>2, <1>4, <2>2, <3>1
    <3>3. ASSUME NEW k \in 1..Len(handler.toMove) + 1
          PROVE  listed[k] \in Nat /\ listed[k] >= k - 1 /\ listed[k] <= handler.i
      <4>1. CASE k \in 1..Len(handler.toMove)
        <5>1. listed[k] = handler.toMove[k] /\ handler.toMove[k] \in Nat
          BY <1>2, <2>2, <3>1, <4>1
        <5> QED
          BY <1>2, <1>4, <4>1, <5>1
      <4>2. CASE k = Len(handler.toMove) + 1
        <5>1. listed[k] = handler.i /\ k - 1 <= handler.i
          BY <1>2, <1>4, <2>2, <3>1, <4>2
        <5> QED
          BY <1>2, <5>1
      <4> QED
        BY <1>2, <4>1, <4>2
    <3>4. DOMAIN listed = 1..Len(handler.toMove) + 1
      BY <2>2, <3>1
    <3> QED
      BY <2>2, <3>1, <3>2, <3>3, <3>4
  <2> QED
    BY <2>1, <2>2
<1> HIDE DEF listed
<1>6. CASE handler' = [handler EXCEPT !.toMove = listed, !.ref = d, !.iRef = handler.i,
                                      !.j = 1, !.shift = 0]
  <2> HIDE DEF d
  <2>1. handler' \in Moving
    <3>1. handler.i \in Nat \cup {-1} /\ 1 \in Nat /\ 0 \in Int /\ d \in Downloads \cup {NoRef}
      BY <1>2, <1>3
    <3> QED
      BY <1>2, <1>5, <1>6, <3>1 DEF Moving
  <2>2. /\ handler'.i = handler.i /\ handler'.iRef = handler.i /\ handler'.toMove = listed
        /\ handler'.j = 1 /\ handler'.shift = 0
    BY <1>2, <1>6 DEF Moving
  <2>3. MoveWithin'
    BY <1>0, <1>1, <1>2, <1>5, <2>2 DEF MoveWithin, MoveLooks
  <2> QED
    BY <2>1, <2>3, MovingKeeps, QueueFrame DEF MoveLooks
<1>7. CASE handler' = [handler EXCEPT !.toMove = listed, !.i = handler.i + 1,
                         !.left = IF handler.ref = NoRef THEN handler.left \ {d} ELSE handler.left]
  <2> DEFINE rest == IF handler.ref = NoRef THEN handler.left \ {d} ELSE handler.left
  <2>1. rest \in SUBSET Downloads /\ handler.i + 1 \in Nat
    BY <1>2 DEF Moving
  <2> HIDE DEF rest
  <2>2. handler' = [handler EXCEPT !.toMove = listed, !.i = handler.i + 1, !.left = rest]
    BY <1>7 DEF rest
  <2>3. handler' \in Moving
    BY <1>2, <1>5, <2>1, <2>2 DEF Moving
  <2>4. /\ handler'.i = handler.i + 1 /\ handler'.iRef = handler.iRef
        /\ handler'.toMove = listed /\ handler'.j = 0 /\ handler'.after = handler.after
    BY <1>1, <1>2, <2>2 DEF Moving
  <2>5. /\ handler.i + 1 <= Len(downloads)
        /\ handler.iRef <= handler.i + 1 /\ (handler.after => handler.iRef < handler.i + 1)
    BY <1>0, <1>1, <1>2, <1>4
  <2>6. \A k \in DOMAIN listed :
          listed[k] >= k - 1 /\ listed[k] <= handler.i + 1 /\ listed[k] < handler.i + 1
    BY <1>2, <1>5
  <2>7. UNCHANGED downloads
    BY DEF MoveLooks
  <2>8. MoveWithin'
    BY <1>5, <2>4, <2>5, <2>6, <2>7 DEF MoveWithin
  <2> QED
    BY <2>3, <2>8, MovingKeeps, QueueFrame DEF MoveLooks
<1> QED
  BY <1>6, <1>7 DEF MoveLooks, listed

LEMMA MoveKeepsRefOK ==
  ASSUME IInv, MoveKeepsRef
  PROVE  IInv'
<1> USE DEF IInv
<1>1. /\ handler.kind = "moving" /\ handler.j \in 1..Len(handler.toMove)
      /\ ~handler.after /\ handler.toMove[handler.j] = handler.iRef
  BY DEF MoveKeepsRef, AtShift, RefStays
<1>2. /\ handler \in Moving /\ handler.i \in Nat /\ handler.iRef \in Nat \cup {-1}
      /\ handler.toMove \in Seq(Nat) /\ Len(handler.toMove) \in Nat /\ handler.j \in Nat
      /\ handler.shift \in Int
  BY <1>1, MovingTyped
<1>3. /\ handler.toMove[handler.j] <= handler.i
      /\ handler.i < Len(downloads) /\ handler.shift <= 0 /\ handler.shift >= 1 - handler.j
      /\ handler.iRef = handler.i \/ handler.iRef = handler.i + 1
      /\ \A k \in DOMAIN handler.toMove :
           handler.toMove[k] >= k - 1 /\ handler.toMove[k] <= handler.i
  BY <1>1, <1>2 DEF HandlerOK, MoveWithin
<1>4. handler.iRef = handler.i
  BY <1>1, <1>2, <1>3
<1>5. handler' = [handler EXCEPT !.j = handler.j + 1, !.iRef = handler.iRef + 1]
  BY DEF MoveKeepsRef
<1>6. handler' \in Moving
  <2>1. handler.j + 1 \in Nat /\ handler.iRef + 1 \in Nat \cup {-1}
    BY <1>2
  <2> QED
    BY <1>2, <1>5, <2>1 DEF Moving
<1>7. /\ handler'.i = handler.i /\ handler'.iRef = handler.i + 1 /\ handler'.toMove = handler.toMove
      /\ handler'.j = handler.j + 1 /\ handler'.shift = handler.shift /\ ~handler'.after
  BY <1>1, <1>2, <1>4, <1>5 DEF Moving
<1>8. UNCHANGED downloads
  BY DEF MoveKeepsRef
<1>9. handler.shift >= 1 - (handler.j + 1) /\ handler.j + 1 > 0 /\ handler.j + 1 # 0
      /\ handler.i <= Len(downloads)
  <2>1. Len(downloads) \in Nat
    BY DEF QueueOK, Marked
  <2>2. handler.j \in Nat /\ handler.i \in Nat /\ handler.shift \in Int
    BY <1>2
  <2>3. handler.i < Len(downloads) /\ handler.shift >= 1 - handler.j
    BY <1>3
  <2> QED
    BY ONLY <2>1, <2>2, <2>3
<1>10. MoveWithin'
  BY <1>3, <1>7, <1>8, <1>9 DEF MoveWithin
<1> QED
  BY <1>6, <1>10, MovingKeeps, QueueFrame DEF MoveKeepsRef

LEMMA ShiftEndsOK ==
  ASSUME IInv, ShiftEnds
  PROVE  IInv'
<1> USE DEF IInv
<1>1. handler.kind = "moving" /\ handler.j > Len(handler.toMove)
  BY DEF ShiftEnds
<1>2. /\ handler \in Moving /\ handler.i \in Nat /\ handler.iRef \in Nat \cup {-1}
      /\ handler.toMove \in Seq(Nat) /\ Len(handler.toMove) \in Nat /\ handler.j \in Nat
      /\ handler.after \in BOOLEAN
  BY <1>1, MovingTyped
<1>3. /\ handler.i < Len(downloads)
      /\ handler.iRef = handler.i \/ (~handler.after /\ handler.iRef = handler.i + 1)
  BY <1>1, <1>2 DEF HandlerOK, MoveWithin
<1>4. handler' = [handler EXCEPT !.toMove = <<>>, !.j = 0, !.i = handler.i + 1]
  BY DEF ShiftEnds
<1>5. handler' \in Moving
  <2>1. handler.i + 1 \in Nat /\ <<>> \in Seq(Nat) /\ 0 \in Nat
    BY <1>2
  <2> QED
    BY <1>2, <1>4, <2>1 DEF Moving
<1>6. /\ handler'.i = handler.i + 1 /\ handler'.iRef = handler.iRef /\ handler'.toMove = <<>>
      /\ handler'.j = 0 /\ handler'.after = handler.after
  BY <1>2, <1>4 DEF Moving
<1>7. UNCHANGED downloads
  BY DEF ShiftEnds
<1>8. /\ handler.i + 1 <= Len(downloads) /\ handler.iRef <= handler.i + 1
      /\ (handler.after => handler.iRef < handler.i + 1)
      /\ Len(<<>>) <= handler.i + 1 /\ DOMAIN <<>> = {}
  BY <1>2, <1>3 DEF QueueOK, Marked
<1>9. MoveWithin'
  BY <1>6, <1>7, <1>8 DEF MoveWithin
<1> QED
  BY <1>5, <1>9, MovingKeeps, QueueFrame DEF ShiftEnds

LEMMA MovingSteps ==
  ASSUME IInv,
         \/ \E ids, refs \in Selections, after \in BOOLEAN : Move(ids, refs, after)
         \/ MoveBack \/ MoveLooks \/ MoveForward \/ MoveKeepsRef \/ ShiftEnds \/ MoveEnds
  PROVE  IInv'
<1>1. CASE \E ids, refs \in Selections, after \in BOOLEAN : Move(ids, refs, after)
  <2>1. Selections \subseteq SUBSET Downloads
    BY DEF Selections
  <2> QED
    BY <1>1, <2>1, MoveStarts
<1>2. CASE MoveEnds
  BY <1>2, NoIndices, QueueFrame DEF MoveEnds, IInv, RestOK, errors
<1> QED
  BY <1>1, <1>2, MoveBackOK, MoveLooksOK, MoveForwardOK, MoveKeepsRefOK, ShiftEndsOK

(* A scan skips what does not satisfy its predicate. *)
LEMMA ScanOK ==
  ASSUME IInv, NEW P \in Predicates, Scan(P)
  PROVE  IInv'
<1> USE DEF IInv
<1>0. downloads \in Seq(Downloads) /\ Len(downloads) \in Nat
  BY DEF QueueOK, Marked
<1> DEFINE from == IF P \in DOMAIN markers THEN markers[P] ELSE 0
<1>1. PICK to \in from..Len(downloads) :
        /\ \A p \in from..to - 1 :
             ~Satisfies(downloads[p + 1], status[downloads[p + 1]], P)
        /\ markers' = [Q \in DOMAIN markers \cup {P} |-> IF Q = P THEN to ELSE markers[Q]]
  BY DEF Scan
<1>2. from \in 0..Len(downloads)
  BY <1>0 DEF QueueOK, Marked
<1>3. \A q \in 0..from - 1 : ~Satisfies(At(downloads, q), status[At(downloads, q)], P)
  <2>1. CASE P \in DOMAIN markers
    BY <2>1 DEF QueueOK, Marked
  <2>2. CASE P \notin DOMAIN markers
    BY <2>2
  <2> QED
    BY <2>1, <2>2
<1> HIDE DEF from
<1>4. to \in 0..Len(downloads)
  BY <1>0, <1>2
<1>5. ASSUME NEW q \in 0..to - 1
      PROVE  ~Satisfies(At(downloads, q), status[At(downloads, q)], P)
  <2>1. q \in 0..from - 1 \/ q \in from..to - 1
    BY <1>2, <1>4
  <2> QED
    BY <1>1, <1>3, <2>1 DEF At
<1>6. UNCHANGED <<downloads, status>>
  BY DEF Scan
<1>7. DOMAIN markers' \subseteq Predicates
  BY <1>1 DEF QueueOK, Marked
<1>8. \A Q \in DOMAIN markers' :
        /\ markers'[Q] \in 0..Len(downloads)
        /\ \A q \in 0..markers'[Q] - 1 : ~Satisfies(At(downloads, q), status[At(downloads, q)], Q)
  <2>1. TAKE Q \in DOMAIN markers'
  <2>2. CASE Q = P
    BY <1>1, <1>4, <1>5, <2>2
  <2>3. CASE Q # P
    <3>1. Q \in DOMAIN markers /\ markers'[Q] = markers[Q]
      BY <1>1, <2>3
    <3> QED
      BY <3>1 DEF QueueOK, Marked
  <2> QED
    BY <2>2, <2>3
<1>9. QueueOK'
  BY <1>6, <1>7, <1>8 DEF QueueOK, Marked
<1>10. HandlerOK'
  BY <1>6 DEF Scan, HandlerOK, RemovalWithin, MoveWithin
<1> QED
  BY <1>9, <1>10 DEF Scan, RestOK, errors, storage

(* Statuses: a download of the queue that is live or erroneous changes.    *)
LEMMA HandlerFrame ==
  ASSUME IInv, UNCHANGED <<handler, downloads>>
  PROVE  HandlerOK'
BY DEF IInv, HandlerOK, RemovalWithin, MoveWithin

LEMMA StatusSteps ==
  ASSUME IInv, NEW d \in Downloads,
         \/ PauseOrHash(d) \/ FileReset(d)
         \/ \E st \in {"live", "erroneous", "complete"} : StatusChanges(d, st)
         \/ \E p \in Places : FileCreated(d, p)
  PROVE  IInv'
<1> USE DEF IInv
<1>1. CASE PauseOrHash(d)
  <2>1. PICK st \in {"live", status[d]} : status' = [status EXCEPT ![d] = st]
    BY <1>1 DEF PauseOrHash
  <2>2. st \in Statuses /\ status[d] \notin {"complete", "deleted"}
    BY <1>1 DEF PauseOrHash, Statuses
  <2>3. Marked(downloads, status', markers)
    BY <2>1, <2>2, StillMarked DEF QueueOK
  <2> QED
    BY <1>1, <2>3, HandlerFrame DEF PauseOrHash, QueueOK, RestOK, errors
<1>2. CASE FileReset(d)
  <2>1. status[d] \notin {"complete", "deleted"} /\ SetStatus(d, "erroneous")
    BY <1>2 DEF FileReset
  <2>2. "erroneous" \in Statuses
    BY DEF Statuses
  <2>3. /\ Marked(downloads, status', markers)
        /\ erroneous' \in Seq(Downloads) /\ timer' \in BOOLEAN
    BY <2>1, <2>2, StatusKeeps
  <2> QED
    BY <1>2, <2>3, HandlerFrame DEF FileReset, QueueOK, RestOK, storage
<1>3. ASSUME NEW st \in {"live", "erroneous", "complete"}, StatusChanges(d, st)
      PROVE  IInv'
  <2>1. status[d] \notin {"complete", "deleted"} /\ SetStatus(d, st) /\ st \in Statuses
    BY <1>3 DEF StatusChanges, Statuses
  <2>2. /\ Marked(downloads, status', markers)
        /\ erroneous' \in Seq(Downloads) /\ timer' \in BOOLEAN
    BY <2>1, StatusKeeps
  <2> QED
    BY <1>3, <2>2, HandlerFrame DEF StatusChanges, QueueOK, RestOK, storage
<1>4. ASSUME NEW p \in Places, FileCreated(d, p)
      PROVE  IInv'
  BY <1>4, HandlerFrame, QueueFrame DEF FileCreated, RestOK, errors, storage
<1> QED
  BY <1>1, <1>2, <1>3, <1>4

LEMMA RestartSteps ==
  ASSUME IInv, (\E k \in 1..MaxListed : Restart(k)) \/ RestartNone
  PROVE  IInv'
<1> USE DEF IInv
<1>1. ASSUME NEW k \in 1..MaxListed, Restart(k)
      PROVE  IInv'
  <2> DEFINE d == erroneous[k]
             rest == SubSeq(erroneous, k + 1, Len(erroneous))
  <2>1. k \in DOMAIN erroneous /\ erroneous \in Seq(Downloads) /\ status[d] = "erroneous"
    BY <1>1 DEF Restart, RestOK
  <2>2. d \in Downloads /\ rest \in Seq(Downloads)
    BY <2>1, ErrorsCut
  <2>3. Append(rest, d) \in Seq(Downloads)
    BY <2>2
  <2>4. PICK st \in Outcomes(d) : /\ status' = [status EXCEPT ![d] = st]
                                  /\ erroneous' = rest \/ erroneous' = Append(rest, d)
    BY <1>1 DEF Restart
  <2> HIDE DEF d, rest
  <2>5. st \in Statuses
    BY <2>2, OutcomesTyped
  <2>6. Marked(downloads, status', markers)
    BY <2>1, <2>2, <2>4, <2>5, StillMarked DEF QueueOK
  <2>7. erroneous' \in Seq(Downloads)
    BY <2>2, <2>3, <2>4
  <2> QED
    BY <1>1, <2>6, <2>7, HandlerFrame DEF Restart, QueueOK, RestOK, storage
<1>2. CASE RestartNone
  <2>1. <<>> \in Seq(Downloads)
    OBVIOUS
  <2> QED
    BY <1>2, <2>1, HandlerFrame, QueueFrame DEF RestartNone, RestOK, storage
<1> QED
  BY <1>1, <1>2

LEMMA StorageSteps ==
  ASSUME IInv, Save \/ Quit \/ Crash
  PROVE  IInv'
<1> USE DEF IInv
<1>1. Contents \in Seq(Entries)
  <2>1. downloads \in Seq(Downloads)
    BY DEF QueueOK, Marked
  <2>2. Len(downloads) \in Nat /\ DOMAIN downloads = 1..Len(downloads)
        /\ \A i \in 1..Len(downloads) : downloads[i] \in Downloads
    BY <2>1
  <2>3. \A d \in Downloads : Entry(d) \in Entries
    BY DEF Entry, Entries, RestOK
  <2>4. \A i \in 1..Len(downloads) : Entry(downloads[i]) \in Entries
    BY <2>2, <2>3
  <2>5. [i \in 1..Len(downloads) |-> Entry(downloads[i])] \in Seq(Entries)
    BY <2>2, <2>4
  <2> QED
    BY <2>2, <2>5 DEF Contents
<1>2. CASE Save
  BY <1>1, <1>2, HandlerFrame, QueueFrame DEF Save, RestOK, errors
<1>3. CASE Quit \/ Crash
  <2>1. StartAgain /\ saved' \in Seq(Entries)
    BY <1>1, <1>3 DEF Quit, Crash, RestOK
  <2>2. QueueOK'
    BY <2>1 DEF StartAgain, QueueOK, Marked, Statuses
  <2>3. HandlerOK'
    BY <2>1, NoIndices DEF StartAgain
  <2>4. <<>> \in Seq(Downloads) /\ [x \in Downloads |-> NoPlace] \in [Downloads -> Places \cup {NoPlace}]
    OBVIOUS
  <2>5. RestOK'
    BY <2>1, <2>4 DEF StartAgain, RestOK
  <2> QED
    BY <2>2, <2>3, <2>5
<1> QED
  BY <1>2, <1>3

LEMMA StepOK == IInv /\ [Next]_vars => IInv'
<1> SUFFICES ASSUME IInv, [Next]_vars PROVE IInv'
  OBVIOUS
<1>1. CASE UNCHANGED vars
  BY <1>1, HandlerFrame, QueueFrame DEF vars, errors, storage, IInv, RestOK
<1>2. CASE Next
  BY <1>2, EnteringSteps, RemovingSteps, MovingSteps, ScanOK, StatusSteps, RestartSteps,
     StorageSteps DEF Next
<1> QED
  BY <1>1, <1>2

LEMMA Invariant == Spec => []IInv
BY InitOK, StepOK, PTL DEF Spec

-----------------------------------------------------------------------------
(* The theorems.                                                           *)

(* The state is well typed and no marker is ever beyond the end of the     *)
(* queue, in the middle of the loops of a move too.                        *)
THEOREM TypeCorrect == Spec => []TypeOK
<1>1. IInv => TypeOK
  BY DEF IInv, QueueOK, HandlerOK, RestOK, Marked, Statuses, TypeOK
<1> QED
  BY <1>1, Invariant, PTL

(* Whatever the downloads, the predicates and the commands: a scan that    *)
(* starts at its marker misses nothing.                                    *)
THEOREM MarkersSound == Spec => []MarkersSkipNothing
<1>1. IInv => MarkersSkipNothing
  BY DEF IInv, QueueOK, Marked, At, MarkersSkipNothing
<1> QED
  BY <1>1, Invariant, PTL

(* The list of the errors only grows by setStatus, which starts the timer, *)
(* and the timer only stops when the list is emptied.                      *)
LEMMA ListedStep == ListedIsTimed /\ [Next]_vars => ListedIsTimed'
<1> SUFFICES ASSUME ListedIsTimed, [Next]_vars PROVE ListedIsTimed'
  OBVIOUS
<1> USE DEF ListedIsTimed
<1>1. ASSUME NEW d, NEW st, SetStatus(d, st) PROVE ListedIsTimed'
  BY <1>1 DEF SetStatus, errors
<1>2. ASSUME NEW d, ForgetErroneous(d), UNCHANGED timer PROVE ListedIsTimed'
  <2>1. CASE UNCHANGED erroneous
    BY <1>2, <2>1
  <2>2. CASE \E k \in DOMAIN erroneous : TRUE
    BY <1>2, <2>2
  <2> QED
    BY <1>2, <2>1, <2>2 DEF ForgetErroneous
<1>3. ASSUME NEW e, NEW p, NEW l, AddDownload(e, p, l) PROVE ListedIsTimed'
  BY <1>1, <1>3 DEF AddDownload, errors
<1>4. CASE UNCHANGED vars
  BY <1>4 DEF vars, errors
<1>5. CASE \/ \E n \in Asked, p \in Destinations : UserAdds(n, p)
           \/ Enter
  BY <1>3, <1>5 DEF UserAdds, Enter
<1>6. CASE \/ \E d \in Dirs : \E l \in Listings[NameOf[d]] : NewEntries(d, l)
           \/ RemoveOne
  BY <1>2, <1>6 DEF NewEntries, RemoveOne
<1>7. CASE \/ \E d \in Downloads : FileReset(d)
           \/ \E d \in Downloads, st \in {"live", "erroneous", "complete"} : StatusChanges(d, st)
  BY <1>1, <1>7 DEF FileReset, StatusChanges
<1>8. CASE (\E k \in 1..MaxListed : Restart(k)) \/ RestartNone
  BY <1>8 DEF Restart, RestartNone
<1>9. CASE Quit \/ Crash
  BY <1>9 DEF Quit, Crash, StartAgain
<1>10. CASE \/ LoadQueue \/ EnterSkips \/ SecondPass \/ EnterEnds
            \/ RemoveSome \/ RemoveComplete \/ RemoveSkips \/ RemoveEnds
  BY <1>10 DEF LoadQueue, EnterSkips, SecondPass, EnterEnds, RemoveSome, RemoveComplete,
               RemoveDownloads, RemoveSkips, RemoveEnds, errors
<1>11. CASE \/ \E ids, refs \in Selections, after \in BOOLEAN : Move(ids, refs, after)
            \/ MoveBack \/ MoveLooks \/ MoveForward \/ MoveKeepsRef \/ ShiftEnds \/ MoveEnds
  BY <1>11 DEF Move, MoveBack, MoveLooks, MoveForward, MoveKeepsRef, ShiftEnds, MoveEnds, errors
<1>12. CASE \/ \E P \in Predicates : Scan(P)
            \/ \E d \in Downloads : PauseOrHash(d)
            \/ \E d \in Downloads, p \in Places : FileCreated(d, p)
            \/ Save
  BY <1>12 DEF Scan, PauseOrHash, FileCreated, Save, errors
<1> QED
  BY <1>4, <1>5, <1>6, <1>7, <1>8, <1>9, <1>10, <1>11, <1>12 DEF Next

(* A download that is erroneous and listed will be looked at again.        *)
THEOREM ListedTimed == Spec => []ListedIsTimed
<1>1. Init => ListedIsTimed
  BY DEF Init, ListedIsTimed
<1> QED
  BY <1>1, ListedStep, PTL DEF Spec

-----------------------------------------------------------------------------
(* The queue file.                                                         *)

CurrentAs(s) == Names(saved) = [i \in DOMAIN s |-> NameOf[s[i]]]
Settled == queueLoaded /\ ~queueChanged /\ ~unsaved

(* Before the queue is loaded only an empty one is unchanged; a handler    *)
(* that has not told its change yet shows it by the length of the queue.   *)
SavedInv ==
  /\ ~queueLoaded /\ ~queueChanged => downloads = <<>>
  /\ Loading => /\ ~queueLoaded /\ handler.entries = saved
                /\ ~queueChanged => handler.n = 1
  /\ Settled /\ MainIdle => CurrentAs(downloads)
  /\ Settled /\ handler.kind = "entering" => Len(downloads) < Len(handler.before)
  /\ Settled /\ handler.kind = "removing" =>
       /\ Len(downloads) <= Len(handler.before)
       /\ Len(downloads) = Len(handler.before) => CurrentAs(downloads)

LEMMA ContentsNamed == IInv => Names(Contents) = [i \in DOMAIN downloads |-> NameOf[downloads[i]]]
<1>1. DOMAIN Contents = DOMAIN downloads
      /\ \A i \in DOMAIN downloads : Contents[i].name = NameOf[downloads[i]]
  BY DEF Contents, Entry
<1> QED
  BY <1>1 DEF Names

(* A step that leaves the handler, the flags and the file alone, and the   *)
(* order of the downloads.                                                 *)
LEMMA SavedFrame ==
  ASSUME SavedInv, UNCHANGED <<downloads, storage, handler>>
  PROVE  SavedInv'
BY DEF SavedInv, storage, CurrentAs, Names, Settled, Loading, MainIdle

(* A change that is told. *)
LEMMA SavedTold ==
  ASSUME queueChanged' = TRUE, handler' = Idle \/ (SavedInv /\ UNCHANGED <<handler, queueLoaded, saved>>)
  PROVE  SavedInv'
BY DEF SavedInv, Settled, Loading, MainIdle, Idle

LEMMA SavedStep == IInv /\ SavedInv /\ [Next]_vars => SavedInv'
<1> SUFFICES ASSUME IInv, SavedInv, [Next]_vars PROVE SavedInv'
  OBVIOUS
<1>0. downloads \in Seq(Downloads) /\ Len(downloads) \in Nat /\ handler \in Handlers
  BY DEF IInv, QueueOK, Marked, HandlerOK
<1>1. CASE UNCHANGED vars
  BY <1>1, SavedFrame DEF vars
<1>2. CASE \/ \E P \in Predicates : Scan(P)
           \/ \E d \in Downloads : FileReset(d)
           \/ \E d \in Downloads, st \in {"live", "erroneous", "complete"} : StatusChanges(d, st)
           \/ \E d \in Downloads, p \in Places : FileCreated(d, p)
           \/ \E k \in 1..MaxListed : Restart(k)
           \/ RestartNone
  BY <1>2, SavedFrame DEF Scan, FileReset, StatusChanges, FileCreated, Restart, RestartNone
<1>3. ASSUME NEW d \in Downloads, PauseOrHash(d) PROVE SavedInv'
  BY <1>0, <1>3, SavedTold, Shapes DEF PauseOrHash, MainIdle
<1>4. ASSUME NEW n \in Asked, NEW p \in Destinations, UserAdds(n, p) PROVE SavedInv'
  <2> DEFINE entry == [name |-> n, place |-> p]
  <2>1. AddDownload(entry, Len(downloads), FALSE) /\ MainIdle
        /\ UNCHANGED <<queueLoaded, saved, unsaved, handler>>
    BY <1>4 DEF UserAdds
  <2>2. CASE AlreadyQueued(entry)
    BY <2>1, <2>2, SavedFrame DEF AddDownload, storage
  <2>3. CASE ~AlreadyQueued(entry)
    <3>1. queueChanged' = TRUE
      BY <2>1, <2>3 DEF AddDownload
    <3> QED
      BY <2>1, <3>1, SavedTold DEF MainIdle
  <2> QED
    BY <2>2, <2>3
<1>5. ASSUME NEW d \in Dirs, NEW l \in Listings[NameOf[d]], NewEntries(d, l) PROVE SavedInv'
  <2> DEFINE position == PositionOf(d)
  <2>1. PICK k \in 1..Len(downloads) : downloads[k] = d
    BY <1>0, <1>5 DEF NewEntries, Queued, ToSet
  <2>2. PICK q \in 0..Len(downloads) - 1 : q + 1 = k
    BY <1>0, <2>1
  <2>3. position \in 0..Len(downloads) - 1
    BY <2>1, <2>2 DEF PositionOf
  <2>4. downloads' = Removed(downloads, position)
    BY <1>5 DEF NewEntries
  <2> HIDE DEF position
  <2>5. Len(downloads') = Len(downloads) - 1
    BY <1>0, <2>3, <2>4, RemovedElements
  <2>6. downloads # <<>>
    BY <1>0, <2>3
  <2>7. /\ handler'.kind = "entering" /\ handler'.pass = "files" /\ handler'.before = downloads
        /\ handler' # Idle
    BY <1>5 DEF NewEntries, Idle
  <2>8. ~queueLoaded' => queueChanged'
    BY <1>5, <2>6 DEF NewEntries, SavedInv, storage
  <2>9. Len(downloads') < Len(downloads)
    BY <1>0, <2>5
  <2>10. ~Loading' /\ ~MainIdle'
    BY <2>7 DEF Loading, MainIdle
  <2> QED
    BY <2>7, <2>8, <2>9, <2>10 DEF SavedInv
<1>6. CASE LoadQueue
  <2>1. /\ handler'.kind = "entering" /\ handler'.pass = "saved" /\ handler'.n = 1
        /\ handler'.entries = saved /\ ~queueLoaded
        /\ UNCHANGED <<downloads, queueLoaded, queueChanged, saved, unsaved>>
    BY <1>6 DEF LoadQueue, storage
  <2> QED
    BY <2>1 DEF SavedInv, Settled, MainIdle, Idle
<1>7. CASE Enter
  <2>1. handler \in Entering
    BY <1>0, <1>7, Shapes DEF Enter, AtEntry
  <2>2. /\ handler'.kind = "entering" /\ handler'.pass = handler.pass
        /\ handler'.entries = handler.entries /\ handler'.before = handler.before
        /\ handler'.n = handler.n + 1
        /\ UNCHANGED <<queueLoaded, saved, unsaved>>
    BY <1>7, <2>1 DEF Enter, Entering
  <2>3. Loading' <=> Loading
    BY <2>1, <2>2 DEF Loading, Entering
  <2>4. PICK position : AddDownload(handler.entries[handler.n], position, Loading)
    BY <1>7 DEF Enter
  <2>5. CASE queueChanged' = TRUE
    BY <2>2, <2>3, <2>5 DEF SavedInv, Settled, MainIdle, Idle
  <2>6. CASE queueChanged' # TRUE
    <3>1. AlreadyQueued(handler.entries[handler.n]) /\ UNCHANGED <<downloads, queueChanged>>
      BY <2>4, <2>6 DEF AddDownload
    <3>2. ~(Loading /\ ~queueChanged)
      <4>1. downloads # <<>>
        BY <3>1 DEF AlreadyQueued, Queued, ToSet
      <4> QED
        BY <4>1 DEF SavedInv
    <3> QED
      BY <2>1, <2>2, <2>3, <3>1, <3>2 DEF SavedInv, Settled, MainIdle, Idle, Entering
  <2> QED
    BY <2>5, <2>6
<1>8. CASE EnterSkips \/ SecondPass
  <2>1. handler \in Entering
    BY <1>0, <1>8, Shapes DEF EnterSkips, SecondPass, AtEntry
  <2>2. ~Loading
    BY <1>8 DEF EnterSkips, SecondPass, InPass, Loading
  <2>3. handler'.kind = "entering" /\ handler'.pass # "saved" /\ handler'.before = handler.before
    BY <1>8, <2>1, <2>2 DEF EnterSkips, SecondPass, Entering, Loading
  <2>4. UNCHANGED <<downloads, queueLoaded, queueChanged, saved, unsaved>>
    BY <1>8 DEF EnterSkips, SecondPass, storage
  <2> QED
    BY <2>1, <2>3, <2>4 DEF SavedInv, Settled, Loading, MainIdle, Idle, Entering
<1>9. CASE EnterEnds
  <2>1. handler \in Entering /\ handler' = Idle
    BY <1>0, <1>9, Shapes DEF EnterEnds
  <2>2. /\ handler.n > Len(handler.entries) /\ queueLoaded' = (queueLoaded \/ Loading)
        /\ unsaved' = (unsaved \/ Len(downloads) < Len(handler.before))
        /\ UNCHANGED <<downloads, queueChanged, saved>>
    BY <1>9 DEF EnterEnds
  <2>3. CASE Loading
    <3>1. CASE queueChanged
      BY <2>1, <2>2, <2>3, <3>1 DEF SavedInv, Settled, Loading, MainIdle, Idle
    <3>2. CASE ~queueChanged
      <4>1. downloads = <<>> /\ handler.entries = saved /\ handler.n = 1
        BY <2>3, <3>2 DEF SavedInv
      <4>2. saved \in Seq(Entries) /\ Len(saved) < 1
        BY <2>2, <4>1 DEF IInv, RestOK
      <4>3. saved = <<>>
        BY <4>2
      <4>4. CurrentAs(downloads)
        BY <4>1, <4>3 DEF CurrentAs, Names
      <4>5. CurrentAs(downloads)'
        BY <2>2, <4>4 DEF CurrentAs, Names
      <4> QED
        BY <2>1, <2>2, <2>3, <4>1, <4>5 DEF SavedInv, Settled, Loading, MainIdle, Idle
    <3> QED
      BY <3>1, <3>2 DEF IInv, RestOK
  <2>4. CASE ~Loading
    <3>1. ~Settled' /\ (queueLoaded' <=> queueLoaded)
      BY <2>1, <2>2, <2>4 DEF SavedInv, Settled, Entering
    <3> QED
      BY <2>1, <2>2, <3>1 DEF SavedInv, Loading, MainIdle, Idle
  <2> QED
    BY <2>3, <2>4
<1>10. CASE RemoveSome \/ RemoveComplete
  <2>1. /\ MainIdle /\ handler'.kind = "removing" /\ handler'.before = downloads
        /\ UNCHANGED <<downloads, queueLoaded, queueChanged, saved, unsaved>>
    BY <1>10 DEF RemoveSome, RemoveComplete, RemoveDownloads, storage
  <2> QED
    BY <1>0, <2>1 DEF SavedInv, Settled, Loading, MainIdle, Idle, CurrentAs, Names
<1>11. CASE RemoveSkips
  <2>1. handler \in Removing
    BY <1>0, <1>11, Shapes DEF RemoveSkips
  <2>2. /\ handler'.kind = "removing" /\ handler'.before = handler.before
        /\ UNCHANGED <<downloads, queueLoaded, queueChanged, saved, unsaved>>
    BY <1>11, <2>1 DEF RemoveSkips, storage, Removing
  <2> QED
    BY <1>11, <2>2 DEF RemoveSkips, SavedInv, Settled, Loading, MainIdle, Idle, CurrentAs, Names
<1>12. CASE RemoveOne
  <2>1. handler \in Removing /\ handler.position \in 0..Len(downloads) - 1
    BY <1>0, <1>12, Shapes DEF RemoveOne, Removing
  <2>2. Len(downloads') = Len(downloads) - 1 /\ downloads # <<>>
    BY <1>0, <1>12, <2>1, RemovedElements DEF RemoveOne
  <2>3. handler.kind = "removing" /\ UNCHANGED <<handler, queueLoaded, queueChanged, saved, unsaved>>
    BY <1>12 DEF RemoveOne, storage
  <2>4. Len(handler.before) \in Nat
    BY <2>1 DEF Removing
  <2>5. Settled => /\ Len(downloads') <= Len(handler.before)
                   /\ Len(downloads') # Len(handler.before)
    BY <1>0, <2>2, <2>3, <2>4 DEF SavedInv
  <2> QED
    BY <2>2, <2>3, <2>5 DEF SavedInv, Settled, Loading, MainIdle, Idle
<1>13. CASE RemoveEnds
  <2>1. handler \in Removing
    BY <1>0, <1>13, Shapes DEF RemoveEnds
  <2>2. /\ handler.kind = "removing" /\ handler' = Idle
        /\ queueChanged' = (queueChanged \/ Len(downloads) < Len(handler.before))
        /\ UNCHANGED <<downloads, queueLoaded, saved, unsaved>>
    BY <1>13 DEF RemoveEnds
  <2>3. Len(handler.before) \in Nat
    BY <2>1 DEF Removing
  <2>4. Settled' => Settled /\ Len(downloads) = Len(handler.before)
    <3> SUFFICES ASSUME Settled' PROVE Settled /\ Len(downloads) = Len(handler.before)
      OBVIOUS
    <3>1. Settled /\ ~(Len(downloads) < Len(handler.before))
      BY <2>2, Zenon DEF Settled
    <3>2. Len(downloads) <= Len(handler.before)
      BY <2>2, <3>1 DEF SavedInv
    <3> QED
      BY <1>0, <2>3, <3>1, <3>2
  <2>5. Settled' => CurrentAs(downloads)'
    BY <2>2, <2>4 DEF SavedInv, CurrentAs, Names
  <2> QED
    BY <2>2, <2>5 DEF SavedInv, Loading, MainIdle, Idle
<1>14. CASE \E ids, refs \in Selections, after \in BOOLEAN : Move(ids, refs, after)
  <2>1. MainIdle /\ handler'.kind = "moving" /\ UNCHANGED <<downloads, queueLoaded, queueChanged>>
    BY <1>14 DEF Move, storage
  <2> QED
    BY <2>1 DEF SavedInv, Loading, MainIdle, Idle
<1>15. CASE MoveLooks \/ MoveKeepsRef \/ ShiftEnds
  <2>1. handler \in Moving
    BY <1>0, <1>15, Shapes DEF MoveLooks, AtTurn, MoveKeepsRef, AtShift, ShiftEnds
  <2>2. handler'.kind = "moving" /\ UNCHANGED <<downloads, queueLoaded, queueChanged>>
    BY <1>15, <2>1 DEF MoveLooks, MoveKeepsRef, ShiftEnds, storage, Moving
  <2> QED
    BY <2>2 DEF SavedInv, Loading, MainIdle, Idle
<1>16. CASE MoveBack \/ MoveForward
  <2>1. handler \in Moving /\ IInv'
    BY <1>0, <1>16, Shapes, MoveBackOK, MoveForwardOK DEF MoveBack, AtTurn, MoveForward, AtShift
  <2>2. handler'.kind = "moving" /\ UNCHANGED <<queueLoaded, queueChanged>>
    BY <1>16, <2>1 DEF MoveBack, MoveForward, storage, Moving
  <2>3. downloads # <<>>
    <3>1. CASE MoveBack
      BY <2>1, <3>1 DEF MoveBack, AtTurn, Moving
    <3>2. CASE MoveForward
      <4>1. /\ handler.kind = "moving" /\ handler.j > 0 /\ handler.i \in Nat
        BY <2>1, <3>2 DEF MoveForward, AtShift, Moving
      <4>2. handler.i < Len(downloads)
        BY <4>1 DEF IInv, HandlerOK, MoveWithin
      <4> QED
        BY <4>1, <4>2
    <3> QED
      BY <1>16, <3>1, <3>2
  <2> QED
    BY <2>2, <2>3 DEF SavedInv, Loading, MainIdle, Idle
<1>17. CASE MoveEnds
  BY <1>17, SavedTold DEF MoveEnds
<1>18. CASE Save
  <2>1. /\ MainIdle /\ queueLoaded /\ UNCHANGED <<downloads, queueLoaded, handler>>
        /\ (saved' = Contents) \/ unsaved' = TRUE
    BY <1>18 DEF Save
  <2>2. Settled' => CurrentAs(downloads)'
    BY <2>1, ContentsNamed DEF Settled, CurrentAs, Names
  <2> QED
    BY <2>1, <2>2 DEF SavedInv, Loading, MainIdle, Idle
<1>19. CASE Quit \/ Crash
  BY <1>19 DEF Quit, Crash, StartAgain, SavedInv, Settled, Loading, Idle
<1> QED
  BY <1>1, <1>2, <1>3, <1>4, <1>5, <1>6, <1>7, <1>8, <1>9, <1>10, <1>11, <1>12, <1>13, <1>14,
     <1>15, <1>16, <1>17, <1>18, <1>19 DEF Next

(* At any moment between two handlers, what a killed program would find    *)
(* again is its queue, unless queueChanged or unsaved tells otherwise.     *)
THEOREM SavedCurrent == Spec => []SavedUnlessChanged
<1>1. Init => SavedInv
  BY DEF Init, SavedInv, Settled, Loading, Idle
<1>2. IInv /\ SavedInv => SavedUnlessChanged
  BY ContentsNamed DEF SavedInv, SavedUnlessChanged, Settled, CurrentAs
<1> QED
  BY <1>1, <1>2, SavedStep, Invariant, PTL DEF Spec

-----------------------------------------------------------------------------
(* The reload of the queue.                                                *)

NamedOnce(entries) ==
  \A k, l \in 1..Len(entries) : entries[k].name = entries[l].name => k = l
(* The list s has the names of the first n entries, and is these entries   *)
(* in their order when no name is there twice.                             *)
Restored(s, n, entries) ==
  /\ \A i \in 1..Len(s) : \E k \in 1..n : NameOf[s[i]] = entries[k].name
  /\ \A k \in 1..n : \E i \in 1..Len(s) : NameOf[s[i]] = entries[k].name
  /\ NamedOnce(entries) =>
       Len(s) = n /\ \A i \in 1..Len(s) : NameOf[s[i]] = entries[i].name
LoadInv ==
  Loading => /\ handler.entries = saved /\ handler.n - 1 <= Len(saved)
             /\ handler.before = <<>> => Restored(downloads, handler.n - 1, saved)

(* A turn of the loop: an entry already queued has the name of an earlier  *)
(* one, any other is appended.                                             *)
LEMMA RestoresOne ==
  ASSUME IInv, NEW n \in Nat, n < Len(saved), Restored(downloads, n, saved),
         AddDownload(saved[n + 1], Len(downloads), TRUE)
  PROVE  Restored(downloads', n + 1, saved)
<1> DEFINE s == downloads
           e == saved[n + 1]
<1>1. s \in Seq(Downloads) /\ Len(s) \in Nat /\ saved \in Seq(Entries) /\ Len(saved) \in Nat
  BY DEF IInv, QueueOK, Marked, RestOK
<1>2. n + 1 \in 1..Len(saved) /\ n + 1 \in Nat /\ \A k \in 1..n : k \in 1..n + 1 /\ k # n + 1 /\ k \in 1..Len(saved)
  BY <1>1
<1>3. CASE AlreadyQueued(e)
  <2>1. downloads' = downloads
    BY <1>3 DEF AddDownload
  <2>2. PICK i \in 1..Len(s) : NameOf[s[i]] = e.name
    <3>1. PICK d \in ToSet(downloads) : NameOf[d] = e.name
      BY <1>3 DEF AlreadyQueued, Queued
    <3> QED BY <1>1, <3>1 DEF ToSet
  <2>3. PICK h \in 1..n : NameOf[s[i]] = saved[h].name
    BY <2>2 DEF Restored
  <2>4. ~NamedOnce(saved)
    BY <1>2, <2>2, <2>3 DEF NamedOnce
  <2>5. \A k \in 1..n + 1 : k \in 1..n \/ k = n + 1
    OBVIOUS
  <2> HIDE DEF e
  <2>6. \A k \in 1..n + 1 : \E j \in 1..Len(s) : NameOf[s[j]] = saved[k].name
    BY <2>2, <2>5 DEF Restored, e
  <2>7. \A j \in 1..Len(s) : \E k \in 1..n + 1 : NameOf[s[j]] = saved[k].name
    BY <1>2 DEF Restored
  <2> QED BY <2>1, <2>4, <2>6, <2>7 DEF Restored
<1>4. CASE ~AlreadyQueued(e)
  <2>1. PICK d \in Downloads : NameOf[d] = e.name /\ downloads' = Inserted(s, Len(s), d)
    BY <1>4 DEF AddDownload
  <2> DEFINE t == Inserted(s, Len(s), d)
  <2>2. Len(t) = Len(s) + 1 /\ \A i \in 1..Len(s) + 1 : t[i] = IF i = Len(s) + 1 THEN d ELSE s[i]
    <3>1. PICK c \in 0..Len(s) : c = Len(s)
      BY <1>1
    <3>2. IsInserted(t, s, c, d)
      <4>1. c = IF Len(s) <= Len(s) THEN Len(s) ELSE Len(s)
        BY <3>1
      <4>2. Len(s) \in Nat /\ d \in Downloads /\ c \in 0..Len(s)
        BY <1>1
      <4> HIDE DEF s
      <4> QED BY <1>1, <4>1, <4>2, InsertedElements
    <3> HIDE DEF t
    <3>3. ASSUME NEW i \in 1..Len(s) + 1 PROVE t[i] = IF i = Len(s) + 1 THEN d ELSE s[i]
      <4>1. PICK q \in 0..Len(s) : q + 1 = i
        BY <1>1
      <4> QED BY <1>1, <3>1, <3>2, <4>1 DEF IsInserted, At
    <3> QED BY <3>2, <3>3 DEF IsInserted
  <2> HIDE DEF t, e
  <2>3. \A i \in 1..Len(s) : i \in 1..Len(t) /\ t[i] = s[i]
    BY <1>1, <2>2
  <2>4. Len(t) \in 1..Len(t) /\ t[Len(t)] = d
    BY <1>1, <2>2
  <2>5. \A i \in 1..Len(t) : i \in 1..Len(s) \/ i = Len(t)
    BY <1>1, <2>2
  <2>6. \A i \in 1..Len(t) : \E k \in 1..n + 1 : NameOf[t[i]] = saved[k].name
    <3> TAKE i \in 1..Len(t)
    <3>1. CASE i \in 1..Len(s)
      <4>1. PICK k \in 1..n : NameOf[s[i]] = saved[k].name
        BY <3>1 DEF Restored
      <4> QED BY <1>2, <2>3, <3>1, <4>1
    <3>2. CASE i = Len(t)
      <4>1. n + 1 \in 1..n + 1
        BY <1>2
      <4> QED BY <2>1, <2>4, <3>2, <4>1 DEF e
    <3> QED BY <2>5, <3>1, <3>2
  <2>7. \A k \in 1..n + 1 : \E i \in 1..Len(t) : NameOf[t[i]] = saved[k].name
    <3> TAKE k \in 1..n + 1
    <3>1. CASE k \in 1..n
      BY <2>3, <3>1, ZenonT(60) DEF Restored
    <3>2. CASE k = n + 1
      BY <2>1, <2>4, <3>2 DEF e
    <3> QED BY <3>1, <3>2
  <2>8. ASSUME NamedOnce(saved)
        PROVE  Len(t) = n + 1 /\ \A i \in 1..Len(t) : NameOf[t[i]] = saved[i].name
    <3>1. Len(s) = n /\ \A i \in 1..Len(s) : NameOf[s[i]] = saved[i].name
      BY <2>8 DEF Restored
    <3>2. Len(t) = n + 1
      BY <2>2, <3>1
    <3>3. ASSUME NEW i \in 1..Len(t) PROVE NameOf[t[i]] = saved[i].name
      <4>1. CASE i \in 1..Len(s)
        BY <2>3, <3>1, <4>1
      <4>2. CASE i = Len(t)
        BY <2>1, <2>4, <3>2, <4>2 DEF e
      <4> QED BY <2>5, <4>1, <4>2
    <3> QED BY <3>2, <3>3
  <2>9. downloads' = t
    BY <2>1 DEF t
  <2> QED BY <2>6, <2>7, <2>8, <2>9 DEF Restored
<1> QED BY <1>3, <1>4

LEMMA LoadStep == IInv /\ LoadInv /\ [Next]_vars => LoadInv'
<1> SUFFICES ASSUME IInv, LoadInv, [Next]_vars, Loading' PROVE LoadInv'
  BY DEF LoadInv
<1>0. handler \in Handlers
  BY DEF IInv, HandlerOK
<1>1. CASE UNCHANGED <<downloads, saved, handler>>
  BY <1>1 DEF LoadInv, Loading
<1>2. CASE LoadQueue
  <2>1. /\ handler'.n = 1 /\ handler'.entries = saved /\ handler'.before = downloads
        /\ UNCHANGED <<downloads, saved>>
    BY <1>2 DEF LoadQueue, storage
  <2>2. Restored(<<>>, 0, saved)
    <3>1. NamedOnce(saved) => Len(<<>>) = 0 /\ \A i \in 1..Len(<<>>) : NameOf[<<>>[i]] = saved[i].name
      OBVIOUS
    <3> QED BY <3>1 DEF Restored
  <2>3. 1 - 1 = 0 /\ 0 <= Len(saved)
    BY DEF IInv, RestOK
  <2> QED BY <2>1, <2>2, <2>3 DEF LoadInv
<1>3. CASE Enter
  <2>1. handler \in Entering
    BY <1>0, <1>3, Shapes DEF Enter, AtEntry
  <2>2. /\ handler'.pass = handler.pass /\ handler'.entries = handler.entries
        /\ handler'.before = handler.before /\ handler'.n = handler.n + 1
        /\ UNCHANGED saved
    BY <1>3, <2>1 DEF Enter, Entering
  <2>3. Loading
    BY <2>1, <2>2 DEF Loading, Entering
  <2>4. handler.entries = saved /\ handler.n <= Len(saved)
    BY <1>3, <2>3 DEF LoadInv, Enter, AtEntry
  <2>5. PICK n \in Nat : n + 1 = handler.n /\ n = handler.n - 1 /\ n + 1 = handler'.n - 1
    <3>1. handler.n \in Nat \ {0}
      BY <2>1 DEF Entering
    <3> QED BY <2>2, <3>1
  <2>6. AddDownload(saved[n + 1], Len(downloads), TRUE)
    BY <1>3, <2>3, <2>4, <2>5 DEF Enter
  <2>7. n < Len(saved) /\ n + 1 <= Len(saved)
    <3>1. Len(saved) \in Nat
      BY DEF IInv, RestOK
    <3> QED BY <2>4, <2>5, <3>1
  <2>8. handler.before = <<>> => Restored(downloads', n + 1, saved)
    BY <2>3, <2>5, <2>6, <2>7, RestoresOne DEF LoadInv
  <2> QED BY <2>2, <2>4, <2>5, <2>7, <2>8 DEF LoadInv
<1>4. CASE EnterSkips \/ SecondPass
  <2>1. handler \in Entering
    BY <1>0, <1>4, Shapes DEF EnterSkips, SecondPass, AtEntry
  <2>2. ~Loading
    BY <1>4 DEF EnterSkips, SecondPass, InPass, Loading
  <2>3. handler'.pass # "saved"
    BY <1>4, <2>1, <2>2 DEF EnterSkips, SecondPass, Entering, Loading
  <2> QED BY <2>3 DEF Loading
<1>5. ASSUME NEW d \in Dirs, NEW l \in Listings[NameOf[d]], NewEntries(d, l) PROVE FALSE
  BY <1>5 DEF NewEntries, Loading
<1>6. CASE EnterEnds \/ RemoveEnds \/ MoveEnds \/ Quit \/ Crash
  BY <1>6 DEF EnterEnds, RemoveEnds, MoveEnds, Quit, Crash, StartAgain, Idle, Loading
<1>7. CASE RemoveSome \/ RemoveComplete \/ RemoveSkips \/ RemoveOne
  <2>1. CASE RemoveSome \/ RemoveComplete
    BY <2>1 DEF RemoveSome, RemoveComplete, RemoveDownloads, Loading
  <2>2. CASE RemoveSkips \/ RemoveOne
    <3>1. handler \in Removing
      BY <1>0, <2>2, Shapes DEF RemoveSkips, RemoveOne
    <3> QED BY <2>2, <3>1 DEF RemoveSkips, RemoveOne, Loading, Removing
  <2> QED BY <1>7, <2>1, <2>2
<1>8. CASE \E ids, refs \in Selections, after \in BOOLEAN : Move(ids, refs, after)
  BY <1>8 DEF Move, Loading
<1>9. CASE MoveBack \/ MoveLooks \/ MoveForward \/ MoveKeepsRef \/ ShiftEnds
  <2>1. handler \in Moving
    BY <1>0, <1>9, Shapes DEF MoveBack, MoveLooks, AtTurn, MoveForward, MoveKeepsRef, AtShift, ShiftEnds
  <2> QED BY <1>9, <2>1 DEF MoveBack, MoveLooks, MoveForward, MoveKeepsRef, ShiftEnds, Loading, Moving
<1>10. CASE \/ \E n \in Asked, p \in Destinations : UserAdds(n, p)
            \/ \E d \in Downloads : PauseOrHash(d)
            \/ Save
  <2>1. MainIdle /\ UNCHANGED handler
    BY <1>10 DEF UserAdds, PauseOrHash, Save
  <2> QED BY <2>1 DEF Loading, MainIdle, Idle
<1>11. CASE \/ \E P \in Predicates : Scan(P)
            \/ \E d \in Downloads : FileReset(d)
            \/ \E d \in Downloads, st \in {"live", "erroneous", "complete"} : StatusChanges(d, st)
            \/ \E d \in Downloads, p \in Places : FileCreated(d, p)
            \/ \E k \in 1..MaxListed : Restart(k)
            \/ RestartNone
  BY <1>1, <1>11 DEF Scan, FileReset, StatusChanges, FileCreated, Restart, RestartNone, storage
<1> QED
  BY <1>1, <1>2, <1>3, <1>4, <1>5, <1>6, <1>7, <1>8, <1>9, <1>10, <1>11 DEF Next, vars, storage

(* As many names as entries: none is there twice.                          *)
LEMMA CountedOnce ==
  ASSUME NEW entries \in Seq(Entries), Cardinality(ToSet(Names(entries))) = Len(entries)
  PROVE  NamedOnce(entries)
<1> DEFINE n == Len(entries)
           f == Names(entries)
           T == ToSet(f)
<1>1. n \in Nat /\ f = [i \in 1..n |-> entries[i].name]
  BY DEF Names
<1> HIDE DEF f
<1>2. T = {f[i] : i \in 1..n}
  BY <1>1 DEF ToSet
<1> HIDE DEF T
<1>3. f \in Surjection(1..n, T)
  <2>1. f \in [1..n -> T]
    BY <1>1, <1>2
  <2>2. \A y \in T : \E i \in 1..n : f[i] = y
    BY <1>2
  <2> QED BY <2>1, <2>2 DEF Surjection
<1>4. IsFiniteSet(1..n) /\ Cardinality(1..n) = n
  <2> HIDE DEF n
  <2>1. 1 \in Int /\ n \in Int
    BY <1>1
  <2>2. IsFiniteSet(1..n) /\ Cardinality(1..n) = IF 1 > n THEN 0 ELSE n - 1 + 1
    BY <2>1, FS_Interval, Zenon
  <2> QED BY <1>1, <2>2
<1>5. Cardinality(T) = Cardinality(1..n)
  BY <1>4 DEF T, f
<1>6. f \in Injection(1..n, T)
  BY <1>3, <1>4, <1>5, FS_Surjection
<1>7. \A k, l \in 1..n : f[k] = f[l] => k = l
  BY <1>6 DEF Injection, IsInjective
<1> QED BY <1>1, <1>7 DEF NamedOnce

(* The queue that is reloaded is the one that was saved: no name is lost   *)
(* or comes from nowhere, and the order is kept if no name is there twice. *)
THEOREM Reloaded == Spec => ReloadRestores
<1>1. Init => LoadInv
  BY DEF Init, LoadInv, Loading, Idle
<1>2. ASSUME IInv, LoadInv, Next, Loading, handler'.kind = "idle", queueLoaded', handler.before = <<>>
      PROVE  /\ ToSet(Names(Contents)) = ToSet(Names(saved))
             /\ Cardinality(ToSet(Names(saved))) = Len(saved) => Names(Contents) = Names(saved)
  <2>1. /\ downloads \in Seq(Downloads) /\ Len(downloads) \in Nat
        /\ saved \in Seq(Entries) /\ Len(saved) \in Nat /\ handler \in Entering
    BY <1>2, Shapes DEF IInv, QueueOK, Marked, RestOK, HandlerOK, Loading
  <2>2. EnterEnds
    <3>1. ~MainIdle /\ handler.kind # "removing" /\ handler.kind # "moving" /\ handler'.kind # handler.kind
      BY <1>2 DEF MainIdle, Idle, Loading
    <3>2. ~Enter /\ ~EnterSkips /\ ~SecondPass
      BY <1>2, <2>1 DEF Enter, EnterSkips, SecondPass, Entering
    <3>3. ~Quit /\ ~Crash
      BY <1>2 DEF Quit, Crash, StartAgain
    <3>4. ~(RemoveSkips \/ RemoveOne \/ RemoveEnds \/ MoveBack \/ MoveLooks \/ MoveForward
             \/ MoveKeepsRef \/ ShiftEnds \/ MoveEnds \/ LoadQueue \/ RemoveSome \/ RemoveComplete)
      BY <3>1 DEF RemoveSkips, RemoveOne, RemoveEnds, MoveBack, MoveLooks, MoveForward, MoveKeepsRef,
                  ShiftEnds, MoveEnds, AtTurn, AtShift, LoadQueue, RemoveSome, RemoveComplete,
                  RemoveDownloads
    <3>5. \A ids, refs \in Selections, after \in BOOLEAN : ~Move(ids, refs, after)
      BY <3>1 DEF Move
    <3>6. \A d, l : ~NewEntries(d, l)
      BY <3>1 DEF NewEntries
    <3>7. \A n, p : ~UserAdds(n, p)
      BY <3>1 DEF UserAdds
    <3>8. \A d, st : ~PauseOrHash(d) /\ ~FileReset(d) /\ ~StatusChanges(d, st) /\ ~FileCreated(d, st)
      BY <3>1 DEF PauseOrHash, FileReset, StatusChanges, FileCreated
    <3>9. \A k : ~Scan(k) /\ ~Restart(k) /\ ~RestartNone /\ ~Save
      BY <3>1 DEF Scan, Restart, RestartNone, Save
    <3> QED BY <1>2, <3>2, <3>3, <3>4, <3>5, <3>6, <3>7, <3>8, <3>9 DEF Next
  <2>3. handler.n - 1 = Len(saved)
    <3>1. handler.n \in Nat /\ handler.n > Len(saved) /\ handler.n - 1 <= Len(saved)
      BY <1>2, <2>1, <2>2 DEF EnterEnds, LoadInv, Entering
    <3> QED BY <2>1, <3>1
  <2>4. Restored(downloads, Len(saved), saved)
    BY <1>2, <2>3 DEF LoadInv
  <2> DEFINE s == Names(saved)
             c == Names(Contents)
  <2>5. c = [i \in 1..Len(downloads) |-> NameOf[downloads[i]]] /\ s = [i \in 1..Len(saved) |-> saved[i].name]
    <3>1. c = [i \in DOMAIN downloads |-> NameOf[downloads[i]]]
      BY <1>2, ContentsNamed
    <3>2. DOMAIN downloads = 1..Len(downloads) /\ DOMAIN saved = 1..Len(saved)
      BY <2>1
    <3> QED BY <3>1, <3>2 DEF Names
  <2> HIDE DEF c, s
  <2>6. ToSet(c) = {NameOf[downloads[i]] : i \in 1..Len(downloads)} /\ ToSet(s) = {saved[i].name : i \in 1..Len(saved)}
    BY <2>5 DEF ToSet
  <2>7. ToSet(c) = ToSet(s)
    <3>1. ASSUME NEW i \in 1..Len(downloads) PROVE NameOf[downloads[i]] \in ToSet(s)
      <4>1. PICK k \in 1..Len(saved) : NameOf[downloads[i]] = saved[k].name
        BY <2>4 DEF Restored
      <4> QED BY <2>6, <4>1
    <3>2. ASSUME NEW k \in 1..Len(saved) PROVE saved[k].name \in ToSet(c)
      <4>1. PICK i \in 1..Len(downloads) : NameOf[downloads[i]] = saved[k].name
        BY <2>4 DEF Restored
      <4> QED BY <2>6, <4>1
    <3> QED BY <2>6, <3>1, <3>2
  <2>8. NamedOnce(saved) => c = s
    BY <2>1, <2>4, <2>5 DEF Restored
  <2> QED BY <2>1, <2>7, <2>8, CountedOnce DEF c, s
<1>3. IInv /\ LoadInv /\ [Next]_vars =>
        [Loading /\ handler'.kind = "idle" /\ queueLoaded' /\ handler.before = <<>>
         => /\ ToSet(Names(Contents)) = ToSet(Names(saved))
            /\ Cardinality(ToSet(Names(saved))) = Len(saved) => Names(Contents) = Names(saved)]_vars
  BY <1>2
<1> QED
  BY <1>1, <1>3, LoadStep, Invariant, PTL DEF Spec, ReloadRestores

-----------------------------------------------------------------------------
(* Where the elements of a list go, by their places from 1.                *)

Distinct(s) == \A x, y \in 1..Len(s) : s[x] = s[y] => x = y

(* t is s with d inserted after the first c. *)
InsertedAfter(t, s, c, d) ==
  /\ t \in Seq(Downloads) /\ Len(t) = Len(s) + 1 /\ t[c + 1] = d
  /\ \A x \in 1..Len(s) : (x <= c => t[x] = s[x]) /\ (x > c => t[x + 1] = s[x])
  /\ \A y \in 1..Len(t) : (y <= c => t[y] = s[y]) /\ (y > c + 1 => t[y] = s[y - 1])

LEMMA InsertedPlaces ==
  ASSUME NEW s \in Seq(Downloads), NEW d \in Downloads, NEW p \in Nat,
         NEW c \in 0..Len(s), c = IF p <= Len(s) THEN p ELSE Len(s)
  PROVE  InsertedAfter(Inserted(s, p, d), s, c, d)
<1> DEFINE t == Inserted(s, p, d)
<1>1. IsInserted(t, s, c, d)
  BY InsertedElements
<1> HIDE DEF t
<1>2. /\ t \in Seq(Downloads) /\ Len(t) = Len(s) + 1 /\ Len(s) \in Nat
      /\ \A q \in 0..Len(s) : /\ q < c => t[q + 1] = s[q + 1]
                              /\ q = c => t[q + 1] = d
                              /\ q > c => t[q + 1] = s[q - 1 + 1]
  BY <1>1 DEF IsInserted, At
<1>3. ASSUME NEW x \in 1..Len(s) PROVE (x <= c => t[x] = s[x]) /\ (x > c => t[x + 1] = s[x])
  <2>1. PICK q \in 0..Len(s) : q + 1 = x
    BY <1>2
  <2>2. x \in 0..Len(s) /\ x - 1 + 1 = x
    BY <1>2
  <2> QED BY <1>2, <2>1, <2>2
<1>4. ASSUME NEW y \in 1..Len(t) PROVE (y <= c => t[y] = s[y]) /\ (y > c + 1 => t[y] = s[y - 1])
  <2>1. PICK q \in 0..Len(s) : q + 1 = y
    BY <1>2
  <2>2. q - 1 + 1 = y - 1
    BY <1>2, <2>1
  <2> QED BY <1>2, <2>1, <2>2
<1>5. InsertedAfter(t, s, c, d)
  BY <1>2, <1>3, <1>4 DEF InsertedAfter
<1> QED BY <1>5 DEF t

LEMMA RemovedPlaces ==
  ASSUME NEW s \in Seq(Downloads), NEW p \in 0..Len(s) - 1, NEW t, t = Removed(s, p)
  PROVE  /\ t \in Seq(Downloads) /\ Len(t) = Len(s) - 1
         /\ \A x \in 1..Len(s) : (x <= p => t[x] = s[x]) /\ (x > p + 1 => t[x - 1] = s[x])
         /\ \A y \in 1..Len(t) : (y <= p => t[y] = s[y]) /\ (y > p => t[y] = s[y + 1])
<1>0. Len(s) \in Nat /\ p \in Nat
  OBVIOUS
<1>1. /\ t \in Seq(Downloads) /\ Len(t) = Len(s) - 1
      /\ \A q \in 0..Len(s) - 2 : /\ q < p => At(t, q) = At(s, q)
                                  /\ q >= p => At(t, q) = At(s, q + 1)
  BY RemovedElements
<1>2. ASSUME NEW y \in 1..Len(t) PROVE (y <= p => t[y] = s[y]) /\ (y > p => t[y] = s[y + 1])
  <2>1. PICK q \in 0..Len(s) - 2 : q + 1 = y
    BY <1>0, <1>1
  <2>2. At(t, q) = t[y] /\ At(s, q) = s[y] /\ At(s, q + 1) = s[y + 1]
    BY <2>1 DEF At
  <2>3. (y <= p => q < p) /\ (y > p => q >= p)
    BY <1>0, <2>1
  <2> QED BY <1>1, <2>2, <2>3
<1>3. ASSUME NEW x \in 1..Len(s) PROVE (x <= p => t[x] = s[x]) /\ (x > p + 1 => t[x - 1] = s[x])
  <2>1. x <= p => x \in 1..Len(t)
    BY <1>0, <1>1
  <2>2. x > p + 1 => x - 1 \in 1..Len(t) /\ x - 1 > p /\ x - 1 + 1 = x
    BY <1>0, <1>1
  <2> QED BY <1>2, <2>1, <2>2
<1> QED BY <1>1, <1>2, <1>3

(* The elements of t are those of s, told apart as they were. *)
Rearranged(t, s) ==
  \E g \in [1..Len(t) -> 1..Len(s)] :
    /\ \A x, y \in 1..Len(t) : g[x] = g[y] => x = y
    /\ \A x \in 1..Len(t) : t[x] = s[g[x]]

LEMMA RearrangedDistinct ==
  ASSUME NEW s, NEW t, Rearranged(t, s)
  PROVE  /\ Distinct(s) => Distinct(t)
         /\ \A x \in 1..Len(t) : \E y \in 1..Len(s) : t[x] = s[y]
<1>1. PICK g \in [1..Len(t) -> 1..Len(s)] :
        /\ \A x, y \in 1..Len(t) : g[x] = g[y] => x = y
        /\ \A x \in 1..Len(t) : t[x] = s[g[x]]
  BY DEF Rearranged
<1>2. \A x \in 1..Len(t) : g[x] \in 1..Len(s)
  BY <1>1
<1>3. ASSUME Distinct(s), NEW x \in 1..Len(t), NEW y \in 1..Len(t), t[x] = t[y] PROVE x = y
  <2>1. s[g[x]] = s[g[y]]
    BY <1>1, <1>3
  <2> QED BY <1>1, <1>2, <1>3, <2>1 DEF Distinct
<1> QED BY <1>1, <1>2, <1>3 DEF Distinct

LEMMA BackPlaces ==
  ASSUME NEW s \in Seq(Downloads), NEW i \in 0..Len(s) - 1, NEW a \in 0..i,
         NEW d \in Downloads, d = s[i + 1],
         NEW t, t = Removed(Inserted(s, a, d), i + 1)
  PROVE  /\ t \in Seq(Downloads) /\ Len(t) = Len(s) /\ Rearranged(t, s)
         /\ \A x \in 1..Len(s) : /\ x <= a => t[x] = s[x]
                                 /\ a < x /\ x <= i => t[x + 1] = s[x]
                                 /\ x = i + 1 => t[a + 1] = s[x]
                                 /\ x > i + 1 => t[x] = s[x]
<1> DEFINE r == i + 1
<1>0. t = Removed(Inserted(s, a, d), r) /\ d = At(s, i) /\ r = i + 1
  BY DEF At
<1> HIDE DEF r
<1>1. /\ t \in Seq(Downloads) /\ Len(t) = Len(s) /\ Len(s) \in Nat /\ i \in Nat /\ a \in Nat
      /\ \A q \in 0..Len(s) - 1 :
           /\ q < a => t[q + 1] = s[q + 1]
           /\ q = a => t[q + 1] = s[i + 1]
           /\ a < q /\ q <= i => t[q + 1] = s[q - 1 + 1]
           /\ q > i => t[q + 1] = s[q + 1]
  <2>1. /\ t \in Seq(Downloads) /\ Len(t) = Len(s)
        /\ \A q \in 0..Len(s) - 1 :
              /\ q < a => At(t, q) = At(s, q)
              /\ q = a => At(t, q) = At(s, i)
              /\ a < q /\ q <= i => At(t, q) = At(s, q - 1)
              /\ q > i => At(t, q) = At(s, q)
    BY <1>0, MovedBack
  <2> QED BY <2>1 DEF At
<1> DEFINE g == [y \in 1..Len(t) |->
                   IF y <= a THEN y ELSE IF y = a + 1 THEN i + 1 ELSE IF y <= i + 1 THEN y - 1 ELSE y]
<1>2. ASSUME NEW y \in 1..Len(t) PROVE t[y] = s[g[y]] /\ g[y] \in 1..Len(s)
  <2>1. PICK q \in 0..Len(s) - 1 : q + 1 = y /\ y = q + 1
    BY <1>1
  <2>2. g[y] = IF q < a THEN q + 1 ELSE IF q = a THEN i + 1 ELSE IF q <= i THEN q - 1 + 1 ELSE q + 1
    BY <1>1, <2>1
  <2> HIDE DEF g
  <2>3. CASE q < a
    BY <1>1, <2>1, <2>2, <2>3
  <2>4. CASE q = a
    BY <1>1, <2>1, <2>2, <2>4
  <2>5. CASE a < q /\ q <= i
    BY <1>1, <2>1, <2>2, <2>5
  <2>6. CASE q > i
    <3>0. ~(q < a) /\ q # a /\ ~(q <= i) /\ q > i
      BY <1>1, <2>6
    <3>1. g[y] = y /\ t[y] = s[y]
      BY <1>1, <2>1, <2>2, <3>0
    <3> QED BY <1>1, <3>1
  <2>7. q < a \/ q = a \/ (a < q /\ q <= i) \/ q > i
    BY <1>1
  <2> QED BY <2>3, <2>4, <2>5, <2>6, <2>7
<1>3. \A x, y \in 1..Len(t) : g[x] = g[y] => x = y
  BY <1>1
<1>4. ASSUME NEW x \in 1..Len(s)
      PROVE  /\ x <= a => t[x] = s[x]
             /\ a < x /\ x <= i => t[x + 1] = s[x]
             /\ x = i + 1 => t[a + 1] = s[x]
             /\ x > i + 1 => t[x] = s[x]
  <2>1. /\ x <= a => x \in 1..Len(t) /\ g[x] = x
        /\ a < x /\ x <= i => x + 1 \in 1..Len(t) /\ g[x + 1] = x
        /\ x = i + 1 => a + 1 \in 1..Len(t) /\ g[a + 1] = x
        /\ x > i + 1 => x \in 1..Len(t) /\ g[x] = x
    BY <1>1
  <2> HIDE DEF g
  <2> QED BY <1>2, <2>1
<1>5. g \in [1..Len(t) -> 1..Len(s)]
  BY <1>2
<1> HIDE DEF g
<1>6. Rearranged(t, s)
  BY <1>2, <1>3, <1>5 DEF Rearranged
<1> QED BY <1>1, <1>4, <1>6

LEMMA ForwardPlaces ==
  ASSUME NEW s \in Seq(Downloads), NEW a \in 0..Len(s), NEW r \in 0..a - 1,
         NEW d \in Downloads, d = s[r + 1],
         NEW t, t = Removed(Inserted(s, a, d), r)
  PROVE  /\ t \in Seq(Downloads) /\ Len(t) = Len(s) /\ Rearranged(t, s)
         /\ \A x \in 1..Len(s) : /\ x <= r => t[x] = s[x]
                                 /\ x = r + 1 => t[a] = s[x]
                                 /\ r + 1 < x /\ x <= a => t[x - 1] = s[x]
                                 /\ x > a => t[x] = s[x]
<1>0. d = At(s, r)
  BY DEF At
<1>1. /\ t \in Seq(Downloads) /\ Len(t) = Len(s) /\ Len(s) \in Nat /\ a \in Nat /\ r \in Nat
      /\ \A q \in 0..Len(s) - 1 :
           /\ q < r => t[q + 1] = s[q + 1]
           /\ r <= q /\ q < a - 1 => t[q + 1] = s[q + 1 + 1]
           /\ q = a - 1 => t[q + 1] = s[r + 1]
           /\ q >= a => t[q + 1] = s[q + 1]
  <2>1. /\ t \in Seq(Downloads) /\ Len(t) = Len(s)
        /\ \A q \in 0..Len(s) - 1 :
             /\ q < r => At(t, q) = At(s, q)
             /\ r <= q /\ q < a - 1 => At(t, q) = At(s, q + 1)
             /\ q = a - 1 => At(t, q) = At(s, r)
             /\ q >= a => At(t, q) = At(s, q)
    BY <1>0, MovedForward
  <2> QED BY <2>1 DEF At
<1> DEFINE g == [y \in 1..Len(t) |->
                   IF y <= r THEN y ELSE IF y < a THEN y + 1 ELSE IF y = a THEN r + 1 ELSE y]
<1>2. ASSUME NEW y \in 1..Len(t) PROVE t[y] = s[g[y]] /\ g[y] \in 1..Len(s)
  <2>1. PICK q \in 0..Len(s) - 1 : q + 1 = y /\ y = q + 1
    BY <1>1
  <2>2. g[y] = IF q < r THEN q + 1 ELSE IF q < a - 1 THEN q + 1 + 1 ELSE IF q = a - 1 THEN r + 1 ELSE q + 1
    BY <1>1, <2>1
  <2> HIDE DEF g
  <2>3. CASE q < r
    BY <1>1, <2>1, <2>2, <2>3
  <2>4. CASE r <= q /\ q < a - 1
    BY <1>1, <2>1, <2>2, <2>4
  <2>5. CASE q = a - 1
    <3>0. ~(q < r) /\ ~(q < a - 1) /\ q = a - 1 /\ r + 1 \in 1..Len(s)
      BY <1>1, <2>5
    <3>1. g[y] = r + 1 /\ t[y] = s[r + 1] /\ r + 1 \in 1..Len(s)
      BY <1>1, <2>1, <2>2, <3>0
    <3> QED BY <3>1
  <2>6. CASE q >= a
    BY <1>1, <2>1, <2>2, <2>6
  <2>7. q < r \/ (r <= q /\ q < a - 1) \/ q = a - 1 \/ q >= a
    BY <1>1
  <2> QED BY <2>3, <2>4, <2>5, <2>6, <2>7
<1>3. \A x, y \in 1..Len(t) : g[x] = g[y] => x = y
  BY <1>1
<1>4. ASSUME NEW x \in 1..Len(s)
      PROVE  /\ x <= r => t[x] = s[x]
             /\ x = r + 1 => t[a] = s[x]
             /\ r + 1 < x /\ x <= a => t[x - 1] = s[x]
             /\ x > a => t[x] = s[x]
  <2>1. /\ x <= r => x \in 1..Len(t) /\ g[x] = x
        /\ x = r + 1 => a \in 1..Len(t) /\ g[a] = x
        /\ r + 1 < x /\ x <= a => x - 1 \in 1..Len(t) /\ g[x - 1] = x
        /\ x > a => x \in 1..Len(t) /\ g[x] = x
    BY <1>1
  <2> HIDE DEF g
  <2> QED BY <1>2, <2>1
<1>5. g \in [1..Len(t) -> 1..Len(s)]
  BY <1>2
<1> HIDE DEF g
<1>6. Rearranged(t, s)
  BY <1>2, <1>3, <1>5 DEF Rearranged
<1> QED BY <1>1, <1>4, <1>6

-----------------------------------------------------------------------------
(* What is kept of a list of downloads that has changed.                   *)

LEMMA OnlySame ==
  ASSUME NEW s \in Seq(Downloads), NEW K, NEW L, \A x \in 1..Len(s) : s[x] \in K <=> s[x] \in L
  PROVE  Only(s, K) = Only(s, L)
<1> DEFINE c == CountOf(s, K)
<1>1. IsCount(c, s, K)
  BY CountOfIs
<1> HIDE DEF c
<1>2. IsCount(c, s, L)
  BY <1>1 DEF IsCount
<1>3. /\ Only(s, K) \in Seq(Downloads) /\ Len(Only(s, K)) = c[Len(s)]
      /\ \A x \in 1..Len(s) : s[x] \in K => Only(s, K)[c[x]] = s[x]
  BY <1>1, OnlyPlaces
<1> QED BY <1>2, <1>3, OnlyIs

LEMMA OnlyAll ==
  ASSUME NEW s \in Seq(Downloads), NEW K, \A x \in 1..Len(s) : s[x] \in K
  PROVE  Only(s, K) = s
<1> DEFINE c == [x \in 0..Len(s) |-> x]
<1>1. Len(s) \in Nat
  OBVIOUS
<1>2. IsCount(c, s, K)
  BY <1>1 DEF IsCount
<1>3. c[Len(s)] = Len(s) /\ \A x \in 1..Len(s) : c[x] = x
  BY <1>1
<1> HIDE DEF c
<1> QED BY <1>2, <1>3, OnlyIs

(* A stretch of the list. *)
LEMMA OnlySegment ==
  ASSUME NEW s \in Seq(Downloads), NEW K, NEW a \in 0..Len(s), NEW b \in a..Len(s),
         \A x \in 1..Len(s) : s[x] \in K <=> (a < x /\ x <= b),
         NEW t \in Seq(Downloads), Len(t) = b - a, \A y \in 1..b - a : t[y] = s[a + y]
  PROVE  t = Only(s, K)
<1> DEFINE c == [x \in 0..Len(s) |-> IF x <= a THEN 0 ELSE IF x <= b THEN x - a ELSE b - a]
<1>1. Len(s) \in Nat /\ a \in Nat /\ b \in Nat /\ a <= b /\ b <= Len(s)
  OBVIOUS
<1>2. IsCount(c, s, K)
  <2>1. c \in [0..Len(s) -> Int] /\ c[0] = 0
    BY <1>1
  <2>2. ASSUME NEW x \in 1..Len(s) PROVE c[x] = IF s[x] \in K THEN c[x - 1] + 1 ELSE c[x - 1]
    <3>1. /\ x - 1 \in 0..Len(s) /\ x \in 0..Len(s)
          /\ c[x] = IF x <= a THEN 0 ELSE IF x <= b THEN x - a ELSE b - a
          /\ c[x - 1] = IF x - 1 <= a THEN 0 ELSE IF x - 1 <= b THEN x - 1 - a ELSE b - a
      BY <1>1
    <3>2. s[x] \in K <=> (a < x /\ x <= b)
      OBVIOUS
    <3> HIDE DEF c
    <3> QED BY <1>1, <3>1, <3>2
  <2> QED BY <2>1, <2>2 DEF IsCount
<1>3. c[Len(s)] = b - a
  BY <1>1
<1>4. ASSUME NEW x \in 1..Len(s), s[x] \in K PROVE t[c[x]] = s[x]
  <2>1. a < x /\ x <= b
    BY <1>4
  <2>2. x - a \in 1..b - a /\ a + (x - a) = x /\ c[x] = x - a
    BY <1>1, <2>1
  <2> HIDE DEF c
  <2>3. t[x - a] = s[a + (x - a)]
    BY <2>2
  <2> QED BY <2>2, <2>3
<1> HIDE DEF c
<1> QED BY <1>2, <1>3, <1>4, OnlyIs

LEMMA OnlyInserted ==
  ASSUME NEW s \in Seq(Downloads), NEW p \in Nat, NEW d \in Downloads, NEW K, d \notin K
  PROVE  Only(Inserted(s, p, d), K) = Only(s, K)
<1> DEFINE n == Len(s)
           e == CountOf(s, K)
           t == Inserted(s, p, d)
           r == Only(s, K)
<1>1. n \in Nat /\ IsCount(e, s, K)
  BY CountOfIs
<1>2. PICK k \in 0..n : k = IF p <= n THEN p ELSE n
  BY <1>1
<1>3. /\ t \in Seq(Downloads) /\ Len(t) = n + 1 /\ t[k + 1] = d
      /\ \A y \in 1..Len(t) : (y <= k => t[y] = s[y]) /\ (y > k + 1 => t[y] = s[y - 1])
  <2>1. k \in 0..Len(s) /\ k = IF p <= Len(s) THEN p ELSE Len(s)
    BY <1>2
  <2> HIDE DEF n, e, r
  <2>2. InsertedAfter(t, s, k, d)
    BY <2>1, InsertedPlaces
  <2> HIDE DEF t
  <2> QED BY <2>2 DEF n, InsertedAfter
<1> HIDE DEF e, t, r
<1>4. /\ e \in [0..n -> Int] /\ e[0] = 0
      /\ \A x \in 1..n : e[x] = IF s[x] \in K THEN e[x - 1] + 1 ELSE e[x - 1]
  BY <1>1 DEF IsCount
<1>5. /\ r \in Seq(Downloads) /\ Len(r) = e[n]
      /\ \A x \in 1..n : s[x] \in K => r[e[x]] = s[x]
  BY <1>1, OnlyPlaces DEF r
<1> HIDE DEF n
<1> DEFINE c == [y \in 0..n + 1 |-> IF y <= k THEN e[y] ELSE e[y - 1]]
<1>6. k \in Nat /\ k <= n /\ k \in 0..n
  BY <1>1
<1>7. ASSUME NEW y \in 1..n + 1 PROVE c[y] = IF t[y] \in K THEN c[y - 1] + 1 ELSE c[y - 1]
  <2>1. /\ c[y] = IF y <= k THEN e[y] ELSE e[y - 1]
        /\ c[y - 1] = IF y - 1 <= k THEN e[y - 1] ELSE e[y - 1 - 1]
    BY <1>1
  <2> HIDE DEF c
  <2>2. CASE y <= k
    <3>1. y \in 1..n /\ y - 1 <= k /\ t[y] = s[y]
      BY <1>1, <1>3, <1>6, <2>2
    <3> QED BY <1>4, <2>1, <2>2, <3>1
  <2>3. CASE y = k + 1
    <3>1. ~(y <= k) /\ y - 1 <= k /\ t[y] = d
      BY <1>3, <1>6, <2>3
    <3> QED BY <2>1, <3>1
  <2>4. CASE y > k + 1
    <3>1. PICK x \in 1..n : x = y - 1
      BY <1>1, <1>6, <2>4
    <3>2. ~(y <= k) /\ ~(y - 1 <= k) /\ t[y] = s[x] /\ x - 1 = y - 1 - 1
      BY <1>3, <1>6, <2>4, <3>1
    <3> QED BY <1>4, <2>1, <3>1, <3>2
  <2> QED BY <1>1, <1>6, <2>2, <2>3, <2>4
<1>8. IsCount(c, t, K) /\ c[Len(t)] = e[n]
  <2>1. c \in [0..n + 1 -> Int]
    <3>1. ASSUME NEW y \in 0..n + 1 PROVE (IF y <= k THEN e[y] ELSE e[y - 1]) \in Int
      <4>1. (y <= k => y \in 0..n) /\ (~(y <= k) => y - 1 \in 0..n)
        BY <1>1, <1>6
      <4> QED BY <1>4, <4>1
    <3> QED BY <3>1
  <2>2. c[0] = 0 /\ c[n + 1] = e[n]
    BY <1>1, <1>4, <1>6
  <2> HIDE DEF c
  <2> QED BY <1>3, <1>7, <2>1, <2>2 DEF IsCount
<1>9. ASSUME NEW y \in 1..n + 1, t[y] \in K PROVE r[c[y]] = t[y]
  <2>1. c[y] = IF y <= k THEN e[y] ELSE e[y - 1]
    BY <1>1
  <2> HIDE DEF c
  <2>2. y # k + 1
    BY <1>3, <1>9
  <2>3. CASE y <= k
    <3>1. y \in 1..n /\ t[y] = s[y]
      BY <1>1, <1>3, <1>6, <2>3
    <3> QED BY <1>5, <1>9, <2>1, <2>3, <3>1
  <2>4. CASE y > k + 1
    <3>1. PICK x \in 1..n : x = y - 1
      BY <1>1, <1>6, <2>4
    <3>2. ~(y <= k) /\ t[y] = s[x]
      BY <1>3, <1>6, <2>4, <3>1
    <3> QED BY <1>5, <1>9, <2>1, <3>1, <3>2
  <2> QED BY <1>6, <2>2, <2>3, <2>4
<1> HIDE DEF c
<1>10. r = Only(t, K)
  BY <1>3, <1>5, <1>8, <1>9, OnlyIs
<1> QED BY <1>10 DEF r, t

(* The list without one of its downloads. *)
LEMMA OnlyOthers ==
  ASSUME NEW s \in Seq(Downloads), Distinct(s), NEW p \in 1..Len(s), NEW K,
         \A x \in 1..Len(s) : s[x] \in K <=> x # p
  PROVE  Removed(s, p - 1) = Only(s, K)
<1> DEFINE t == Removed(s, p - 1)
           n == Len(s)
           c == [x \in 0..n |-> IF x < p THEN x ELSE x - 1]
<1>1. n \in Nat /\ p \in Nat /\ 1 <= p /\ p <= n /\ p - 1 \in 0..n - 1 /\ p - 1 + 1 = p
  OBVIOUS
<1>2. /\ t \in Seq(Downloads) /\ Len(t) = n - 1
      /\ \A x \in 1..n : (x <= p - 1 => t[x] = s[x]) /\ (x > p - 1 + 1 => t[x - 1] = s[x])
  BY <1>1, RemovedPlaces
<1> HIDE DEF t
<1>3. IsCount(c, s, K)
  <2>1. c \in [0..n -> Int] /\ c[0] = 0
    BY <1>1
  <2>2. ASSUME NEW x \in 1..n PROVE c[x] = IF s[x] \in K THEN c[x - 1] + 1 ELSE c[x - 1]
    <3>1. /\ x \in 0..n /\ x - 1 \in 0..n
          /\ c[x] = IF x < p THEN x ELSE x - 1
          /\ c[x - 1] = IF x - 1 < p THEN x - 1 ELSE x - 1 - 1
      BY <1>1
    <3> HIDE DEF c
    <3> QED BY <1>1, <3>1
  <2> QED BY <2>1, <2>2 DEF IsCount
<1>4. c[n] = n - 1
  BY <1>1
<1>5. ASSUME NEW x \in 1..n, s[x] \in K PROVE t[c[x]] = s[x]
  <2>1. x # p
    BY <1>5
  <2>2. CASE x < p
    <3>1. c[x] = x /\ x <= p - 1
      BY <1>1, <2>2
    <3> HIDE DEF c
    <3> QED BY <1>2, <3>1
  <2>3. CASE x > p
    <3>1. c[x] = x - 1 /\ x > p - 1 + 1
      BY <1>1, <2>3
    <3> HIDE DEF c
    <3> QED BY <1>2, <3>1
  <2> QED BY <1>1, <2>1, <2>2, <2>3
<1> HIDE DEF c
<1>6. t = Only(s, K)
  BY <1>2, <1>3, <1>4, <1>5, OnlyIs
<1> QED BY <1>6 DEF t

(* How the numbers of those met grow. *)
Counting(c, s, K) ==
  /\ c[0] = 0
  /\ \A x \in 0..Len(s) : c[x] \in Nat /\ c[x] <= x
  /\ \A x \in 1..Len(s) : c[x] = IF s[x] \in K THEN c[x - 1] + 1 ELSE c[x - 1]
  /\ \A x, y \in 0..Len(s) : x <= y => c[x] <= c[y] /\ c[y] - c[x] <= y - x

LEMMA CountingIs ==
  ASSUME NEW s \in Seq(Downloads), NEW K
  PROVE  Counting(CountOf(s, K), s, K)
<1> DEFINE c == CountOf(s, K)
<1>1. IsCount(c, s, K)
  BY CountOfIs
<1> HIDE DEF c
<1>2. /\ Len(s) \in Nat /\ c[0] = 0 /\ \A x \in 0..Len(s) : c[x] \in Int
      /\ \A x \in 1..Len(s) : c[x] = IF s[x] \in K THEN c[x - 1] + 1 ELSE c[x - 1]
  BY <1>1 DEF IsCount
<1>3. \A x, y \in 0..Len(s) : x <= y => c[x] <= c[y] /\ c[y] - c[x] <= y - x /\ 0 <= c[x] /\ c[x] <= x
  BY <1>1, CountGrows
<1>4. \A x \in 0..Len(s) : c[x] \in Nat /\ c[x] <= x
  BY <1>2, <1>3
<1> QED BY <1>2, <1>3, <1>4 DEF Counting, c

LEMMA CountStep ==
  ASSUME NEW s \in Seq(Downloads), NEW K, NEW c, Counting(c, s, K), NEW x \in 1..Len(s)
  PROVE  /\ c[x] \in Nat /\ c[x] <= x /\ c[x - 1] \in Nat /\ c[x - 1] <= x - 1
         /\ s[x] \in K => c[x] = c[x - 1] + 1
         /\ s[x] \notin K => c[x] = c[x - 1]
<1>1. x \in 0..Len(s) /\ x - 1 \in 0..Len(s)
  OBVIOUS
<1>2. \A y \in 0..Len(s) : c[y] \in Nat /\ c[y] <= y
  BY DEF Counting
<1>3. c[x] = IF s[x] \in K THEN c[x - 1] + 1 ELSE c[x - 1]
  BY DEF Counting
<1> QED BY <1>1, <1>2, <1>3

LEMMA CountBetween ==
  ASSUME NEW s \in Seq(Downloads), NEW K, NEW c, Counting(c, s, K),
         NEW x \in 0..Len(s), NEW y \in 0..Len(s), x <= y
  PROVE  /\ c[x] \in Nat /\ c[y] \in Nat /\ c[x] <= x /\ c[y] <= y
         /\ c[x] <= c[y] /\ c[y] - c[x] <= y - x
BY DEF Counting

-----------------------------------------------------------------------------
(* The places of a move.                                                   *)

(* Where the x-th download of s is when the first k of those to move that  *)
(* are among the first cut have been moved after these.                    *)
PlaceBefore(s, K, c, cut, k, x) ==
  IF x > cut THEN x
  ELSE IF c[x] > k THEN x - k
  ELSE IF s[x] \in K THEN cut - k + c[x]
  ELSE x - c[x]

(* Where it is when all those to move among the first i have been.         *)
PlaceAfter(s, K, c, cut, i, x) ==
  IF x > i THEN x
  ELSE IF s[x] \in K THEN cut - c[cut] + c[x]
  ELSE IF x <= cut THEN x - c[x]
  ELSE x - c[x] + c[i]

(* A turn of the inner loop: the download that was at z. *)
LEMMA ShiftPlaces ==
  ASSUME NEW n \in Nat, NEW cut \in 0..n, NEW k \in Nat, NEW z \in 1..cut, k <= z - 1,
         NEW x \in 1..n, NEW f \in Nat, NEW b \in BOOLEAN, f <= x,
         x < z => f <= k /\ k - f <= z - 1 - x,
         x = z => f = k + 1,
         x > z => f >= k + 1 /\ (b => f >= k + 2),
         b => f >= 1, ~b => f <= x - 1,
         NEW y \in Int, y = IF x > cut THEN x ELSE IF f > k THEN x - k ELSE IF b THEN cut - k + f ELSE x - f,
         NEW w \in Int, w = IF x > cut THEN x ELSE IF f > k + 1 THEN x - (k + 1)
                            ELSE IF b THEN cut - (k + 1) + f ELSE x - f,
         x = z => b
  PROVE  /\ y \in 1..n
         /\ y <= z - 1 - k => w = y
         /\ y = z - k => w = cut
         /\ z - k < y /\ y <= cut => w = y - 1
         /\ y > cut => w = y
<1>1. CASE x > cut
  BY <1>1
<1>2. CASE x <= cut /\ x < z /\ b
  <2>1. y = cut - k + f /\ w = cut - (k + 1) + f /\ f >= 1 /\ f <= k
    BY <1>2
  <2> QED BY <1>2, <2>1
<1>3. CASE x <= cut /\ x < z /\ ~b
  <2>1. y = x - f /\ w = x - f /\ k - f <= z - 1 - x
    BY <1>3
  <2> QED BY <1>3, <2>1
<1>4. CASE x <= cut /\ x = z
  <2>1. f = k + 1 /\ b /\ y = x - k /\ w = cut - (k + 1) + f
    BY <1>4
  <2> QED BY <1>4, <2>1
<1>5. CASE x <= cut /\ x > z
  BY <1>5
<1> QED BY <1>1, <1>2, <1>3, <1>4, <1>5

ShiftTurn(s, K, c, t, cut, k, z, d, u) ==
  /\ s \in Seq(Downloads) /\ Counting(c, s, K) /\ t \in Seq(Downloads) /\ Len(t) = Len(s)
  /\ cut \in 0..Len(s) /\ k \in Nat /\ z \in 1..cut /\ s[z] \in K /\ c[z] = k + 1
  /\ \A x \in 1..Len(s) : t[PlaceBefore(s, K, c, cut, k, x)] = s[x]
  /\ d \in Downloads /\ d = t[z - k] /\ u = Removed(Inserted(t, cut, d), z - 1 - k)
LEMMA ShiftOne ==
  ASSUME NEW s, NEW K, NEW c, NEW t, NEW cut, NEW k, NEW z, NEW d, NEW u,
         ShiftTurn(s, K, c, t, cut, k, z, d, u)
  PROVE  /\ u \in Seq(Downloads) /\ Len(u) = Len(s) /\ Rearranged(u, t)
         /\ \A x \in 1..Len(s) : u[PlaceBefore(s, K, c, cut, k + 1, x)] = s[x]
<1> DEFINE n == Len(s)
<1>2. /\ cut \in 0..Len(s) /\ z \in 1..cut /\ t \in Seq(Downloads) /\ Len(t) = Len(s)
      /\ \A x \in 1..Len(s) : t[PlaceBefore(s, K, c, cut, k, x)] = s[x]
      /\ d \in Downloads /\ d = t[z - k] /\ u = Removed(Inserted(t, cut, d), z - 1 - k)
  BY DEF ShiftTurn
<1>0. s \in Seq(Downloads) /\ Counting(c, s, K) /\ s[z] \in K /\ c[z] = k + 1 /\ k \in Nat
  BY DEF ShiftTurn
<1>1. n \in Nat /\ cut \in Nat /\ cut <= n /\ z \in Nat /\ 1 <= z /\ z <= cut /\ z \in 1..n /\ z - 1 \in 0..n
  BY <1>0, <1>2
<1>3. c[z - 1] = k /\ k <= z - 1
  <2> HIDE DEF n
  <2>1. c[z] = c[z - 1] + 1 /\ c[z - 1] \in Nat /\ c[z - 1] <= z - 1
    BY ONLY <1>0, <1>1, CountStep DEF n
  <2> QED BY ONLY <1>0, <1>1, <2>1
<1>4. PICK r \in 0..cut - 1 : r = z - 1 - k /\ r + 1 = z - k
  BY <1>0, <1>1, <1>3
<1>5. /\ u \in Seq(Downloads) /\ Len(u) = Len(t) /\ Rearranged(u, t)
      /\ \A y \in 1..Len(t) : /\ y <= r => u[y] = t[y]
                              /\ y = r + 1 => u[cut] = t[y]
                              /\ r + 1 < y /\ y <= cut => u[y - 1] = t[y]
                              /\ y > cut => u[y] = t[y]
  BY <1>2, <1>4, ForwardPlaces, SMTT(30)
<1>6. ASSUME NEW x \in 1..n PROVE u[PlaceBefore(s, K, c, cut, k + 1, x)] = s[x]
  <2> DEFINE y == PlaceBefore(s, K, c, cut, k, x)
             w == PlaceBefore(s, K, c, cut, k + 1, x)
  <2>1. /\ y = IF x > cut THEN x ELSE IF c[x] > k THEN x - k ELSE IF s[x] \in K THEN cut - k + c[x] ELSE x - c[x]
        /\ w = IF x > cut THEN x ELSE IF c[x] > k + 1 THEN x - (k + 1)
               ELSE IF s[x] \in K THEN cut - (k + 1) + c[x] ELSE x - c[x]
    BY DEF PlaceBefore
  <2>2. t[y] = s[x]
    BY <1>2
  <2> HIDE DEF y, w
  <2>3. /\ c[x] \in Nat /\ c[x] <= x /\ c[x - 1] \in Nat /\ c[x - 1] <= x - 1 /\ x \in 0..n /\ x - 1 \in 0..n
        /\ s[x] \in K => c[x] = c[x - 1] + 1
        /\ s[x] \notin K => c[x] = c[x - 1]
    BY ONLY <1>0, <1>1, CountStep
  <2>4. ASSUME x < z PROVE c[x] <= k /\ k - c[x] <= z - 1 - x
    <3>1. x <= z - 1
      BY ONLY <1>0, <1>1, <2>4
    <3> QED BY ONLY <1>0, <1>1, <1>3, <2>3, <3>1, CountBetween
  <2>5. ASSUME x > z PROVE c[x] >= k + 1 /\ c[x - 1] >= k + 1
    <3>1. z <= x - 1 /\ z \in 0..n
      BY ONLY <1>0, <1>1, <2>5
    <3>2. c[z] <= c[x - 1]
      BY ONLY <1>0, <2>3, <3>1, CountBetween
    <3>3. c[z] <= c[x]
      <4>1. z <= x
        BY ONLY <1>0, <1>1, <2>5
      <4> QED BY ONLY <1>0, <2>3, <3>1, <4>1, CountBetween
    <3> QED BY ONLY <1>0, <2>3, <3>2, <3>3
  <2>f. PICK f \in Nat : f = c[x]
    BY ONLY <2>3
  <2>b. PICK b \in BOOLEAN : b <=> s[x] \in K
    OBVIOUS
  <2>6. /\ y \in 1..n
        /\ y <= r => w = y
        /\ y = r + 1 => w = cut
        /\ r + 1 < y /\ y <= cut => w = y - 1
        /\ y > cut => w = y
    <3>1. /\ f <= x /\ (b => f >= 1) /\ (~b => f <= x - 1)
          /\ x < z => f <= k /\ k - f <= z - 1 - x
      BY ONLY <2>f, <2>b, <1>0, <1>1, <2>3, <2>4
    <3>2. x = z => f = k + 1 /\ b
      BY ONLY <2>f, <2>b, <1>0
    <3>3. x > z => f >= k + 1 /\ (b => f >= k + 2)
      BY ONLY <2>f, <2>b, <1>0, <2>3, <2>5
    <3>4. /\ y = IF x > cut THEN x ELSE IF f > k THEN x - k ELSE IF b THEN cut - k + f ELSE x - f
          /\ w = IF x > cut THEN x ELSE IF f > k + 1 THEN x - (k + 1) ELSE IF b THEN cut - (k + 1) + f ELSE x - f
      BY ONLY <2>f, <2>b, <2>1
    <3>5. y \in Int /\ w \in Int
      BY ONLY <1>0, <1>1, <3>4, x \in 1..n
    <3>6. n \in Nat /\ cut \in 0..n /\ z \in 1..cut /\ k <= z - 1
      BY <1>1, <1>3
    <3>7. r = z - 1 - k /\ r + 1 = z - k
      BY <1>4
    <3> HIDE DEF n
    <3>8. /\ y \in 1..n
          /\ y <= z - 1 - k => w = y
          /\ y = z - k => w = cut
          /\ z - k < y /\ y <= cut => w = y - 1
          /\ y > cut => w = y
      BY ONLY <1>0, <3>1, <3>2, <3>3, <3>4, <3>5, <3>6, x \in 1..n, ShiftPlaces
    <3> QED BY <3>7, <3>8
  <2>7. y <= r \/ y = r + 1 \/ (r + 1 < y /\ y <= cut) \/ y > cut
    BY ONLY <1>0, <1>1, <1>4, <2>6
  <2>8. u[w] = t[y]
    BY <1>2, <1>5, <2>6, <2>7
  <2> QED BY <2>2, <2>8 DEF w
<1> QED BY <1>2, <1>5, <1>6

(* Past the reference: the download at i + 1 joins the others. *)
LEMMA JoinPlaces ==
  ASSUME NEW n \in Nat, NEW i \in 0..n - 1, NEW cut \in 0..i,
         NEW x \in 1..n, NEW b \in BOOLEAN,
         NEW f \in Nat, NEW ci \in Nat, NEW cc \in Nat, f <= x, cc <= cut, cc <= ci, ci - cc <= i - cut,
         b => f >= 1, ~b => f <= x - 1,
         x <= i => f <= ci /\ ci - f <= i - x,
         x <= cut => f <= cc /\ cc - f <= cut - x,
         x > cut => f >= cc /\ (~b => f - cc <= x - 1 - cut),
         x = i + 1 => b /\ f = ci + 1,
         NEW a \in Int, a = cut - cc + ci,
         NEW y \in Int, y = IF x > i THEN x ELSE IF b THEN cut - cc + f ELSE IF x <= cut THEN x - f ELSE x - f + ci,
         NEW w \in Int, w = IF x > i + 1 THEN x ELSE IF b THEN cut - cc + f
                            ELSE IF x <= cut THEN x - f ELSE x - f + (ci + 1)
  PROVE  /\ y \in 1..n
         /\ y <= a => w = y
         /\ a < y /\ y <= i => w = y + 1
         /\ y = i + 1 => w = a + 1
         /\ y > i + 1 => w = y
<1>1. CASE x > i
  BY <1>1
<1>2. CASE x <= i /\ b
  BY <1>2
<1>3. CASE x <= cut /\ ~b
  BY <1>3
<1>4. CASE x > cut /\ x <= i /\ ~b
  BY <1>4
<1> QED BY <1>1, <1>2, <1>3, <1>4

LEMMA JoinOne ==
  ASSUME NEW s \in Seq(Downloads), NEW K, NEW c, Counting(c, s, K),
         NEW t \in Seq(Downloads), Len(t) = Len(s),
         NEW i \in 0..Len(s) - 1, NEW cut \in 0..i, s[i + 1] \in K,
         \A x \in 1..Len(s) : t[PlaceAfter(s, K, c, cut, i, x)] = s[x],
         NEW d \in Downloads, d = t[i + 1],
         NEW a, a = cut - c[cut] + c[i],
         NEW u, u = Removed(Inserted(t, a, d), i + 1)
  PROVE  /\ u \in Seq(Downloads) /\ Len(u) = Len(s) /\ Rearranged(u, t)
         /\ \A x \in 1..Len(s) : u[PlaceAfter(s, K, c, cut, i + 1, x)] = s[x]
<1> DEFINE n == Len(s)
<1>1. n \in Nat /\ i \in Nat /\ i < n /\ cut \in Nat /\ cut <= i /\ i \in 0..n /\ i + 1 \in 1..n /\ cut \in 0..n
      /\ i + 1 - 1 = i
  OBVIOUS
<1>0. a = cut - c[cut] + c[i] /\ s \in Seq(Downloads) /\ Counting(c, s, K) /\ s[i + 1] \in K
  OBVIOUS
<1>3. c[i + 1] = c[i] + 1 /\ c[i] \in Nat /\ c[cut] \in Nat /\ c[cut] <= cut
      /\ c[cut] <= c[i] /\ c[i] - c[cut] <= i - cut
  <2>1. c[i + 1] = c[i + 1 - 1] + 1
    BY <1>1, CountStep
  <2>2. c[i] \in Nat /\ c[cut] \in Nat /\ c[cut] <= cut /\ c[cut] <= c[i] /\ c[i] - c[cut] <= i - cut
    BY <1>1, CountBetween
  <2> QED BY <1>1, <2>1, <2>2
<1>4. a \in 0..i /\ a \in Nat
  BY <1>1, <1>3
<1>5. /\ u \in Seq(Downloads) /\ Len(u) = Len(t) /\ Rearranged(u, t)
      /\ \A y \in 1..Len(t) : /\ y <= a => u[y] = t[y]
                              /\ a < y /\ y <= i => u[y + 1] = t[y]
                              /\ y = i + 1 => u[a + 1] = t[y]
                              /\ y > i + 1 => u[y] = t[y]
  BY <1>4, BackPlaces
<1>6. ASSUME NEW x \in 1..n PROVE u[PlaceAfter(s, K, c, cut, i + 1, x)] = s[x]
  <2> DEFINE y == PlaceAfter(s, K, c, cut, i, x)
             w == PlaceAfter(s, K, c, cut, i + 1, x)
  <2>1. /\ y = IF x > i THEN x ELSE IF s[x] \in K THEN cut - c[cut] + c[x]
               ELSE IF x <= cut THEN x - c[x] ELSE x - c[x] + c[i]
        /\ w = IF x > i + 1 THEN x ELSE IF s[x] \in K THEN cut - c[cut] + c[x]
               ELSE IF x <= cut THEN x - c[x] ELSE x - c[x] + c[i + 1]
    BY DEF PlaceAfter
  <2>2. t[y] = s[x]
    OBVIOUS
  <2> HIDE DEF y, w
  <2>3. /\ c[x] \in Nat /\ c[x] <= x /\ c[x - 1] \in Nat /\ c[x - 1] <= x - 1 /\ x \in 0..n /\ x - 1 \in 0..n
        /\ s[x] \in K => c[x] = c[x - 1] + 1
        /\ s[x] \notin K => c[x] = c[x - 1]
    BY ONLY <1>0, <1>1, CountStep
  <2>4. /\ x <= i => c[x] <= c[i] /\ c[i] - c[x] <= i - x
        /\ x <= cut => c[x] <= c[cut] /\ c[cut] - c[x] <= cut - x
        /\ x > cut => c[cut] <= c[x - 1] /\ c[x - 1] - c[cut] <= x - 1 - cut
    <3>1. x > cut => cut <= x - 1
      BY ONLY <1>0, <1>1
    <3> QED BY ONLY <1>0, <1>1, <2>3, <3>1, CountBetween
  <2>f. PICK f \in Nat : f = c[x]
    BY ONLY <2>3
  <2>b. PICK b \in BOOLEAN : b <=> s[x] \in K
    OBVIOUS
  <2>ci. PICK ci \in Nat : ci = c[i]
    BY <1>3
  <2>cc. PICK cc \in Nat : cc = c[cut]
    BY <1>3
  <2>6. /\ y \in 1..n
        /\ y <= a => w = y
        /\ a < y /\ y <= i => w = y + 1
        /\ y = i + 1 => w = a + 1
        /\ y > i + 1 => w = y
    <3>1. /\ f <= x /\ (b => f >= 1) /\ (~b => f <= x - 1)
          /\ x <= i => f <= ci /\ ci - f <= i - x
          /\ x <= cut => f <= cc /\ cc - f <= cut - x
          /\ x > cut => f >= cc /\ (~b => f - cc <= x - 1 - cut)
      <4>1. f <= x /\ (b => f >= 1 /\ f = c[x - 1] + 1) /\ (~b => f <= x - 1 /\ f = c[x - 1])
        BY ONLY <2>f, <2>b, <2>3
      <4>2. /\ x <= i => f <= ci /\ ci - f <= i - x
            /\ x <= cut => f <= cc /\ cc - f <= cut - x
        BY ONLY <2>f, <2>ci, <2>cc, <2>4
      <4>3. x > cut => cc <= c[x - 1] /\ c[x - 1] - cc <= x - 1 - cut
        BY ONLY <2>cc, <2>4
      <4>4. PICK g \in Nat : g = c[x - 1]
        BY ONLY <2>3
      <4>5. (b => f = g + 1) /\ (~b => f = g) /\ (x > cut => cc <= g /\ g - cc <= x - 1 - cut)
        BY ONLY <4>1, <4>3, <4>4
      <4>6. x > cut => f >= cc /\ (~b => f - cc <= x - 1 - cut)
        BY ONLY <4>5, b \in BOOLEAN, f \in Nat, g \in Nat, cc \in Nat, x \in 1..n
      <4> QED BY ONLY <4>1, <4>2, <4>6
    <3>2. /\ cc <= cut /\ cc <= ci /\ ci - cc <= i - cut /\ a = cut - cc + ci
          /\ x = i + 1 => b /\ f = ci + 1
      BY ONLY <2>f, <2>b, <2>ci, <2>cc, <1>0, <1>3
    <3>4. /\ y = IF x > i THEN x ELSE IF b THEN cut - cc + f ELSE IF x <= cut THEN x - f ELSE x - f + ci
          /\ w = IF x > i + 1 THEN x ELSE IF b THEN cut - cc + f
                 ELSE IF x <= cut THEN x - f ELSE x - f + (ci + 1)
      BY ONLY <2>f, <2>b, <2>ci, <2>cc, <2>1, <1>3
    <3>5. y \in Int /\ w \in Int /\ a \in Int
      BY ONLY <1>1, <1>4, <3>4, x \in 1..n
    <3>6. n \in Nat /\ i \in 0..n - 1 /\ cut \in 0..i
      BY <1>1
    <3> HIDE DEF n
    <3> QED BY ONLY <3>1, <3>2, <3>4, <3>5, <3>6, x \in 1..n, JoinPlaces
  <2>7. y <= a \/ (a < y /\ y <= i) \/ y = i + 1 \/ y > i + 1
    BY ONLY <1>0, <1>1, <1>4, <2>6
  <2>8. u[w] = t[y]
    BY <1>5, <2>6, <2>7
  <2> QED BY <2>2, <2>8 DEF w
<1> QED BY <1>5, <1>6

(* Nothing is moved yet; the reference has been left; a download that is   *)
(* not to be moved has been passed.                                        *)
LEMMA ShiftNone ==
  ASSUME NEW s \in Seq(Downloads), NEW K, NEW c, Counting(c, s, K), NEW cut \in 0..Len(s),
         NEW x \in 1..Len(s)
  PROVE  PlaceBefore(s, K, c, cut, 0, x) = x
<1>1. Len(s) \in Nat /\ x \in Nat /\ x \in 0..Len(s) /\ x - 1 \in 0..Len(s)
  OBVIOUS
<1>2. c[x] \in Nat /\ c[x - 1] \in Nat /\ c[x] = IF s[x] \in K THEN c[x - 1] + 1 ELSE c[x - 1]
  BY <1>1 DEF Counting
<1> QED BY <1>1, <1>2 DEF PlaceBefore

LEMMA ShiftAll ==
  ASSUME NEW s \in Seq(Downloads), NEW K, NEW c, Counting(c, s, K), NEW i \in 0..Len(s) - 1,
         NEW cut \in {i, i + 1}, NEW x \in 1..Len(s)
  PROVE  PlaceBefore(s, K, c, cut, c[cut], x) = PlaceAfter(s, K, c, cut, i + 1, x)
<1>1. Len(s) \in Nat /\ i \in Nat /\ cut \in 0..Len(s) /\ x \in Nat /\ x \in 0..Len(s) /\ x - 1 \in 0..Len(s)
      /\ i + 1 \in 0..Len(s) /\ i \in 0..Len(s)
  OBVIOUS
<1>2. /\ c[x] \in Nat /\ c[x - 1] \in Nat /\ c[x] = IF s[x] \in K THEN c[x - 1] + 1 ELSE c[x - 1]
      /\ c[cut] \in Nat /\ (x <= cut => c[x] <= c[cut]) /\ c[i + 1] \in Nat
  BY <1>1 DEF Counting
<1>3. CASE x <= cut
  BY <1>1, <1>2, <1>3 DEF PlaceBefore, PlaceAfter
<1>4. CASE x > i + 1
  BY <1>1, <1>2, <1>4 DEF PlaceBefore, PlaceAfter
<1>5. CASE x > cut /\ x <= i + 1
  <2>1. cut = i /\ x = i + 1 /\ x - 1 = i
    BY <1>1, <1>5
  <2> QED BY <1>1, <1>2, <1>5, <2>1 DEF PlaceBefore, PlaceAfter
<1> QED BY <1>1, <1>3, <1>4, <1>5

LEMMA PassOne ==
  ASSUME NEW s \in Seq(Downloads), NEW K, NEW c, Counting(c, s, K), NEW i \in 0..Len(s) - 1,
         NEW cut \in 0..i, s[i + 1] \notin K, NEW x \in 1..Len(s)
  PROVE  PlaceAfter(s, K, c, cut, i, x) = PlaceAfter(s, K, c, cut, i + 1, x)
<1>1. Len(s) \in Nat /\ i \in Nat /\ cut \in Nat /\ x \in Nat /\ x \in 0..Len(s) /\ i + 1 \in 1..Len(s)
      /\ i + 1 - 1 = i /\ i \in 0..Len(s)
  OBVIOUS
<1>2. c[x] \in Nat /\ c[i] \in Nat /\ c[i + 1] = c[i]
  <2>1. c[i + 1] = c[i + 1 - 1] /\ c[i + 1 - 1] \in Nat /\ c[x] \in Nat
    BY <1>1, CountStep
  <2> QED BY <1>1, <2>1
<1>3. CASE x = i + 1
  BY <1>1, <1>2, <1>3 DEF PlaceAfter
<1>4. CASE x # i + 1
  BY <1>1, <1>2, <1>4 DEF PlaceAfter
<1> QED BY <1>3, <1>4

(* The order that a move leaves. *)
Cutting(s, K, c, t, cut, l, r, L, R) ==
  /\ s \in Seq(Downloads) /\ IsCount(c, s, K) /\ Counting(c, s, K)
  /\ t \in Seq(Downloads) /\ Len(t) = Len(s) /\ cut \in 0..Len(s)
  /\ \A x \in 1..Len(s) : t[PlaceAfter(s, K, c, cut, Len(s), x)] = s[x]
  /\ l = SubSeq(s, 1, cut) /\ r = SubSeq(s, cut + 1, Len(s))
  /\ \A x \in 1..Len(l) : l[x] \in L <=> l[x] \notin K
  /\ \A x \in 1..Len(r) : r[x] \in R <=> r[x] \notin K
LEMMA Joined ==
  ASSUME NEW s, NEW K, NEW c, NEW t, NEW cut, NEW l, NEW r, NEW L, NEW R,
         Cutting(s, K, c, t, cut, l, r, L, R)
  PROVE  t = Only(l, L) \o Only(s, K) \o Only(r, R)
<1>a. /\ s \in Seq(Downloads) /\ IsCount(c, s, K) /\ Counting(c, s, K)
      /\ t \in Seq(Downloads) /\ Len(t) = Len(s) /\ cut \in 0..Len(s)
      /\ \A x \in 1..Len(s) : t[PlaceAfter(s, K, c, cut, Len(s), x)] = s[x]
      /\ l = SubSeq(s, 1, cut) /\ r = SubSeq(s, cut + 1, Len(s))
      /\ \A x \in 1..Len(l) : l[x] \in L <=> l[x] \notin K
      /\ \A x \in 1..Len(r) : r[x] \in R <=> r[x] \notin K
  BY DEF Cutting
<1> USE <1>a
<1>0. PICK n \in Nat : n = Len(s)
  OBVIOUS
<1>1. /\ s \in Seq(Downloads) /\ Counting(c, s, K) /\ cut \in Nat /\ cut <= n /\ cut \in 0..n
      /\ cut \in 0..Len(s) /\ n \in 0..Len(s)
  BY <1>0
<1>2. /\ l \in Seq(Downloads) /\ Len(l) = cut /\ \A x \in 1..cut : l[x] = s[x]
      /\ r \in Seq(Downloads) /\ Len(r) = n - cut /\ \A x \in 1..n - cut : r[x] = s[cut + x]
  BY <1>0, <1>1, Cuts
<1>3. PICK m \in Nat, k \in Nat : m = c[cut] /\ k = c[n] /\ m <= k /\ m <= cut /\ k - m <= n - cut
  BY ONLY <1>0, <1>1, CountBetween
<1>4. \A x \in 1..n : /\ s[x] \in K => t[cut - m + c[x]] = s[x]
                      /\ s[x] \notin K /\ x <= cut => t[x - c[x]] = s[x]
                      /\ s[x] \notin K /\ x > cut => t[x - c[x] + k] = s[x]
  <2> TAKE x \in 1..n
  <2>1. t[PlaceAfter(s, K, c, cut, n, x)] = s[x] /\ ~(x > n) /\ (x > cut => ~(x <= cut))
    BY <1>0, <1>1
  <2> QED BY <1>3, <2>1 DEF PlaceAfter
<1> DEFINE P == Only(l, L)
           Q == Only(s, K)
           Z == Only(r, R)
<1>5. /\ P \in Seq(Downloads) /\ Len(P) = cut - m /\ \A a \in 1..cut - m : P[a] = t[a]
  <2> DEFINE e == [x \in 0..cut |-> x - c[x]]
  <2>1. \A x \in 1..cut : x \in 1..n /\ x \in 1..Len(s) /\ x \in 0..cut /\ x - 1 \in 0..cut
    BY <1>0, <1>1
  <2>2. \A x \in 0..cut : x \in 0..Len(s)
    BY <1>0, <1>1
  <2>3. \A x \in 1..cut : e[x] = x - c[x] /\ e[x - 1] = x - 1 - c[x - 1]
    BY <2>1
  <2>4. e \in [0..cut -> Int] /\ e[0] = 0 /\ e[cut] = cut - m
    <3>1. \A x \in 0..cut : c[x] \in Nat
      BY <2>2 DEF Counting
    <3>2. c[0] = 0 /\ 0 \in 0..cut /\ cut \in 0..cut
      BY <1>1 DEF Counting
    <3> QED BY <1>1, <1>3, <3>1, <3>2
  <2> HIDE DEF e
  <2>5. ASSUME NEW x \in 1..cut PROVE e[x] = IF l[x] \in L THEN e[x - 1] + 1 ELSE e[x - 1]
    <3>1. /\ c[x] \in Nat /\ c[x - 1] \in Nat
          /\ s[x] \in K => c[x] = c[x - 1] + 1
          /\ s[x] \notin K => c[x] = c[x - 1]
      BY ONLY <1>1, <2>1, x \in 1..cut, CountStep
    <3>2. l[x] \in L <=> s[x] \notin K
      BY <1>2
    <3>4. PICK f \in Nat, g \in Nat : f = c[x] /\ g = c[x - 1]
      BY <3>1
    <3>5. (s[x] \in K => f = g + 1) /\ (s[x] \notin K => f = g)
      BY <3>1, <3>4
    <3>6. e[x] = x - f /\ e[x - 1] = x - 1 - g
      BY <2>3, <3>4
    <3>7. e[x - 1] + 1 = x - g
      BY ONLY <3>6, g \in Nat, x \in 1..cut
    <3>8. s[x] \in K => e[x] = e[x - 1]
      BY ONLY <3>5, <3>6, g \in Nat, x \in 1..cut
    <3> QED BY ONLY <3>2, <3>5, <3>6, <3>7, <3>8
  <2>6. IsCount(e, l, L)
    BY <1>2, <2>4, <2>5 DEF IsCount
  <2>7. /\ P \in Seq(Downloads) /\ Len(P) = e[Len(l)]
        /\ \A x \in 1..Len(l) : l[x] \in L => P[e[x]] = l[x]
        /\ \A a \in 1..Len(P) : \E x \in 1..Len(l) : l[x] \in L /\ e[x] = a
    <3>1. l \in Seq(Downloads)
      BY <1>2
    <3> QED BY ONLY <2>6, <3>1, OnlyPlaces
  <2> HIDE DEF P
  <2>8. ASSUME NEW a \in 1..cut - m PROVE P[a] = t[a]
    <3>1. PICK x \in 1..cut : l[x] \in L /\ e[x] = a
      BY <1>2, <2>4, <2>7
    <3>2. P[a] = l[x] /\ l[x] = s[x] /\ s[x] \notin K
      BY <1>2, <2>7, <3>1
    <3>3. t[x - c[x]] = s[x] /\ x - c[x] = a
      BY <1>1, <1>4, <2>1, <2>3, <3>1, <3>2
    <3> QED BY <3>2, <3>3
  <2> QED BY <1>2, <2>4, <2>7, <2>8
<1>6. /\ Q \in Seq(Downloads) /\ Len(Q) = k /\ \A a \in 1..k : Q[a] = t[cut - m + a]
  <2>1. /\ Q \in Seq(Downloads) /\ Len(Q) = k
        /\ \A x \in 1..Len(s) : s[x] \in K => Q[c[x]] = s[x]
        /\ \A a \in 1..Len(Q) : \E x \in 1..Len(s) : s[x] \in K /\ c[x] = a
    <3>1. IsCount(c, s, K) /\ s \in Seq(Downloads)
      OBVIOUS
    <3> QED BY ONLY <1>0, <1>3, <3>1, OnlyPlaces
  <2> HIDE DEF Q
  <2>2. ASSUME NEW a \in 1..k PROVE Q[a] = t[cut - m + a]
    <3>1. PICK x \in 1..n : s[x] \in K /\ c[x] = a
      BY <1>0, <2>1
    <3>2. t[cut - m + c[x]] = s[x]
      BY ONLY <1>4, <3>1, x \in 1..n
    <3>3. Q[c[x]] = s[x]
      BY ONLY <1>0, <2>1, <3>1, x \in 1..n
    <3> QED BY ONLY <3>1, <3>2, <3>3
  <2> QED BY <2>1, <2>2
<1>7. /\ Z \in Seq(Downloads) /\ Len(Z) = (n - cut) - (k - m)
      /\ \A a \in 1..(n - cut) - (k - m) : Z[a] = t[cut - m + k + a]
  <2> DEFINE e == [y \in 0..n - cut |-> y - (c[cut + y] - m)]
  <2>1. \A y \in 1..n - cut : /\ cut + y \in 1..Len(s) /\ cut + y \in 1..n /\ y \in 0..n - cut
                              /\ y - 1 \in 0..n - cut /\ cut + (y - 1) = cut + y - 1 /\ cut + y > cut
    BY <1>0, <1>1
  <2>2. \A y \in 0..n - cut : cut + y \in 0..Len(s)
    BY <1>0, <1>1
  <2>3. \A y \in 1..n - cut : e[y] = y - (c[cut + y] - m) /\ e[y - 1] = y - 1 - (c[cut + y - 1] - m)
    <3> TAKE y \in 1..n - cut
    <3>1. e[y - 1] = y - 1 - (c[cut + (y - 1)] - m)
      BY <2>1
    <3> QED BY <2>1, <3>1
  <2>4. e \in [0..n - cut -> Int] /\ e[0] = 0 /\ e[n - cut] = (n - cut) - (k - m)
    <3>1. \A y \in 0..n - cut : c[cut + y] \in Nat
      BY <2>2 DEF Counting
    <3>2. /\ 0 \in 0..n - cut /\ n - cut \in 0..n - cut /\ cut + 0 = cut /\ cut + (n - cut) = n
      BY <1>1
    <3>3. \A y \in 0..n - cut : y - (c[cut + y] - m) \in Int
      BY <3>1, <1>3, SMTT(30)
    <3>4. e[0] = 0 - (c[cut + 0] - m) /\ e[n - cut] = (n - cut) - (c[cut + (n - cut)] - m)
      BY <3>2
    <3>5. e \in [0..n - cut -> Int]
      BY <3>3
    <3> HIDE DEF e
    <3>6. e[0] = 0 - (m - m) /\ e[n - cut] = (n - cut) - (k - m)
      BY <1>3, <3>2, <3>4
    <3> QED BY <3>5, <3>6, <1>3
  <2> HIDE DEF e
  <2>5. ASSUME NEW y \in 1..n - cut PROVE e[y] = IF r[y] \in R THEN e[y - 1] + 1 ELSE e[y - 1]
    <3>0. PICK x \in 1..Len(s) : x = cut + y
      BY <2>1
    <3>1. /\ c[x] \in Nat /\ c[x - 1] \in Nat
          /\ s[x] \in K => c[x] = c[x - 1] + 1
          /\ s[x] \notin K => c[x] = c[x - 1]
      BY ONLY <1>1, x \in 1..Len(s), CountStep
    <3>2. r[y] \in R <=> s[x] \notin K
      BY <1>2, <3>0
    <3>3. e[y] = y - (c[x] - m) /\ e[y - 1] = y - 1 - (c[x - 1] - m)
      BY <2>3, <3>0
    <3>4. PICK f \in Nat, g \in Nat : f = c[x] /\ g = c[x - 1]
      BY <3>1
    <3>5. y \in Int /\ (s[x] \in K => f = g + 1) /\ (s[x] \notin K => f = g)
      BY <3>1, <3>4
    <3>6. e[y] = y - (f - m) /\ e[y - 1] = y - 1 - (g - m)
      BY <3>3, <3>4
    <3>7. e[y - 1] + 1 = y - (g - m)
      BY ONLY <3>5, <3>6, g \in Nat, m \in Nat
    <3>8. s[x] \in K => e[y] = e[y - 1]
      BY ONLY <3>5, <3>6, g \in Nat, m \in Nat
    <3> QED BY ONLY <3>2, <3>5, <3>6, <3>7, <3>8
  <2>6. IsCount(e, r, R)
    BY <1>2, <2>4, <2>5 DEF IsCount
  <2>7. /\ Z \in Seq(Downloads) /\ Len(Z) = e[Len(r)]
        /\ \A x \in 1..Len(r) : r[x] \in R => Z[e[x]] = r[x]
        /\ \A a \in 1..Len(Z) : \E x \in 1..Len(r) : r[x] \in R /\ e[x] = a
    <3>1. r \in Seq(Downloads)
      BY <1>2
    <3> QED BY ONLY <2>6, <3>1, OnlyPlaces
  <2> HIDE DEF Z
  <2>8. ASSUME NEW a \in 1..(n - cut) - (k - m) PROVE Z[a] = t[cut - m + k + a]
    <3>1. PICK y \in 1..n - cut : r[y] \in R /\ e[y] = a
      BY <1>2, <2>4, <2>7, ZenonT(60)
    <3>2. Z[a] = r[y] /\ r[y] = s[cut + y] /\ s[cut + y] \notin K
      BY <1>2, <2>7, <3>1
    <3>3. PICK f \in Nat : f = c[cut + y]
      BY <2>1, <2>2 DEF Counting
    <3>4. t[cut + y - f + k] = s[cut + y] /\ a = y - (f - m)
      <4>1. PICK x \in 1..n : x = cut + y /\ x > cut
        BY <2>1
      <4>2. t[x - c[x] + k] = s[x]
        BY ONLY <1>4, <3>2, <4>1
      <4>3. t[cut + y - f + k] = s[cut + y]
        <5>1. c[x] = f /\ x = cut + y
          BY ONLY <3>3, <4>1
        <5>2. x - f + k = cut + y - f + k
          BY ONLY <5>1, <1>1, f \in Nat, k \in Nat, y \in 1..n - cut
        <5>3. t[x - f + k] = s[x]
          BY ONLY <4>2, <5>1
        <5> QED BY ONLY <5>1, <5>2, <5>3
      <4>4. a = y - (f - m)
        BY <2>3, <3>1, <3>3
      <4> QED BY <4>3, <4>4
    <3>5. cut + y - f + k = cut - m + k + a
      BY ONLY <1>1, <3>4, f \in Nat, m \in Nat, k \in Nat, y \in 1..n - cut, n \in Nat
    <3> QED BY <3>2, <3>4, <3>5
  <2> QED BY <1>2, <2>4, <2>7, <2>8
<1> HIDE DEF P, Q, Z
<1>8. /\ P \o Q \in Seq(Downloads) /\ Len(P \o Q) = Len(P) + Len(Q)
      /\ \A a \in 1..Len(P) + Len(Q) : (P \o Q)[a] = IF a <= Len(P) THEN P[a] ELSE Q[a - Len(P)]
  BY ONLY <1>5, <1>6, ConcatProperties
<1> DEFINE V == P \o Q
<1> HIDE DEF V
<1>9. /\ V \o Z \in Seq(Downloads) /\ Len(V \o Z) = Len(V) + Len(Z)
      /\ \A a \in 1..Len(V) + Len(Z) : (V \o Z)[a] = IF a <= Len(V) THEN V[a] ELSE Z[a - Len(V)]
  <2>1. V \in Seq(Downloads) /\ Z \in Seq(Downloads)
    BY <1>7, <1>8 DEF V
  <2> QED BY ONLY <2>1, ConcatProperties
<1>10. PICK p \in Nat : p = cut - m
  BY <1>1, <1>3
<1>11. Len(P) = p /\ Len(V) = p + k /\ Len(V) + Len(Z) = n
  <2>1. Len(V) = Len(P) + Len(Q) /\ Len(P) = p /\ Len(Q) = k /\ Len(Z) = (n - cut) - (k - m)
    BY ONLY <1>5, <1>6, <1>7, <1>8, <1>10 DEF V
  <2> QED BY ONLY <1>1, <1>10, <2>1, n \in Nat, m \in Nat, k \in Nat, p \in Nat
<1>12. ASSUME NEW a \in 1..n PROVE (V \o Z)[a] = t[a]
  <2>1. CASE a <= p
    <3>1. a \in 1..Len(P) + Len(Q) /\ a \in 1..cut - m /\ a <= Len(V)
      BY <1>5, <1>6, <1>10, <1>11, <2>1
    <3> QED BY <1>5, <1>8, <1>9, <1>11, <2>1, <3>1 DEF V
  <2>2. CASE p < a /\ a <= p + k
    <3>1. PICK b \in 1..k : b = a - p /\ p + b = a
      BY <2>2
    <3>2. (V \o Z)[a] = V[a] /\ V[a] = Q[b]
      <4>1. a <= Len(V) /\ a \in 1..Len(P) + Len(Q) /\ ~(a <= Len(P)) /\ a - Len(P) = b
        BY <1>6, <1>11, <2>2, <3>1
      <4> QED BY <1>8, <1>9, <1>11, <4>1 DEF V
    <3> QED BY <1>6, <1>10, <3>1, <3>2
  <2>3. CASE a > p + k
    <3>1. PICK b \in 1..(n - cut) - (k - m) : b = a - (p + k) /\ cut - m + k + b = a
      BY ONLY <1>1, <1>10, <2>3, a \in 1..n, n \in Nat, m \in Nat, k \in Nat, p \in Nat
    <3>2. (V \o Z)[a] = Z[b]
      <4>1. ~(a <= Len(V)) /\ a - Len(V) = b
        BY <1>11, <2>3, <3>1
      <4> QED BY <1>9, <1>11, <4>1
    <3> QED BY <1>7, <3>1, <3>2
  <2>4. a <= p \/ (p < a /\ a <= p + k) \/ a > p + k
    BY ONLY a \in 1..n, n \in Nat, p \in Nat, k \in Nat
  <2> QED BY <2>1, <2>2, <2>3, <2>4
<1>13. t = V \o Z
  <2>1. Len(t) = Len(V \o Z)
    BY <1>0, <1>9, <1>11
  <2> QED BY <1>0, <1>9, <1>12, <2>1, SeqEqual
<1> QED BY <1>13 DEF P, Q, Z, V

-----------------------------------------------------------------------------
(* The commands, from the queue they began with to the one they leave.     *)

BornIn(st, s) == \A x \in 1..Len(s) : st[s[x]] # "unborn"
BornOK ==
  /\ Distinct(downloads) /\ BornIn(status, downloads)
  /\ handler.kind # "idle" => Distinct(handler.before) /\ BornIn(status, handler.before)

(* A reload: the downloads of the file come after those that were there.   *)
LoadingOK ==
  Loading => /\ Len(handler.before) <= Len(downloads)
             /\ \A x \in 1..Len(handler.before) : downloads[x] = handler.before[x]

(* The directory that was at p has been replaced so far by e children: it  *)
(* is not there any more and the others keep their order.  If no child was *)
(* known they keep their places too, and every file entered was inserted.  *)
Replacing(h, t, p, e) ==
  /\ e >= 0 /\ h.at >= p - 1 /\ p - 1 <= Len(t)
  /\ \A x \in 1..Len(t) : t[x] # h.before[p]
  /\ \A x \in 1..p - 1 : t[x] = h.before[x]
  /\ Only(t, ToSet(h.before)) = Only(h.before, ToSet(h.before) \ {h.before[p]})
ReplacingWell(h, t, p, e) ==
  /\ h.at = p - 1 + e
  /\ \A x \in p + 1..Len(h.before) : t[x - 1 + e] = h.before[x]
  /\ h.pass = "files" =>
       \A x \in 1..Len(t) :
         t[x] \in ToSet(h.before) \/ \E k \in 1..h.n - 1 : NameOf[t[x]] = h.entries[k].name
ReplacedAt(h, t, p) ==
  LET e == Len(t) - (Len(h.before) - 1)
  IN Replacing(h, t, p, e) /\ (~KnownChild => ReplacingWell(h, t, p, e))
ReplacingOK ==
  handler.kind = "entering" /\ ~Loading =>
    \E p \in 1..Len(handler.before) : ReplacedAt(handler, downloads, p)

(* A removal that has met the first m downloads.                           *)
Met(h, t, s, c, m) ==
  /\ h.position = m - c[m] /\ Len(t) = Len(s) - c[m]
  /\ \A x \in 1..m : s[x] \notin h.selected => t[x - c[x]] = s[x]
  /\ \A x \in m + 1..Len(s) : t[x - c[m]] = s[x]
RemovingOK ==
  handler.kind = "removing" =>
    \E m \in 0..Len(handler.before) :
      Met(handler, downloads, handler.before, CountOf(handler.before, handler.selected), m)

(* Of a move: the indices in toMove are those, among the first k, of the   *)
(* downloads to move; the reference was met after the first cut, or is the *)
(* last of these.                                                          *)
ToMoveIs(h, s, c, k) ==
  /\ Len(h.toMove) = c[k]
  /\ \A l \in 1..Len(h.toMove) : h.toMove[l] \in 0..k - 1 /\ s[h.toMove[l] + 1] \in h.ids /\ c[h.toMove[l] + 1] = l
CutIs(h, s, cut) ==
  IF h.after
  THEN cut >= 1 /\ s[cut] \in h.refs /\ \A r \in h.refs : \E x \in 1..cut : s[x] = r
  ELSE cut < Len(s) /\ s[cut + 1] \in h.refs /\ \A x \in 1..cut : s[x] \notin h.refs
RefAt(h, s, cut) == h.ref = s[IF h.after THEN cut ELSE cut + 1]

Looking(h, t, s, c) ==
  /\ t = s /\ ToMoveIs(h, s, c, h.i) /\ h.refs # {}
  /\ h.ref # NoRef => h.refs = {h.ref}
  /\ h.ref = NoRef => h.left = h.refs \ {s[x] : x \in 1..h.i}
  /\ h.after => ~(h.refs \subseteq {s[x] : x \in 1..h.i})
  /\ ~h.after => \A x \in 1..h.i : s[x] \notin h.refs
Shifting(h, t, s, c) ==
  LET cut == IF h.after THEN h.i + 1 ELSE h.i
  IN /\ h.i < Len(s) /\ CutIs(h, s, cut) /\ RefAt(h, s, cut) /\ ToMoveIs(h, s, c, h.i + 1)
     /\ h.j <= Len(h.toMove) + 1
     /\ \/ h.iRef = h.i /\ h.shift = 1 - h.j /\ h.j <= c[cut] + 1
        \/ /\ h.iRef = h.i + 1 /\ h.shift = 2 - h.j
           /\ ~h.after /\ s[h.i + 1] \in h.ids /\ h.j = Len(h.toMove) + 1
     /\ \A x \in 1..Len(s) : t[PlaceBefore(s, h.ids, c, cut, 0 - h.shift, x)] = s[x]
Joining(h, t, s, c, cut) ==
  /\ CutIs(h, s, cut) /\ RefAt(h, s, cut) /\ h.toMove = <<>>
  /\ (IF h.after THEN cut ELSE cut + 1) <= h.i
  /\ (IF h.after THEN h.iRef + 1 ELSE h.iRef) = cut - c[cut] + c[h.i]
  /\ \A x \in 1..Len(s) : t[PlaceAfter(s, h.ids, c, cut, h.i, x)] = s[x]
Moved(h, t, s, c) ==
  /\ Len(t) = Len(s)
  /\ h.j = 0 /\ h.iRef = -1 => Looking(h, t, s, c)
  /\ h.j > 0 => h.iRef # -1 /\ Shifting(h, t, s, c)
  /\ h.j = 0 /\ h.iRef # -1 => \E cut \in 0..Len(s) : Joining(h, t, s, c, cut)
MovingOK ==
  handler.kind = "moving" =>
    Moved(handler, downloads, handler.before, CountOf(handler.before, handler.ids))

OrderInv == BornOK /\ LoadingOK /\ ReplacingOK /\ RemovingOK /\ MovingOK

(* Only the end of the program makes a download unborn again. *)
LEMMA StaysBorn ==
  ASSUME IInv, Next, ~Quit, ~Crash, NEW d \in Downloads, status[d] # "unborn"
  PROVE  status'[d] # "unborn"
<1>1. status \in [Downloads -> Statuses]
  BY DEF IInv, QueueOK, Marked
<1>2. ASSUME NEW b \in Downloads, NEW st, st # "unborn", SetStatus(b, st)
      PROVE  status'[d] # "unborn"
  BY <1>1, <1>2 DEF SetStatus
<1>3. ASSUME NEW entry, NEW position, NEW loading, AddDownload(entry, position, loading)
      PROVE  status'[d] # "unborn"
  <2>1. CASE AlreadyQueued(entry)
    BY <1>3, <2>1 DEF AddDownload
  <2>2. CASE ~AlreadyQueued(entry)
    <3>1. PICK b \in Downloads :
            \E created \in {"live", "complete"} :
              \E started \in IF created = "live" THEN Outcomes(b) ELSE {created} : SetStatus(b, started)
      BY <1>3, <2>2 DEF AddDownload
    <3>2. PICK created \in {"live", "complete"} :
            \E started \in IF created = "live" THEN Outcomes(b) ELSE {created} : SetStatus(b, started)
      BY <3>1
    <3>3. PICK started \in IF created = "live" THEN Outcomes(b) ELSE {created} : SetStatus(b, started)
      BY <3>2
    <3>4. started # "unborn"
      BY <3>3, OutcomesTyped
    <3> QED BY <1>2, <3>3, <3>4
  <2> QED BY <2>1, <2>2
<1>4. CASE \E n \in Asked, p \in Destinations : UserAdds(n, p)
  BY <1>3, <1>4 DEF UserAdds
<1>5. CASE Enter
  BY <1>3, <1>5 DEF Enter
<1>6. CASE (\E b \in Dirs : \E l \in Listings[NameOf[b]] : NewEntries(b, l)) \/ RemoveOne
  BY <1>1, <1>6 DEF NewEntries, RemoveOne
<1>7. CASE \/ LoadQueue \/ EnterSkips \/ SecondPass \/ EnterEnds \/ RemoveSkips \/ RemoveEnds
           \/ MoveBack \/ MoveLooks \/ MoveForward \/ MoveKeepsRef \/ ShiftEnds \/ MoveEnds
           \/ RestartNone \/ Save \/ RemoveSome \/ RemoveComplete
  BY <1>7 DEF LoadQueue, EnterSkips, SecondPass, EnterEnds, RemoveSkips, RemoveEnds, MoveBack, MoveLooks,
              MoveForward, MoveKeepsRef, ShiftEnds, MoveEnds, RestartNone, Save, RemoveSome,
              RemoveComplete, RemoveDownloads
<1>8. CASE \/ \E ids, refs \in Selections, after \in BOOLEAN : Move(ids, refs, after)
           \/ \E P \in Predicates : Scan(P)
           \/ \E b \in Downloads, p \in Places : FileCreated(b, p)
  BY <1>8 DEF Move, Scan, FileCreated
<1>9. CASE \E b \in Downloads : PauseOrHash(b)
  BY <1>1, <1>9 DEF PauseOrHash
<1>10. CASE \E b \in Downloads : FileReset(b)
  BY <1>2, <1>10 DEF FileReset
<1>11. CASE \E b \in Downloads, st \in {"live", "erroneous", "complete"} : StatusChanges(b, st)
  BY <1>2, <1>11 DEF StatusChanges
<1>12. CASE \E k \in 1..MaxListed : Restart(k)
  <2>1. PICK b \in Downloads : \E st \in Outcomes(b) : status' = [status EXCEPT ![b] = st]
    <3>1. PICK k \in DOMAIN erroneous :
            \E st \in Outcomes(erroneous[k]) : status' = [status EXCEPT ![erroneous[k]] = st]
      BY <1>12 DEF Restart
    <3>2. erroneous[k] \in Downloads
      BY DEF IInv, RestOK
    <3> QED BY <3>1, <3>2
  <2> QED BY <1>1, <2>1, OutcomesTyped
<1> QED BY <1>4, <1>5, <1>6, <1>7, <1>8, <1>9, <1>10, <1>11, <1>12 DEF Next

LEMMA BornFrame ==
  ASSUME IInv, Next, ~Quit, ~Crash, NEW s \in Seq(Downloads), BornIn(status, s)
  PROVE  BornIn(status', s)
<1>1. \A x \in 1..Len(s) : s[x] \in Downloads
  OBVIOUS
<1> QED BY <1>1, StaysBorn DEF BornIn

(* What addDownload adds. *)
Adds(d, position) ==
  /\ d \in Downloads /\ status[d] = "unborn" /\ status'[d] # "unborn"
  /\ downloads' = Inserted(downloads, position, d)
LEMMA AddsOne ==
  ASSUME IInv, NEW entry, NEW position, NEW loading, AddDownload(entry, position, loading)
  PROVE  \/ AlreadyQueued(entry) /\ UNCHANGED <<downloads, status>>
         \/ ~AlreadyQueued(entry) /\ \E d \in Downloads : NameOf[d] = entry.name /\ Adds(d, position)
<1>1. CASE AlreadyQueued(entry)
  BY <1>1 DEF AddDownload
<1>2. CASE ~AlreadyQueued(entry)
  <2>1. PICK b \in Downloads :
          \E created \in {"live", "complete"} :
            \E started \in IF created = "live" THEN Outcomes(b) ELSE {created} :
              /\ NameOf[b] = entry.name /\ status[b] = "unborn"
              /\ downloads' = Inserted(downloads, position, b)
              /\ SetStatus(b, started)
    BY <1>2 DEF AddDownload
  <2>2. PICK created \in {"live", "complete"} :
          \E started \in IF created = "live" THEN Outcomes(b) ELSE {created} : SetStatus(b, started)
    BY <2>1
  <2>3. PICK started \in IF created = "live" THEN Outcomes(b) ELSE {created} : SetStatus(b, started)
    BY <2>2
  <2>4. started # "unborn" /\ status \in [Downloads -> Statuses]
    BY <2>3, OutcomesTyped DEF IInv, QueueOK, Marked
  <2>5. status'[b] # "unborn"
    BY <2>3, <2>4 DEF SetStatus
  <2> QED BY <1>2, <2>1, <2>5 DEF Adds
<1> QED BY <1>1, <1>2

LEMMA AddedBorn ==
  ASSUME IInv, Next, ~Quit, ~Crash, Distinct(downloads), BornIn(status, downloads),
         NEW d, NEW position \in Nat, Adds(d, position)
  PROVE  Distinct(downloads') /\ BornIn(status', downloads')
<1> DEFINE s == downloads
           t == downloads'
<1>1. s \in Seq(Downloads) /\ Len(s) \in Nat /\ d \in Downloads /\ t = Inserted(s, position, d)
  BY DEF IInv, QueueOK, Marked, Adds
<1>2. PICK k \in 0..Len(s) : k = IF position <= Len(s) THEN position ELSE Len(s)
  BY <1>1
<1>3. InsertedAfter(t, s, k, d)
  BY <1>1, <1>2, InsertedPlaces
<1>4. /\ Len(t) = Len(s) + 1 /\ t[k + 1] = d
      /\ \A y \in 1..Len(t) : (y <= k => t[y] = s[y]) /\ (y > k + 1 => t[y] = s[y - 1])
  BY <1>3 DEF InsertedAfter
<1>5. \A x \in 1..Len(s) : s[x] # d /\ status'[s[x]] # "unborn"
  <2>1. \A x \in 1..Len(s) : s[x] # d
    BY DEF BornIn, Adds
  <2> QED BY <1>1, <2>1, BornFrame DEF BornIn
<1>6. \A x, y \in 1..Len(s) : s[x] = s[y] => x = y
  BY DEF Distinct
<1> HIDE DEF s, t
<1>7. \A y \in 1..Len(t) : /\ y <= k => y \in 1..Len(s)
                           /\ y > k + 1 => y - 1 \in 1..Len(s)
                           /\ y <= k \/ y = k + 1 \/ y > k + 1
  BY <1>1, <1>4
<1>8. ASSUME NEW y \in 1..Len(t), NEW z \in 1..Len(t), t[y] = t[z] PROVE y = z
  <2>1. CASE y = k + 1
    BY <1>4, <1>5, <1>7, <1>8, <2>1
  <2>2. CASE z = k + 1
    BY <1>4, <1>5, <1>7, <1>8, <2>2
  <2>3. CASE y <= k /\ z <= k
    BY <1>4, <1>6, <1>7, <1>8, <2>3
  <2>4. CASE y <= k /\ z > k + 1
    <3>1. y = z - 1
      BY <1>4, <1>6, <1>7, <1>8, <2>4
    <3> QED BY <2>4, <3>1
  <2>5. CASE y > k + 1 /\ z <= k
    <3>1. z = y - 1
      BY <1>4, <1>6, <1>7, <1>8, <2>5, SMTT(30)
    <3> QED BY <2>5, <3>1
  <2>6. CASE y > k + 1 /\ z > k + 1
    <3>1. z - 1 = y - 1
      BY <1>4, <1>6, <1>7, <1>8, <2>6
    <3> QED BY <3>1
  <2> QED BY <1>7, <2>1, <2>2, <2>3, <2>4, <2>5, <2>6
<1>9. \A y \in 1..Len(t) : status'[t[y]] # "unborn"
  <2>1. status'[d] # "unborn"
    BY DEF Adds
  <2> QED BY <1>4, <1>5, <1>7, <2>1
<1> QED BY <1>8, <1>9 DEF Distinct, BornIn, t

LEMMA IdleOrder ==
  ASSUME handler' = Idle, Distinct(downloads'), BornIn(status', downloads')
  PROVE  OrderInv'
<1>1. handler'.kind = "idle"
  BY DEF Idle
<1>2. ~Loading'
  BY <1>1 DEF Loading
<1> QED
  BY <1>1, <1>2 DEF OrderInv, BornOK, LoadingOK, ReplacingOK, RemovingOK, MovingOK

LEMMA FrameOrder ==
  ASSUME IInv, OrderInv, Next, ~Quit, ~Crash, UNCHANGED <<downloads, handler>>
  PROVE  OrderInv'
<1>1. downloads \in Seq(Downloads) /\ handler \in Handlers
  BY DEF IInv, QueueOK, Marked, HandlerOK
<1>2. handler.kind # "idle" => handler.before \in Seq(Downloads)
  BY <1>1 DEF Handlers, Idle, Entering, Removing, Moving
<1>3. BornOK'
  BY <1>1, <1>2, BornFrame DEF OrderInv, BornOK
<1>4. (LoadingOK' <=> LoadingOK) /\ (ReplacingOK' <=> ReplacingOK)
  BY DEF LoadingOK, ReplacingOK, ReplacedAt, Loading, KnownChild
<1>5. (RemovingOK' <=> RemovingOK) /\ (MovingOK' <=> MovingOK)
  BY DEF RemovingOK, MovingOK
<1> QED BY <1>3, <1>4, <1>5 DEF OrderInv

(* A command that begins. *)
LEMMA CommandStarts ==
  ASSUME IInv, OrderInv, Next, ~Quit, ~Crash, UNCHANGED downloads, handler'.before = downloads
  PROVE  BornOK'
<1>1. downloads \in Seq(Downloads)
  BY DEF IInv, QueueOK, Marked
<1> QED BY <1>1, BornFrame DEF OrderInv, BornOK

LEMMA LoadOrder ==
  ASSUME IInv, OrderInv, Next, ~Quit, ~Crash, LoadQueue
  PROVE  OrderInv'
<1>1. /\ handler'.kind = "entering" /\ handler'.pass = "saved" /\ handler'.before = downloads
      /\ UNCHANGED downloads /\ Len(downloads) \in Nat
  BY DEF LoadQueue, IInv, QueueOK, Marked
<1>2. Loading'
  BY <1>1 DEF Loading
<1>3. LoadingOK'
  BY <1>1 DEF LoadingOK
<1>4. ReplacingOK' /\ RemovingOK' /\ MovingOK'
  BY <1>1, <1>2 DEF ReplacingOK, RemovingOK, MovingOK
<1> QED BY <1>1, <1>3, <1>4, CommandStarts DEF OrderInv

(* The position of a download that is queued. *)
LEMMA PositionIs ==
  ASSUME NEW d \in Queued, downloads \in Seq(Downloads)
  PROVE  PositionOf(d) \in 0..Len(downloads) - 1 /\ downloads[PositionOf(d) + 1] = d
<1>1. PICK x \in 1..Len(downloads) : downloads[x] = d
  BY DEF Queued, ToSet
<1>2. x - 1 \in 0..Len(downloads) - 1 /\ x - 1 + 1 = x
  BY <1>1
<1>3. \E q \in 0..Len(downloads) - 1 : downloads[q + 1] = d
  BY <1>1, <1>2
<1> QED BY <1>3 DEF PositionOf

LEMMA NewEntriesOrder ==
  ASSUME IInv, OrderInv, Next, ~Quit, ~Crash, NEW d \in Dirs, NEW listing, NewEntries(d, listing)
  PROVE  OrderInv'
<1> DEFINE s == downloads
           t == downloads'
           q == PositionOf(d)
<1>1. s \in Seq(Downloads) /\ Len(s) \in Nat /\ Distinct(s) /\ BornIn(status, s)
  BY DEF IInv, QueueOK, Marked, OrderInv, BornOK
<1>2. d \in Queued /\ t = Removed(s, q)
  BY DEF NewEntries
<1>3. q \in 0..Len(s) - 1 /\ s[q + 1] = d
  BY <1>1, <1>2, PositionIs
<1>4. /\ handler'.kind = "entering" /\ handler'.pass = "files" /\ handler'.before = s /\ handler'.at = q
      /\ handler'.n = 1
  BY DEF NewEntries
<1> HIDE DEF q, s, t
<1>5. PICK p \in 1..Len(s) : p - 1 = q /\ p = q + 1
  BY <1>1, <1>3
<1>6. /\ t \in Seq(Downloads) /\ Len(t) = Len(s) - 1
      /\ \A x \in 1..Len(s) : (x <= q => t[x] = s[x]) /\ (x > q + 1 => t[x - 1] = s[x])
      /\ \A y \in 1..Len(t) : (y <= q => t[y] = s[y]) /\ (y > q => t[y] = s[y + 1])
  BY <1>1, <1>2, <1>3, RemovedPlaces
<1>7. \A x \in 1..Len(s) : s[x] \in ToSet(s) /\ (s[x] = s[p] <=> x = p)
  BY <1>1, <1>5 DEF ToSet, Distinct
<1>8. Removed(s, p - 1) = Only(s, ToSet(s) \ {s[p]})
  <2>1. \A x \in 1..Len(s) : s[x] \in ToSet(s) \ {s[p]} <=> x # p
    BY <1>7
  <2> QED BY <1>1, <2>1, OnlyOthers
<1>9. \A y \in 1..Len(t) : \E x \in 1..Len(s) : t[y] = s[x] /\ x # p /\ (x <= q => y = x) /\ (x > q => y = x - 1)
  <2> TAKE y \in 1..Len(t)
  <2>1. CASE y <= q
    <3>1. y \in 1..Len(s) /\ y # p /\ ~(y > q)
      BY <1>1, <1>3, <1>5, <1>6, <2>1
    <3> QED BY <1>6, <2>1, <3>1
  <2>2. CASE y > q
    <3>1. y + 1 \in 1..Len(s) /\ y + 1 # p /\ y = y + 1 - 1 /\ ~(y + 1 <= q)
      BY <1>1, <1>3, <1>5, <1>6, <2>2
    <3> QED BY <1>6, <2>2, <3>1
  <2> QED BY <1>3, <2>1, <2>2
<1>10. \A y \in 1..Len(t) : t[y] \in ToSet(s) /\ t[y] # s[p]
  BY <1>7, <1>9
<1>11. Only(t, ToSet(s)) = t
  BY <1>6, <1>10, OnlyAll
<1>12. Replacing(handler', t, p, Len(t) - (Len(s) - 1)) /\ ReplacingWell(handler', t, p, Len(t) - (Len(s) - 1))
  <2>1. Len(t) - (Len(s) - 1) = 0
    BY <1>1, <1>6
  <2>2. Replacing(handler', t, p, 0)
    <3>1. \A x \in 1..p - 1 : t[x] = s[x]
      <4> TAKE x \in 1..p - 1
      <4>1. x \in 1..Len(s) /\ x <= q
        BY <1>1, <1>5
      <4> QED BY <1>6, <4>1
    <3>2. q >= p - 1 /\ p - 1 <= Len(t) /\ 0 >= 0
      BY <1>1, <1>3, <1>5, <1>6
    <3> QED BY <1>2, <1>4, <1>5, <1>8, <1>10, <1>11, <3>1, <3>2 DEF Replacing
  <2>3. ReplacingWell(handler', t, p, 0)
    <3>1. \A x \in p + 1..Len(s) : t[x - 1 + 0] = s[x]
      <4> TAKE x \in p + 1..Len(s)
      <4>1. x \in 1..Len(s) /\ x > q + 1 /\ x - 1 + 0 = x - 1
        BY <1>1, <1>5
      <4> QED BY <1>6, <4>1
    <3>2. q = p - 1 + 0
      BY <1>3, <1>5
    <3> QED BY <1>4, <1>10, <3>1, <3>2 DEF ReplacingWell
  <2> QED BY ONLY <2>1, <2>2, <2>3
<1>13. ReplacingOK'
  <2>1. ReplacedAt(handler, downloads, p)'
    BY <1>4, <1>12 DEF ReplacedAt, t
  <2> QED BY <1>4, <1>5, <2>1 DEF ReplacingOK
<1>14. LoadingOK' /\ RemovingOK' /\ MovingOK'
  BY <1>4 DEF LoadingOK, RemovingOK, MovingOK, Loading
<1>15. Distinct(t)
  <2> SUFFICES ASSUME NEW y \in 1..Len(t), NEW z \in 1..Len(t), t[y] = t[z] PROVE y = z
    BY DEF Distinct
  <2>1. PICK x \in 1..Len(s) : t[y] = s[x] /\ x # p /\ (x <= q => y = x) /\ (x > q => y = x - 1)
    BY <1>9
  <2>2. PICK w \in 1..Len(s) : t[z] = s[w] /\ w # p /\ (w <= q => z = w) /\ (w > q => z = w - 1)
    BY <1>9
  <2>3. x = w
    BY <1>1, <2>1, <2>2 DEF Distinct
  <2>4. Len(s) \in Nat /\ y \in Nat /\ z \in Nat /\ x \in Nat /\ q \in Nat /\ p = q + 1
    BY <1>1, <1>3, <1>5, <1>6
  <2> QED BY ONLY <2>1, <2>2, <2>3, <2>4
<1>16. BornIn(status', s)
  BY <1>1, BornFrame
<1>17. BornIn(status', t)
  BY <1>9, <1>16 DEF BornIn
<1>18. BornOK'
  BY <1>1, <1>4, <1>15, <1>16, <1>17 DEF BornOK, t
<1> QED BY <1>13, <1>14, <1>18 DEF OrderInv

(* A child is inserted. *)
ChildTurn(h, g, t, s, p, d, e, u) ==
  /\ t \in Seq(Downloads) /\ s \in Seq(Downloads) /\ h.before = s /\ g.before = s
  /\ h.at \in Nat /\ g.at = h.at + 1 /\ p \in 1..Len(s) /\ d \in Downloads /\ d \notin ToSet(s)
  /\ e = Len(t) - (Len(s) - 1) /\ Replacing(h, t, p, e) /\ u = Inserted(t, h.at, d)
ChildNamed(h, g, d) ==
  /\ g.pass = h.pass /\ g.entries = h.entries /\ h.n \in Nat \ {0} /\ g.n = h.n + 1
  /\ h.pass = "files" => NameOf[d] = h.entries[h.n].name
LEMMA ReplacingInserted ==
  ASSUME NEW h, NEW g, NEW t, NEW s, NEW p, NEW d, NEW e, NEW u, ChildTurn(h, g, t, s, p, d, e, u)
  PROVE  /\ Len(u) - (Len(s) - 1) = e + 1 /\ Replacing(g, u, p, e + 1)
         /\ ChildNamed(h, g, d) /\ ReplacingWell(h, t, p, e) => ReplacingWell(g, u, p, e + 1)
<1>0. /\ t \in Seq(Downloads) /\ s \in Seq(Downloads) /\ h.before = s /\ g.before = s
      /\ h.at \in Nat /\ g.at = h.at + 1 /\ p \in 1..Len(s) /\ d \in Downloads /\ d \notin ToSet(s)
      /\ e = Len(t) - (Len(s) - 1) /\ Replacing(h, t, p, e) /\ u = Inserted(t, h.at, d)
  BY DEF ChildTurn
<1>1. /\ Len(t) \in Nat /\ Len(s) \in Nat /\ p \in Nat /\ p >= 1 /\ p <= Len(s) /\ e \in Int /\ e >= 0
      /\ h.at >= p - 1 /\ p - 1 <= Len(t) /\ Len(t) = Len(s) - 1 + e
  BY <1>0 DEF Replacing
<1>2. PICK k \in 0..Len(t) : k = IF h.at <= Len(t) THEN h.at ELSE Len(t)
  BY <1>0, <1>1
<1>3. InsertedAfter(u, t, k, d)
  BY <1>0, <1>2, InsertedPlaces
<1>4. /\ u \in Seq(Downloads) /\ Len(u) = Len(t) + 1 /\ u[k + 1] = d
      /\ \A x \in 1..Len(t) : (x <= k => u[x] = t[x]) /\ (x > k => u[x + 1] = t[x])
      /\ \A y \in 1..Len(u) : (y <= k => u[y] = t[y]) /\ (y > k + 1 => u[y] = t[y - 1])
  BY <1>3 DEF InsertedAfter
<1>5. k \in Nat /\ k <= Len(t) /\ k >= p - 1
  BY <1>1, <1>2
<1>6. Len(u) - (Len(s) - 1) = e + 1
  BY ONLY <1>1, <1>4
<1>7. \A y \in 1..Len(u) : /\ y <= k => y \in 1..Len(t)
                           /\ y > k + 1 => y - 1 \in 1..Len(t)
                           /\ y <= k \/ y = k + 1 \/ y > k + 1
  BY <1>1, <1>4, <1>5
<1>8. Replacing(g, u, p, e + 1)
  <2>1. \A x \in 1..Len(t) : t[x] # s[p]
    BY <1>0 DEF Replacing
  <2>2. s[p] # d
    BY <1>0 DEF ToSet
  <2>3. \A y \in 1..Len(u) : u[y] # s[p]
    BY <1>4, <1>7, <2>1, <2>2
  <2>4. ASSUME NEW x \in 1..p - 1 PROVE u[x] = s[x]
    <3>1. x \in 1..Len(t) /\ x <= k
      BY <1>1, <1>5
    <3> QED BY <1>0, <1>4, <3>1 DEF Replacing
  <2>5. Only(u, ToSet(s)) = Only(s, ToSet(s) \ {s[p]})
    BY <1>0, OnlyInserted DEF Replacing
  <2>6. e + 1 >= 0 /\ g.at >= p - 1 /\ p - 1 <= Len(u)
    BY <1>0, <1>1, <1>4
  <2> QED BY <1>0, <2>3, <2>4, <2>5, <2>6 DEF Replacing
<1>9. ASSUME ReplacingWell(h, t, p, e), ChildNamed(h, g, d) PROVE ReplacingWell(g, u, p, e + 1)
  <2>0. /\ g.pass = h.pass /\ g.entries = h.entries /\ h.n \in Nat \ {0} /\ g.n = h.n + 1
        /\ h.pass = "files" => NameOf[d] = h.entries[h.n].name
    BY <1>9 DEF ChildNamed
  <2>1. h.at = p - 1 + e
    BY <1>9 DEF ReplacingWell
  <2>2. k = p - 1 + e /\ g.at = p - 1 + (e + 1)
    BY <1>0, <1>1, <1>2, <2>1
  <2>3. ASSUME NEW x \in p + 1..Len(s) PROVE u[x - 1 + (e + 1)] = s[x]
    <3>1. PICK y \in 1..Len(t) : y = x - 1 + e
      BY <1>1
    <3>2. y > k /\ y + 1 = x - 1 + (e + 1)
      BY <1>1, <2>2, <3>1
    <3>3. t[y] = s[x]
      BY <1>0, <1>9, <3>1 DEF ReplacingWell
    <3> QED BY <1>4, <3>2, <3>3
  <2>4. ASSUME g.pass = "files", NEW y \in 1..Len(u)
        PROVE  u[y] \in ToSet(s) \/ \E m \in 1..g.n - 1 : NameOf[u[y]] = g.entries[m].name
    <3>1. \A x \in 1..Len(t) : t[x] \in ToSet(s) \/ \E m \in 1..h.n - 1 : NameOf[t[x]] = h.entries[m].name
      BY <1>0, <1>9, <2>0, <2>4 DEF ReplacingWell
    <3>2. h.n \in 1..g.n - 1 /\ \A m \in 1..h.n - 1 : m \in 1..g.n - 1
      BY <2>0
    <3>3. NameOf[d] = h.entries[h.n].name
      BY <2>0, <2>4
    <3>4. u[y] = d \/ \E x \in 1..Len(t) : u[y] = t[x]
      BY <1>4, <1>7
    <3> QED BY <2>0, <3>1, <3>2, <3>3, <3>4
  <2> QED BY <1>0, <2>2, <2>3, <2>4 DEF ReplacingWell
<1> QED BY <1>6, <1>8, <1>9

(* A child that is not inserted was known. *)
LEMMA NotInserted ==
  ASSUME handler \in Entering, NEW p \in 1..Len(handler.before), downloads \in Seq(Downloads),
         ReplacedAt(handler, downloads, p), AtEntry, ~Loading, InPass(handler.entries[handler.n]),
         AlreadyQueued(handler.entries[handler.n])
  PROVE  KnownChild
<1> SUFFICES ASSUME ~KnownChild PROVE FALSE
  OBVIOUS
<1>1. PICK d \in Queued \cap Files : NameOf[d] = handler.entries[handler.n].name
  BY DEF AlreadyQueued
<1>2. handler.pass = "files"
  BY <1>1 DEF InPass
<1>3. PICK x \in 1..Len(downloads) : downloads[x] = d
  BY <1>1 DEF Queued, ToSet
<1>4. d \in ToSet(handler.before) \/ \E k \in 1..handler.n - 1 : NameOf[d] = handler.entries[k].name
  BY <1>2, <1>3 DEF ReplacedAt, ReplacingWell
<1>5. handler.n \in DOMAIN handler.entries /\ handler.n \in Nat
      /\ \A k \in 1..handler.n - 1 : k \in DOMAIN handler.entries \ {handler.n}
  BY DEF Entering, AtEntry
<1> QED BY <1>1, <1>4, <1>5 DEF KnownChild

LEMMA EnterOrder ==
  ASSUME IInv, OrderInv, Next, ~Quit, ~Crash, Enter
  PROVE  OrderInv'
<1> DEFINE entry == handler.entries[handler.n]
           position == IF Loading THEN Len(downloads) ELSE handler.at
<1>1. handler \in Entering /\ downloads \in Seq(Downloads) /\ Len(downloads) \in Nat
  BY Shapes DEF IInv, HandlerOK, Enter, AtEntry, QueueOK, Marked
<1>2. /\ handler.kind = "entering" /\ handler.before \in Seq(Downloads) /\ handler.at \in Nat
      /\ handler.n \in Nat \ {0} /\ position \in Nat /\ Len(handler.before) \in Nat
  BY <1>1 DEF Entering
<1>3. /\ handler'.kind = handler.kind /\ handler'.pass = handler.pass /\ handler'.entries = handler.entries
      /\ handler'.before = handler.before /\ handler'.n = handler.n + 1 /\ handler'.at = handler.at + 1
  BY <1>1 DEF Enter, Entering
<1>4. (Loading' <=> Loading) /\ (KnownChild' <=> KnownChild)
  BY <1>3 DEF Loading, KnownChild
<1>5. /\ Distinct(downloads) /\ BornIn(status, downloads)
      /\ Distinct(handler.before) /\ BornIn(status, handler.before)
  BY <1>2 DEF OrderInv, BornOK
<1>6. BornIn(status', handler.before)
  BY <1>2, <1>5, BornFrame
<1>7. RemovingOK' /\ MovingOK'
  BY <1>2, <1>3 DEF RemovingOK, MovingOK
<1>8. \/ AlreadyQueued(entry) /\ UNCHANGED <<downloads, status>>
      \/ ~AlreadyQueued(entry) /\ \E d \in Downloads : NameOf[d] = entry.name /\ Adds(d, position)
  BY AddsOne DEF Enter
<1> HIDE DEF entry, position
<1>9. CASE AlreadyQueued(entry) /\ UNCHANGED <<downloads, status>>
  <2>1. BornOK'
    BY <1>3, <1>5, <1>9 DEF BornOK
  <2>2. LoadingOK'
    BY <1>3, <1>4, <1>9 DEF OrderInv, LoadingOK
  <2>3. ASSUME ~Loading PROVE \E p \in 1..Len(handler.before) : ReplacedAt(handler, downloads, p)'
    <3>1. PICK p \in 1..Len(handler.before) : ReplacedAt(handler, downloads, p)
      BY <1>2, <2>3 DEF OrderInv, ReplacingOK
    <3>2. KnownChild'
      BY <1>1, <1>4, <1>9, <2>3, <3>1, NotInserted DEF Enter, entry
    <3>3. Len(handler'.before) = Len(handler.before) /\ handler'.at >= p - 1
      BY <1>2, <1>3, <3>1 DEF ReplacedAt, Replacing
    <3>4. Replacing(handler', downloads', p, Len(downloads') - (Len(handler'.before) - 1))
      BY <1>3, <1>9, <3>1, <3>3 DEF ReplacedAt, Replacing
    <3> QED BY <3>2, <3>4 DEF ReplacedAt
  <2>4. ReplacingOK'
    BY <1>3, <1>4, <2>3 DEF ReplacingOK
  <2> QED BY <1>7, <2>1, <2>2, <2>4 DEF OrderInv
<1>10. ASSUME NEW d \in Downloads, NameOf[d] = entry.name, Adds(d, position)
       PROVE  OrderInv'
  <2>1. BornOK'
    BY <1>2, <1>3, <1>5, <1>6, <1>10, AddedBorn DEF BornOK
  <2>2. LoadingOK'
    <3> SUFFICES ASSUME Loading
                 PROVE  /\ Len(handler.before) <= Len(downloads')
                        /\ \A x \in 1..Len(handler.before) : downloads'[x] = handler.before[x]
      BY <1>3, <1>4 DEF LoadingOK
    <3>1. position = Len(downloads) /\ downloads' = Inserted(downloads, position, d)
      BY <1>10 DEF position, Adds
    <3>2. InsertedAfter(downloads', downloads, Len(downloads), d)
      BY <1>1, <1>2, <3>1, InsertedPlaces
    <3>3. /\ Len(downloads') = Len(downloads) + 1
          /\ \A x \in 1..Len(downloads) : x <= Len(downloads) => downloads'[x] = downloads[x]
      BY <3>2 DEF InsertedAfter
    <3>4. /\ Len(handler.before) <= Len(downloads)
          /\ \A x \in 1..Len(handler.before) : downloads[x] = handler.before[x]
      BY DEF OrderInv, LoadingOK
    <3> QED BY <1>1, <1>2, <3>3, <3>4
  <2>3. ASSUME ~Loading PROVE \E p \in 1..Len(handler.before) : ReplacedAt(handler, downloads, p)'
    <3>1. PICK p \in 1..Len(handler.before) : ReplacedAt(handler, downloads, p)
      BY <1>2, <2>3 DEF OrderInv, ReplacingOK
    <3>2. downloads' = Inserted(downloads, handler.at, d)
      BY <1>10, <2>3 DEF position, Adds
    <3>3. d \notin ToSet(handler.before)
      BY <1>5, <1>10 DEF BornIn, Adds, ToSet
    <3> DEFINE s == handler.before
               e == Len(downloads) - (Len(s) - 1)
               u == downloads'
    <3>4. Replacing(handler, downloads, p, e) /\ (~KnownChild => ReplacingWell(handler, downloads, p, e))
      BY <3>1 DEF ReplacedAt
    <3>5. /\ Len(u) - (Len(s) - 1) = e + 1 /\ Replacing(handler', u, p, e + 1)
          /\ ReplacingWell(handler, downloads, p, e) => ReplacingWell(handler', u, p, e + 1)
      <4>1. ChildTurn(handler, handler', downloads, s, p, d, e, u)
        BY <1>1, <1>2, <1>3, <1>10, <3>2, <3>3, <3>4 DEF ChildTurn
      <4>2. ChildNamed(handler, handler', d)
        BY <1>2, <1>3, <1>10 DEF entry, ChildNamed
      <4> HIDE DEF s, e, u
      <4> QED BY ONLY <4>1, <4>2, ReplacingInserted
    <3> QED BY <1>3, <1>4, <3>4, <3>5 DEF ReplacedAt
  <2>4. ReplacingOK'
    BY <1>3, <1>4, <2>3 DEF ReplacingOK
  <2> QED BY <1>7, <2>1, <2>2, <2>4 DEF OrderInv
<1> QED BY <1>8, <1>9, <1>10

(* The turns of newEntries that insert nothing. *)
LEMMA PassesOrder ==
  ASSUME IInv, OrderInv, Next, ~Quit, ~Crash, EnterSkips \/ SecondPass
  PROVE  OrderInv'
<1>1. handler \in Entering
  BY Shapes DEF IInv, HandlerOK, EnterSkips, AtEntry, SecondPass
<1>2. /\ handler.kind = "entering" /\ handler.before \in Seq(Downloads) /\ handler.n \in Nat \ {0}
  BY <1>1 DEF Entering
<1>3. /\ handler'.kind = handler.kind /\ handler'.entries = handler.entries
      /\ handler'.before = handler.before /\ handler'.at = handler.at /\ UNCHANGED <<downloads, status>>
      /\ \/ handler'.pass = handler.pass /\ handler'.n = handler.n + 1
         \/ handler'.pass = "directories" /\ handler.pass = "files"
  BY <1>1 DEF EnterSkips, SecondPass, Entering
<1>4. (Loading' <=> Loading) /\ (KnownChild' <=> KnownChild)
  BY <1>3 DEF Loading, KnownChild
<1>5. BornOK'
  BY <1>2, <1>3 DEF OrderInv, BornOK
<1>6. LoadingOK' /\ RemovingOK' /\ MovingOK'
  BY <1>2, <1>3, <1>4 DEF OrderInv, LoadingOK, RemovingOK, MovingOK
<1>7. ASSUME ~Loading, NEW p \in 1..Len(handler.before), ReplacedAt(handler, downloads, p)
      PROVE  ReplacedAt(handler, downloads, p)'
  <2> DEFINE e == Len(downloads) - (Len(handler.before) - 1)
  <2>1. Replacing(handler', downloads', p, e)
    BY <1>3, <1>7 DEF ReplacedAt, Replacing
  <2>2. ASSUME ReplacingWell(handler, downloads, p, e) PROVE ReplacingWell(handler', downloads', p, e)
    <3>1. \A k \in 1..handler.n - 1 : k \in 1..handler.n + 1 - 1
      BY <1>2
    <3>2. handler'.pass = "files" => handler.pass = "files" /\ handler'.n = handler.n + 1
      BY <1>3
    <3>3. ASSUME handler'.pass = "files", NEW x \in 1..Len(downloads')
          PROVE  \/ downloads'[x] \in ToSet(handler'.before)
                 \/ \E k \in 1..handler'.n - 1 : NameOf[downloads'[x]] = handler'.entries[k].name
      <4>1. \/ downloads[x] \in ToSet(handler.before)
            \/ \E k \in 1..handler.n - 1 : NameOf[downloads[x]] = handler.entries[k].name
        BY <1>3, <2>2, <3>2, <3>3 DEF ReplacingWell
      <4>2. /\ handler'.n = handler.n + 1 /\ handler'.entries = handler.entries
            /\ handler'.before = handler.before /\ downloads' = downloads
        BY <1>3, <3>2, <3>3
      <4>3. \A k \in 1..handler.n - 1 : k \in 1..handler'.n - 1
        BY <1>2, <4>2
      <4> QED BY <4>1, <4>2, <4>3, Zenon
    <3> QED BY <1>3, <2>2, <3>3 DEF ReplacingWell
  <2> QED BY <1>3, <1>4, <1>7, <2>1, <2>2 DEF ReplacedAt
<1>8. ReplacingOK'
  BY <1>2, <1>3, <1>4, <1>7 DEF OrderInv, ReplacingOK
<1> QED BY <1>5, <1>6, <1>8 DEF OrderInv

-----------------------------------------------------------------------------
(* A removal.                                                              *)

LEMMA RemovedRearranged ==
  ASSUME NEW s \in Seq(Downloads), NEW p \in 0..Len(s) - 1, NEW t, t = Removed(s, p)
  PROVE  Rearranged(t, s)
<1> DEFINE g == [y \in 1..Len(t) |-> IF y <= p THEN y ELSE y + 1]
<1>1. /\ Len(s) \in Nat /\ p \in Nat /\ t \in Seq(Downloads) /\ Len(t) = Len(s) - 1
      /\ \A y \in 1..Len(t) : (y <= p => t[y] = s[y]) /\ (y > p => t[y] = s[y + 1])
  BY RemovedPlaces
<1>2. g \in [1..Len(t) -> 1..Len(s)] /\ \A x, y \in 1..Len(t) : g[x] = g[y] => x = y
  BY <1>1, SMTT(30)
<1>3. \A y \in 1..Len(t) : t[y] = s[g[y]]
  BY <1>1
<1> HIDE DEF g
<1> QED BY <1>2, <1>3 DEF Rearranged

(* What leaves the queue in its state: fewer downloads, or in another order. *)
LEMMA RearrangedBorn ==
  ASSUME IInv, Next, ~Quit, ~Crash, Distinct(downloads), BornIn(status, downloads),
         Rearranged(downloads', downloads)
  PROVE  Distinct(downloads') /\ BornIn(status', downloads')
<1>1. downloads \in Seq(Downloads)
  BY DEF IInv, QueueOK, Marked
<1>2. Distinct(downloads') /\ \A x \in 1..Len(downloads') : \E y \in 1..Len(downloads) : downloads'[x] = downloads[y]
  BY RearrangedDistinct
<1>3. BornIn(status', downloads)
  BY <1>1, BornFrame
<1> QED BY <1>2, <1>3 DEF BornIn

LEMMA RemoveStarts ==
  ASSUME IInv, OrderInv, Next, ~Quit, ~Crash, NEW S, RemoveDownloads(S)
  PROVE  OrderInv'
<1>1. /\ handler'.kind = "removing" /\ handler'.position = 0 /\ handler'.before = downloads
      /\ UNCHANGED downloads /\ downloads \in Seq(Downloads) /\ Len(downloads) \in Nat
  BY DEF RemoveDownloads, IInv, QueueOK, Marked
<1> DEFINE s == downloads
           c == CountOf(s, handler'.selected)
<1>2. c[0] = 0
  BY <1>1, CountingIs DEF Counting
<1> HIDE DEF c
<1>3. Met(handler', s, s, c, 0)
  <2>1. \A x \in 1..Len(s) : x - 0 = x
    BY <1>1
  <2>2. ~\E x \in 1..0 : TRUE
    OBVIOUS
  <2> QED BY <1>1, <1>2, <2>1, <2>2 DEF Met
<1>4. 0 \in 0..Len(s)
  BY <1>1
<1>5. RemovingOK'
  BY <1>1, <1>3, <1>4 DEF RemovingOK, c
<1>6. LoadingOK' /\ ReplacingOK' /\ MovingOK'
  BY <1>1 DEF LoadingOK, ReplacingOK, MovingOK, Loading
<1> QED BY <1>1, <1>5, <1>6, CommandStarts DEF OrderInv

(* The turn of a removal at the m + 1-th download. *)
LEMMA MetNext ==
  ASSUME NEW h, NEW s \in Seq(Downloads), NEW t \in Seq(Downloads), NEW c,
         c = CountOf(s, h.selected), NEW m \in 0..Len(s), Met(h, t, s, c, m),
         h.position \in Nat, h.position < Len(t)
  PROVE  /\ m + 1 \in 0..Len(s) /\ t[h.position + 1] = s[m + 1] /\ h.position \in 0..Len(t) - 1
         /\ \A g : /\ s[m + 1] \notin h.selected /\ g.position = h.position + 1 /\ g.selected = h.selected
                   => Met(g, t, s, c, m + 1)
         /\ \A u : /\ s[m + 1] \in h.selected /\ u = Removed(t, h.position)
                   => Met(h, u, s, c, m + 1)
<1>1. Counting(c, s, h.selected)
  BY CountingIs
<1>0. Len(s) \in Nat /\ Len(t) \in Nat /\ m \in Nat /\ m <= Len(s)
  OBVIOUS
<1>2. PICK q \in Nat : q = c[m] /\ q <= m
  BY <1>1, <1>0 DEF Counting
<1>3. /\ h.position = m - q /\ Len(t) = Len(s) - q
      /\ \A x \in 1..m : s[x] \notin h.selected => t[x - c[x]] = s[x]
      /\ \A x \in m + 1..Len(s) : t[x - q] = s[x]
  BY <1>2 DEF Met
<1>11. PICK n \in Nat, l \in Nat, w \in Nat : n = Len(s) /\ l = Len(t) /\ w = h.position
  BY <1>0
<1>12. w = m - q /\ l = n - q /\ m \in Nat /\ m <= n /\ q <= m /\ w < l
  BY <1>0, <1>2, <1>3, <1>11
<1>13. PICK k \in Nat : k = m + 1
  BY <1>12
<1>4. /\ k \in 1..Len(s) /\ k \in 0..Len(s) /\ k - 1 = m /\ k \in m + 1..Len(s)
      /\ h.position + 1 = k - q /\ h.position \in 0..Len(t) - 1
  <2>1. k \in 1..n /\ k \in 0..n /\ k - 1 = m /\ k \in m + 1..n /\ w + 1 = k - q /\ w \in 0..l - 1
    BY ONLY <1>12, <1>13
  <2> QED BY ONLY <1>11, <2>1
<1>5. t[h.position + 1] = s[k]
  BY <1>3, <1>4
<1>6. /\ s[k] \in h.selected => c[k] = q + 1
      /\ s[k] \notin h.selected => c[k] = q
  BY <1>1, <1>2, <1>4 DEF Counting
<1>7. ASSUME NEW g, s[k] \notin h.selected, g.position = h.position + 1, g.selected = h.selected
      PROVE  Met(g, t, s, c, k)
  <2>1. c[k] = q
    BY <1>6, <1>7
  <2>2. ASSUME NEW x \in 1..k, s[x] \notin h.selected PROVE t[x - c[x]] = s[x]
    <3>1. x \in 1..m \/ x = k
      BY ONLY <1>12, <1>13
    <3>2. CASE x \in 1..m
      BY <1>3, <2>2, <3>2
    <3>3. CASE x = k
      BY <1>4, <1>5, <2>1, <3>3
    <3> QED BY <3>1, <3>2, <3>3
  <2>3. \A x \in k + 1..Len(s) : t[x - c[k]] = s[x]
    <3> TAKE x \in k + 1..Len(s)
    <3>1. x \in m + 1..Len(s)
      BY <1>11, <1>12, <1>13
    <3> QED BY <1>3, <2>1, <3>1
  <2>4. g.position = k - c[k] /\ Len(t) = Len(s) - c[k]
    BY <1>3, <1>4, <1>7, <2>1
  <2> QED BY <1>7, <2>2, <2>3, <2>4 DEF Met
<1>8. ASSUME NEW u, s[k] \in h.selected, u = Removed(t, h.position)
      PROVE  Met(h, u, s, c, k)
  <2>1. c[k] = q + 1
    BY <1>6, <1>8
  <2>2. w \in 0..Len(t) - 1 /\ u = Removed(t, w)
    BY <1>4, <1>8, <1>11
  <2>3. /\ Len(u) = l - 1
        /\ \A x \in 1..l : (x <= w => u[x] = t[x]) /\ (x > w + 1 => u[x - 1] = t[x])
    <3>1. /\ Len(u) = Len(t) - 1
          /\ \A x \in 1..Len(t) : (x <= w => u[x] = t[x]) /\ (x > w + 1 => u[x - 1] = t[x])
      BY <2>2, RemovedPlaces
    <3> QED BY <1>11, <3>1
  <2>4. ASSUME NEW x \in 1..k, s[x] \notin h.selected PROVE u[x - c[x]] = s[x]
    <3>1. x \in 1..m
      <4>1. x # k
        BY <1>8, <2>4
      <4> QED BY ONLY <1>12, <1>13, <4>1
    <3>2. x \in 1..Len(s) /\ x \in 0..Len(s) /\ x <= m /\ m \in 0..Len(s) /\ x \in Nat /\ x >= 1
      BY <1>0, <3>1
    <3>3. PICK r \in Nat : r = c[x] /\ r <= x - 1
      BY <1>1, <2>4, <3>2, CountStep, SMTT(30)
    <3>4. q - r <= m - x
      BY <1>1, <1>2, <3>2, <3>3, CountBetween
    <3>5. x - r \in 1..l /\ x - r <= w
      BY ONLY <1>12, <3>2, <3>3, <3>4
    <3>6. t[x - r] = s[x]
      BY <1>3, <2>4, <3>1, <3>3
    <3> QED BY <2>3, <3>3, <3>5, <3>6
  <2>5. ASSUME NEW x \in k + 1..Len(s) PROVE u[x - c[k]] = s[x]
    <3>1. x \in Nat /\ x >= k + 1 /\ x <= n
      BY <1>11
    <3>2. x \in m + 1..n /\ x - q \in 1..l /\ x - q > w + 1 /\ x - q - 1 = x - (q + 1)
      BY ONLY <1>12, <1>13, <3>1
    <3>3. t[x - q] = s[x]
      BY <1>3, <1>11, <3>2
    <3> QED BY <2>1, <2>3, <3>2, <3>3
  <2>6. h.position = k - c[k] /\ Len(u) = Len(s) - c[k]
    <3>1. w = k - (q + 1) /\ l - 1 = n - (q + 1)
      BY ONLY <1>12, <1>13
    <3> QED BY <1>11, <2>1, <2>3, <3>1
  <2> QED BY <2>4, <2>5, <2>6 DEF Met
<1> QED BY <1>4, <1>5, <1>7, <1>8, <1>13

LEMMA RemovalOrder ==
  ASSUME IInv, OrderInv, Next, ~Quit, ~Crash, RemoveSkips \/ RemoveOne
  PROVE  OrderInv'
<1> DEFINE s == handler.before
           t == downloads
           c == CountOf(s, handler.selected)
<1>1. handler \in Removing /\ t \in Seq(Downloads) /\ Len(t) \in Nat
  BY Shapes DEF IInv, HandlerOK, RemoveSkips, RemoveOne, QueueOK, Marked
<1>2. /\ handler.kind = "removing" /\ s \in Seq(Downloads) /\ handler.position \in Nat /\ Len(s) \in Nat
      /\ handler.position < Len(t)
  BY <1>1 DEF Removing, RemoveSkips, RemoveOne
<1>3. handler'.kind = "removing" /\ handler'.before = s /\ handler'.selected = handler.selected
  BY <1>1 DEF RemoveSkips, RemoveOne, Removing
<1>4. /\ Distinct(t) /\ BornIn(status, t) /\ Distinct(s) /\ BornIn(status, s)
  BY <1>2 DEF OrderInv, BornOK
<1>5. BornIn(status', s)
  BY <1>2, <1>4, BornFrame
<1>6. LoadingOK' /\ ReplacingOK' /\ MovingOK'
  BY <1>3 DEF LoadingOK, ReplacingOK, MovingOK, Loading
<1>7. PICK m \in 0..Len(s) : Met(handler, t, s, c, m)
  BY <1>2 DEF OrderInv, RemovingOK
<1> HIDE DEF c, s, t
<1>8. /\ m + 1 \in 0..Len(s) /\ t[handler.position + 1] = s[m + 1] /\ handler.position \in 0..Len(t) - 1
      /\ \A g : /\ s[m + 1] \notin handler.selected /\ g.position = handler.position + 1
                /\ g.selected = handler.selected
                => Met(g, t, s, c, m + 1)
      /\ \A u : /\ s[m + 1] \in handler.selected /\ u = Removed(t, handler.position)
                => Met(handler, u, s, c, m + 1)
  BY <1>1, <1>2, <1>7, MetNext DEF c
<1>9. CASE RemoveSkips
  <2>1. s[m + 1] \notin handler.selected /\ handler'.position = handler.position + 1 /\ UNCHANGED <<downloads, status>>
    BY <1>1, <1>8, <1>9 DEF RemoveSkips, Removing, t
  <2>2. Met(handler', t, s, c, m + 1)
    BY <1>3, <1>8, <2>1
  <2>3. RemovingOK'
    BY <1>3, <1>8, <2>1, <2>2 DEF RemovingOK, t, c
  <2>4. BornOK'
    BY <1>3, <1>4, <2>1 DEF BornOK, t
  <2> QED BY <1>6, <2>3, <2>4 DEF OrderInv
<1>10. CASE RemoveOne
  <2>1. s[m + 1] \in handler.selected /\ downloads' = Removed(t, handler.position) /\ UNCHANGED handler
    BY <1>8, <1>10 DEF RemoveOne, t
  <2>2. Met(handler, downloads', s, c, m + 1)
    BY <1>8, <2>1
  <2>3. RemovingOK'
    BY <1>3, <1>8, <2>1, <2>2 DEF RemovingOK, s, c
  <2>4. Rearranged(downloads', t)
    BY <1>1, <1>8, <2>1, RemovedRearranged
  <2>5. Distinct(downloads') /\ BornIn(status', downloads')
    BY <1>4, <2>4, RearrangedBorn DEF t
  <2>6. BornOK'
    BY <1>3, <1>4, <1>5, <2>5 DEF BornOK
  <2> QED BY <1>6, <2>3, <2>6 DEF OrderInv
<1> QED BY <1>9, <1>10

(* The end of a command, and what is not part of one. *)
LEMMA EndsOrder ==
  ASSUME IInv, OrderInv, Next, ~Quit, ~Crash, EnterEnds \/ RemoveEnds \/ MoveEnds
  PROVE  OrderInv'
<1>1. handler' = Idle /\ UNCHANGED <<downloads, status>>
  BY DEF EnterEnds, RemoveEnds, MoveEnds
<1> QED BY <1>1, IdleOrder DEF OrderInv, BornOK

LEMMA UserAddsOrder ==
  ASSUME IInv, OrderInv, Next, ~Quit, ~Crash, NEW n, NEW p, UserAdds(n, p)
  PROVE  OrderInv'
<1> DEFINE entry == [name |-> n, place |-> p]
<1>1. handler' = Idle /\ AddDownload(entry, Len(downloads), FALSE)
  BY Shapes DEF UserAdds, MainIdle
<1>2. \/ UNCHANGED <<downloads, status>>
      \/ \E d \in Downloads : Adds(d, Len(downloads))
  BY <1>1, AddsOne
<1>3. Distinct(downloads) /\ BornIn(status, downloads) /\ Len(downloads) \in Nat
  BY DEF OrderInv, BornOK, IInv, QueueOK, Marked
<1>4. CASE UNCHANGED <<downloads, status>>
  BY <1>1, <1>3, <1>4, IdleOrder
<1>5. CASE \E d \in Downloads : Adds(d, Len(downloads))
  BY <1>1, <1>3, <1>5, AddedBorn, IdleOrder
<1> QED BY <1>2, <1>4, <1>5

LEMMA EmptyOrder ==
  ASSUME handler' = Idle, downloads' = <<>>
  PROVE  OrderInv'
<1>1. Distinct(downloads') /\ BornIn(status', downloads')
  BY DEF Distinct, BornIn
<1> QED BY <1>1, IdleOrder

-----------------------------------------------------------------------------
(* A move.                                                                 *)

LEMMA MoveBegins ==
  ASSUME IInv, OrderInv, Next, ~Quit, ~Crash,
         NEW ids \in Selections, NEW refs \in Selections, NEW after \in BOOLEAN, Move(ids, refs, after)
  PROVE  OrderInv'
<1> DEFINE s == downloads
           c == CountOf(s, ids \cap Queued)
           ref == IF Cardinality(refs) = 1 THEN CHOOSE r \in refs : TRUE ELSE NoRef
<1>1. s \in Seq(Downloads) /\ Len(s) \in Nat /\ UNCHANGED downloads
  BY DEF IInv, QueueOK, Marked, Move
<1>2. refs \in SUBSET Downloads /\ IsFiniteSet(refs) /\ refs # {}
  BY DEF Selections
<1>3. ref # NoRef => refs = {ref}
  <2>1. CASE Cardinality(refs) = 1
    <3>1. \E r : refs = {r}
      BY <1>2, <2>1, FS_Singleton
    <3> QED BY <2>1, <3>1
  <2> QED BY <2>1
<1> HIDE DEF ref
<1>4. /\ handler'.kind = "moving" /\ handler'.i = 0 /\ handler'.iRef = -1 /\ handler'.toMove = <<>>
      /\ handler'.j = 0 /\ handler'.ids = ids \cap Queued /\ handler'.refs = refs /\ handler'.left = refs
      /\ handler'.after = after /\ handler'.ref = ref /\ handler'.before = s
  BY DEF Move, ref
<1>5. c[0] = 0
  BY <1>1, CountingIs DEF Counting
<1> HIDE DEF c, s
<1>6. ToMoveIs(handler', s, c, 0)
  BY <1>4, <1>5 DEF ToMoveIs
<1>7. {s[x] : x \in 1..0} = {}
  OBVIOUS
<1>8. Looking(handler', s, s, c)
  BY <1>2, <1>3, <1>4, <1>6, <1>7 DEF Looking
<1>9. Moved(handler', s, s, c)
  BY <1>4, <1>8 DEF Moved
<1>10. MovingOK'
  BY <1>1, <1>4, <1>9 DEF MovingOK, s, c
<1>11. LoadingOK' /\ ReplacingOK' /\ RemovingOK'
  BY <1>4 DEF LoadingOK, ReplacingOK, RemovingOK, Loading
<1> QED BY <1>1, <1>4, <1>10, <1>11, CommandStarts DEF OrderInv, s

(* What is known in the middle of a move. *)
MoveTypes(h, s, c) ==
  /\ s \in Seq(Downloads) /\ Len(s) \in Nat /\ Distinct(s) /\ Counting(c, s, h.ids)
  /\ h.i \in Nat /\ h.j \in Nat /\ h.iRef \in Nat \cup {-1} /\ h.shift \in Int /\ h.toMove \in Seq(Nat)
  /\ h.after \in BOOLEAN /\ h.refs \in SUBSET Downloads
LEMMA MidMove ==
  ASSUME IInv, OrderInv, handler.kind = "moving"
  PROVE  /\ handler \in Moving /\ downloads \in Seq(Downloads) /\ Len(downloads) = Len(handler.before)
         /\ MoveTypes(handler, handler.before, CountOf(handler.before, handler.ids))
         /\ Moved(handler, downloads, handler.before, CountOf(handler.before, handler.ids))
<1>1. handler \in Moving /\ downloads \in Seq(Downloads)
  BY Shapes DEF IInv, HandlerOK, QueueOK, Marked
<1>2. /\ handler.before \in Seq(Downloads) /\ Len(handler.before) \in Nat
      /\ handler.i \in Nat /\ handler.j \in Nat /\ handler.iRef \in Nat \cup {-1} /\ handler.shift \in Int
      /\ handler.toMove \in Seq(Nat) /\ handler.after \in BOOLEAN /\ handler.refs \in SUBSET Downloads
  BY <1>1 DEF Moving
<1>3. Distinct(handler.before)
  BY DEF OrderInv, BornOK
<1>4. Moved(handler, downloads, handler.before, CountOf(handler.before, handler.ids))
  BY DEF OrderInv, MovingOK
<1> QED BY <1>1, <1>2, <1>3, <1>4, CountingIs DEF Moved, MoveTypes

(* What a turn of a move leaves alone. *)
LEMMA MoveFrame ==
  ASSUME IInv, OrderInv, Next, ~Quit, ~Crash, handler.kind = "moving", handler'.kind = "moving",
         handler'.before = handler.before, handler'.ids = handler.ids,
         UNCHANGED downloads \/ Rearranged(downloads', downloads),
         Moved(handler', downloads', handler.before, CountOf(handler.before, handler.ids))
  PROVE  OrderInv'
<1>1. handler.before \in Seq(Downloads) /\ downloads \in Seq(Downloads)
  BY MidMove DEF MoveTypes
<1>2. /\ Distinct(downloads) /\ BornIn(status, downloads)
      /\ Distinct(handler.before) /\ BornIn(status, handler.before)
  BY DEF OrderInv, BornOK
<1>3. BornIn(status', handler.before) /\ BornIn(status', downloads)
  BY <1>1, <1>2, BornFrame
<1>4. Distinct(downloads') /\ BornIn(status', downloads')
  BY <1>2, <1>3, RearrangedBorn
<1>5. BornOK'
  BY <1>2, <1>3, <1>4 DEF BornOK
<1>6. MovingOK'
  BY DEF MovingOK
<1>7. LoadingOK' /\ ReplacingOK' /\ RemovingOK'
  BY DEF LoadingOK, ReplacingOK, RemovingOK, Loading
<1> QED BY <1>5, <1>6, <1>7 DEF OrderInv

(* A turn changes neither the command nor what it began with. *)
SameMove(h, g) ==
  g.kind = "moving" /\ g.before = h.before /\ g.ids = h.ids /\ g.refs = h.refs /\ g.after = h.after

(* Past the reference. *)
LEMMA JoinsOver ==
  ASSUME NEW h, NEW s, NEW c, MoveTypes(h, s, c),
         NEW t \in Seq(Downloads), Len(t) = Len(s), NEW cut \in 0..Len(s), Joining(h, t, s, c, cut),
         h.i < Len(s)
  PROVE  /\ t[h.i + 1] = s[h.i + 1] /\ h.i + 1 \in 1..Len(s) /\ cut <= h.i
         /\ h.ref # s[h.i + 1] /\ h.ref \in Downloads
         /\ (IF h.after THEN cut ELSE cut + 1) <= h.i + 1
<1>1. PICK n \in Nat, i \in Nat : n = Len(s) /\ i = h.i /\ i < n
  BY DEF MoveTypes
<1>2. /\ s \in Seq(Downloads) /\ Distinct(s) /\ Counting(c, s, h.ids) /\ n \in Nat /\ i \in Nat /\ i < n
      /\ h.iRef \in Nat \cup {-1} /\ h.after \in BOOLEAN
  BY <1>1 DEF MoveTypes
<1>3. PICK y \in 1..n : y = (IF h.after THEN cut ELSE cut + 1) /\ y <= i /\ h.ref = s[y] /\ cut <= i
  <2>1. CASE h.after
    <3>1. cut >= 1 /\ cut <= i /\ h.ref = s[cut]
      BY <1>1, <2>1 DEF Joining, CutIs, RefAt
    <3>2. cut \in 1..n
      BY <1>1, <3>1
    <3> QED BY <2>1, <3>1, <3>2
  <2>2. CASE ~h.after
    <3>1. cut < n /\ cut + 1 <= i /\ h.ref = s[cut + 1]
      BY <1>1, <2>2 DEF Joining, CutIs, RefAt
    <3>2. cut + 1 \in 1..n /\ cut <= i
      BY <1>1, <3>1
    <3> QED BY <2>2, <3>1, <3>2
  <2> QED BY <2>1, <2>2
<1>4. /\ i + 1 \in 1..n /\ i \in 0..Len(s) - 1 /\ cut \in 0..i /\ y # i + 1 /\ i \in 0..Len(s)
      /\ i + 1 \in 0..Len(s) /\ i + 1 - 1 = i
  BY <1>1, <1>3
<1>5. \A x \in 1..Len(s) : t[PlaceAfter(s, h.ids, c, cut, i, x)] = s[x]
  BY <1>1 DEF Joining
<1>6. t[i + 1] = s[i + 1]
  <2>1. PlaceAfter(s, h.ids, c, cut, i, i + 1) = i + 1
    <3>1. i + 1 > i
      BY <1>4
    <3> QED BY <3>1 DEF PlaceAfter
  <2> QED BY <1>1, <1>4, <1>5, <2>1
<1>7. h.ref # s[i + 1] /\ h.ref \in Downloads
  <2>1. s[y] \in Downloads
    BY <1>1, <1>2
  <2> QED BY <1>1, <1>2, <1>3, <1>4, <2>1 DEF Distinct
<1>8. (IF h.after THEN cut ELSE cut + 1) <= i + 1
  BY <1>1, <1>3, <1>4
<1> QED BY <1>1, <1>3, <1>4, <1>6, <1>7, <1>8

LEMMA JoinsNext ==
  ASSUME NEW h, NEW g, NEW s, NEW c, MoveTypes(h, s, c), SameMove(h, g), g.ref = h.ref, g.toMove = h.toMove,
         g.i = h.i + 1, h.i < Len(s),
         NEW t \in Seq(Downloads), Len(t) = Len(s), NEW cut \in 0..Len(s), Joining(h, t, s, c, cut)
  PROVE  /\ s[h.i + 1] \notin h.ids /\ g.iRef = h.iRef => Joining(g, t, s, c, cut)
         /\ \A u : /\ s[h.i + 1] \in h.ids /\ g.iRef = h.iRef + 1
                   /\ u = Removed(Inserted(t, IF h.after THEN h.iRef + 1 ELSE h.iRef, t[h.i + 1]), h.i + 1)
                   => Joining(g, u, s, c, cut) /\ Rearranged(u, t) /\ Len(u) = Len(s)
<1>1. PICK n \in Nat, i \in Nat : n = Len(s) /\ i = h.i /\ i < n
  BY DEF MoveTypes
<1>2. /\ s \in Seq(Downloads) /\ Counting(c, s, h.ids) /\ h.iRef \in Nat \cup {-1} /\ h.after \in BOOLEAN
      /\ g.after = h.after /\ g.refs = h.refs /\ g.ids = h.ids
  BY DEF MoveTypes, SameMove
<1>3. cut <= i /\ t[i + 1] = s[i + 1] /\ (IF h.after THEN cut ELSE cut + 1) <= i + 1
  BY <1>1, JoinsOver
<1>4. /\ i + 1 \in 1..Len(s) /\ i \in 0..Len(s) - 1 /\ cut \in 0..i /\ i \in 0..Len(s)
      /\ i + 1 \in 0..Len(s) /\ i + 1 - 1 = i
  BY <1>1, <1>3
<1>5. \A x \in 1..Len(s) : t[PlaceAfter(s, h.ids, c, cut, i, x)] = s[x]
  BY <1>1 DEF Joining
<1>8. CutIs(g, s, cut) /\ RefAt(g, s, cut) /\ g.toMove = <<>>
  BY <1>2 DEF Joining, CutIs, RefAt
<1>9. /\ (IF g.after THEN cut ELSE cut + 1) <= g.i
      /\ (IF h.after THEN h.iRef + 1 ELSE h.iRef) = cut - c[cut] + c[i]
  BY <1>1, <1>2, <1>3 DEF Joining
<1>10. PICK a \in Nat, b \in Nat : a = c[cut] /\ b = c[i]
  BY <1>2, <1>4 DEF Counting
<1>11. ASSUME s[i + 1] \notin h.ids, g.iRef = h.iRef PROVE Joining(g, t, s, c, cut)
  <2>1. c[i + 1] = c[i]
    <3>1. c[i + 1] = c[i + 1 - 1]
      <4>1. s \in Seq(Downloads) /\ Counting(c, s, h.ids) /\ i + 1 \in 1..Len(s) /\ s[i + 1] \notin h.ids
        BY <1>1, <1>2, <1>4, <1>11
      <4> QED BY ONLY <4>1, CountStep
    <3> QED BY <1>4, <3>1
  <2>2. \A x \in 1..Len(s) : t[PlaceAfter(s, h.ids, c, cut, i + 1, x)] = s[x]
    BY <1>2, <1>4, <1>5, <1>11, PassOne
  <2> QED BY <1>1, <1>2, <1>8, <1>9, <1>11, <2>1, <2>2 DEF Joining
<1>12. ASSUME NEW u, s[i + 1] \in h.ids, g.iRef = h.iRef + 1,
              u = Removed(Inserted(t, IF h.after THEN h.iRef + 1 ELSE h.iRef, t[i + 1]), i + 1)
       PROVE  Joining(g, u, s, c, cut) /\ Rearranged(u, t) /\ Len(u) = Len(s)
  <2>1. c[i + 1] = c[i] + 1
    <3>1. c[i + 1] = c[i + 1 - 1] + 1
      BY <1>1, <1>2, <1>4, <1>12, CountStep
    <3> QED BY <1>4, <3>1
  <2>2. /\ u \in Seq(Downloads) /\ Len(u) = Len(s) /\ Rearranged(u, t)
        /\ \A x \in 1..Len(s) : u[PlaceAfter(s, h.ids, c, cut, i + 1, x)] = s[x]
    <3>1. t[i + 1] \in Downloads
      BY <1>1, <1>4
    <3>2. u = Removed(Inserted(t, cut - c[cut] + c[i], t[i + 1]), i + 1)
      BY <1>9, <1>12
    <3> QED BY <1>2, <1>4, <1>5, <1>12, <3>1, <3>2, JoinOne
  <2>3. (IF g.after THEN g.iRef + 1 ELSE g.iRef) = cut - c[cut] + c[i + 1]
    <3>1. (IF h.after THEN h.iRef + 1 ELSE h.iRef) = cut - a + b
      BY <1>9, <1>10
    <3>2. PICK e \in Int : e = h.iRef
      BY <1>2
    <3>3. (IF h.after THEN e + 1 + 1 ELSE e + 1) = cut - a + (b + 1)
      <4>1. CASE h.after
        BY <3>1, <3>2, <4>1
      <4>2. CASE ~h.after
        BY <3>1, <3>2, <4>2
      <4> QED BY <4>1, <4>2
    <3> QED BY <1>2, <1>10, <1>12, <2>1, <3>2, <3>3
  <2> QED BY <1>1, <1>2, <1>8, <1>9, <2>2, <2>3 DEF Joining
<1> QED BY <1>1, <1>11, <1>12

LEMMA MoveBackOrder ==
  ASSUME IInv, OrderInv, Next, ~Quit, ~Crash, MoveBack
  PROVE  OrderInv'
<1> DEFINE s == handler.before
           t == downloads
           c == CountOf(s, handler.ids)
           u == downloads'
<1>1. /\ handler.kind = "moving" /\ handler.j = 0 /\ handler.iRef # -1 /\ handler.i < Len(t)
      /\ t[handler.i + 1] \in handler.ids
      /\ u = Removed(Inserted(t, IF handler.after THEN handler.iRef + 1 ELSE handler.iRef, t[handler.i + 1]),
                     handler.i + 1)
  BY DEF MoveBack, AtTurn, MoveOne
<1>2. /\ handler \in Moving /\ t \in Seq(Downloads) /\ Len(t) = Len(s)
      /\ MoveTypes(handler, s, c) /\ Moved(handler, t, s, c)
  BY <1>1, MidMove
<1>3. /\ SameMove(handler, handler') /\ handler'.ref = handler.ref
      /\ handler'.toMove = handler.toMove /\ handler'.i = handler.i + 1 /\ handler'.iRef = handler.iRef + 1
      /\ handler'.j = 0
  BY <1>1, <1>2 DEF MoveBack, Moving, SameMove
<1> HIDE DEF s, t, c, u
<1>4. PICK cut \in 0..Len(s) : Joining(handler, t, s, c, cut)
  BY <1>1, <1>2 DEF Moved
<1>5. Joining(handler', u, s, c, cut) /\ Rearranged(u, t) /\ Len(u) = Len(s)
  <2>1. t[handler.i + 1] = s[handler.i + 1] /\ handler.i < Len(s)
    BY <1>1, <1>2, <1>4, JoinsOver
  <2> QED BY <1>1, <1>2, <1>3, <1>4, <2>1, JoinsNext
<1>6. handler'.iRef # -1
  BY <1>1, <1>2, <1>3 DEF MoveTypes
<1>7. Moved(handler', u, s, c)
  BY <1>3, <1>5, <1>6 DEF Moved
<1> QED BY <1>1, <1>3, <1>5, <1>7, MoveFrame DEF s, t, c, u, SameMove

(* Before the reference, and at it. *)
LEMMA ToMoveNext ==
  ASSUME NEW h, NEW g, NEW s, NEW c, MoveTypes(h, s, c), h.i < Len(s), ToMoveIs(h, s, c, h.i),
         SameMove(h, g), g.toMove = IF s[h.i + 1] \in h.ids THEN Append(h.toMove, h.i) ELSE h.toMove
  PROVE  ToMoveIs(g, s, c, h.i + 1)
<1>1. PICK i \in Nat, n \in Nat, m \in Nat, k \in Nat :
        i = h.i /\ n = Len(s) /\ m = Len(h.toMove) /\ i < n /\ k = i + 1 /\ g.ids = h.ids
  BY DEF MoveTypes, SameMove
<1>2. s \in Seq(Downloads) /\ Counting(c, s, h.ids) /\ h.toMove \in Seq(Nat) /\ i + 1 \in 1..Len(s) /\ i + 1 - 1 = i
  BY <1>1 DEF MoveTypes
<1>3. m = c[i] /\ \A l \in 1..m : h.toMove[l] \in 0..i - 1 /\ s[h.toMove[l] + 1] \in h.ids /\ c[h.toMove[l] + 1] = l
  BY <1>1 DEF ToMoveIs
<1>4. \A l \in 1..m : h.toMove[l] \in 0..k - 1
  <2>1. \A e \in 0..i - 1 : e \in 0..k - 1
    BY <1>1
  <2> QED BY <1>3, <2>1
<1>7. ASSUME ToMoveIs(g, s, c, k) PROVE ToMoveIs(g, s, c, h.i + 1)
  BY <1>1, <1>7, SMTT(30)
<1>5. CASE s[i + 1] \in h.ids
  <2>1. c[k] = m + 1
    <3>1. c[i + 1] = c[i + 1 - 1] + 1
      BY <1>2, <1>5, CountStep
    <3> QED BY <1>1, <1>2, <1>3, <3>1
  <2>2. g.toMove = Append(h.toMove, i)
    BY <1>1, <1>5
  <2>3. Len(g.toMove) = m + 1 /\ g.toMove[m + 1] = i /\ \A l \in 1..m : g.toMove[l] = h.toMove[l]
    BY <1>1, <1>2, <2>2
  <2>4. ASSUME NEW l \in 1..m + 1
        PROVE  g.toMove[l] \in 0..k - 1 /\ s[g.toMove[l] + 1] \in h.ids /\ c[g.toMove[l] + 1] = l
    <3>1. CASE l = m + 1
      <4>1. i \in 0..k - 1
        BY <1>1
      <4> QED BY <1>1, <1>5, <2>1, <2>3, <3>1, <4>1
    <3>2. CASE l \in 1..m
      BY <1>3, <1>4, <2>3, <3>2
    <3> QED BY <1>1, <3>1, <3>2
  <2> QED BY <1>1, <1>7, <2>1, <2>3, <2>4 DEF ToMoveIs
<1>6. CASE s[i + 1] \notin h.ids
  <2>1. c[k] = m
    <3>1. c[i + 1] = c[i + 1 - 1]
      <4>1. s \in Seq(Downloads) /\ Counting(c, s, h.ids) /\ i + 1 \in 1..Len(s) /\ s[i + 1] \notin h.ids
        BY <1>2, <1>6
      <4> QED BY ONLY <4>1, CountStep
    <3> QED BY <1>1, <1>2, <1>3, <3>1
  <2>2. g.toMove = h.toMove
    BY <1>1, <1>6
  <2> QED BY <1>1, <1>3, <1>4, <1>7, <2>1, <2>2 DEF ToMoveIs
<1> QED BY <1>5, <1>6

(* The reference is not met: the search goes on. *)
LooksPast(h, g, d) ==
  /\ g.ref = h.ref /\ g.i = h.i + 1 /\ g.left = (IF h.ref = NoRef THEN h.left \ {d} ELSE h.left)
  /\ d # h.ref /\ (h.ref = NoRef /\ d \in h.left => h.after /\ h.left # {d})
LEMMA LooksOn ==
  ASSUME NEW h, NEW g, NEW s, NEW c, MoveTypes(h, s, c), h.i < Len(s), Looking(h, s, s, c),
         SameMove(h, g), ToMoveIs(g, s, c, h.i + 1), LooksPast(h, g, s[h.i + 1])
  PROVE  Looking(g, s, s, c)
<1>0. PICK d : d = s[h.i + 1]
  OBVIOUS
<1>6. /\ g.refs = h.refs /\ g.after = h.after /\ g.ref = h.ref /\ g.i = h.i + 1
      /\ g.left = (IF h.ref = NoRef THEN h.left \ {d} ELSE h.left) /\ d # h.ref
      /\ h.ref = NoRef /\ d \in h.left => h.after /\ h.left # {d}
  BY <1>0 DEF SameMove, LooksPast
<1> DEFINE seen == {s[x] : x \in 1..h.i}
           now == {s[x] : x \in 1..g.i}
<1>1. now = seen \cup {d}
  <2>1. h.i \in Nat
    BY DEF MoveTypes
  <2>2. \A x \in 1..h.i + 1 : x \in 1..h.i \/ x = h.i + 1
    BY <2>1
  <2>3. h.i + 1 \in 1..h.i + 1 /\ \A x \in 1..h.i : x \in 1..h.i + 1
    BY <2>1
  <2> QED BY <1>0, <1>6, <2>2, <2>3
<1>2. /\ h.refs # {} /\ h.after \in BOOLEAN
      /\ h.ref # NoRef => h.refs = {h.ref}
      /\ h.ref = NoRef => h.left = h.refs \ seen
      /\ h.after => ~(h.refs \subseteq seen)
      /\ ~h.after => h.refs \cap seen = {}
  BY DEF Looking, MoveTypes
<1> HIDE DEF seen, now
<1>3. h.ref = NoRef => g.left = h.refs \ now
  BY <1>1, <1>2, <1>6
<1>4. ASSUME h.after PROVE ~(h.refs \subseteq now)
  <2>1. CASE h.ref # NoRef
    BY <1>1, <1>2, <1>4, <1>6, <2>1
  <2>2. CASE h.ref = NoRef
    <3>1. h.left # {} /\ h.left # {d}
      BY <1>2, <1>4, <1>6, <2>2
    <3> QED BY <1>1, <1>2, <2>2, <3>1
  <2> QED BY <2>1, <2>2
<1>5. ASSUME ~h.after PROVE \A x \in 1..g.i : s[x] \notin h.refs
  <2>1. d \notin h.refs
    BY <1>2, <1>5, <1>6
  <2>2. h.refs \cap now = {}
    BY <1>1, <1>2, <1>5, <2>1
  <2> QED BY <2>2 DEF now
<1> QED BY <1>2, <1>3, <1>4, <1>5, <1>6 DEF Looking, now

(* It is met. *)
LooksHere(h, g, d) ==
  /\ g.i = h.i /\ g.iRef = h.i /\ g.j = 1 /\ g.shift = 0 /\ g.ref = d
  /\ d = h.ref \/ (h.ref = NoRef /\ d \in h.left /\ (h.after => h.left = {d}))
LEMMA LooksAt ==
  ASSUME NEW h, NEW g, NEW s, NEW c, MoveTypes(h, s, c), h.i < Len(s), Looking(h, s, s, c),
         SameMove(h, g), ToMoveIs(g, s, c, h.i + 1), LooksHere(h, g, s[h.i + 1])
  PROVE  Shifting(g, s, s, c)
<1>0. PICK d : d = s[h.i + 1]
  OBVIOUS
<1>11. /\ g.ids = h.ids /\ g.refs = h.refs /\ g.after = h.after
       /\ g.i = h.i /\ g.iRef = h.i /\ g.j = 1 /\ g.shift = 0 /\ g.ref = d
       /\ d = h.ref \/ (h.ref = NoRef /\ d \in h.left /\ (h.after => h.left = {d}))
  BY <1>0 DEF SameMove, LooksHere
<1> DEFINE seen == {s[x] : x \in 1..h.i}
<1>1. PICK i \in Nat, n \in Nat : i = h.i /\ n = Len(s) /\ i < n
  BY DEF MoveTypes
<1>2. /\ s \in Seq(Downloads) /\ Counting(c, s, h.ids) /\ h.after \in BOOLEAN
      /\ h.ref # NoRef => h.refs = {h.ref}
      /\ h.ref = NoRef => h.left = h.refs \ seen
      /\ ~h.after => \A x \in 1..h.i : s[x] \notin h.refs
  BY DEF Looking, MoveTypes
<1>3. d \in Downloads /\ d # NoRef
  <2>1. d \in Downloads
    BY <1>0, <1>1, <1>2
  <2> QED BY <2>1, DownloadsAssumption
<1> HIDE DEF seen
<1>4. d \in h.refs /\ (h.after => h.refs \subseteq seen \cup {d})
  BY <1>2, <1>3, <1>11
<1>5. PICK cut \in 0..n : cut = IF h.after THEN i + 1 ELSE i
  BY <1>1
<1>6. CutIs(g, s, cut)
  <2>1. CASE h.after
    <3>1. cut = i + 1 /\ cut >= 1 /\ i + 1 \in 1..i + 1 /\ \A x \in 1..i : x \in 1..i + 1
      BY <1>1, <1>5, <2>1
    <3>2. \A r \in h.refs : \E x \in 1..cut : s[x] = r
      BY <1>0, <1>1, <1>4, <1>11, <2>1, <3>1 DEF seen
    <3> QED BY <1>0, <1>1, <1>4, <1>11, <2>1, <3>1, <3>2 DEF CutIs
  <2>2. CASE ~h.after
    BY <1>0, <1>1, <1>2, <1>4, <1>5, <1>11, <2>2 DEF CutIs
  <2> QED BY <2>1, <2>2
<1>7. RefAt(g, s, cut)
  BY <1>0, <1>1, <1>2, <1>5, <1>11 DEF RefAt
<1>8. \A x \in 1..Len(s) : s[PlaceBefore(s, h.ids, c, cut, 0 - 0, x)] = s[x]
  <2>1. \A x \in 1..Len(s) : PlaceBefore(s, h.ids, c, cut, 0, x) = x
    BY <1>1, <1>2, <1>5, ShiftNone
  <2>2. 0 - 0 = 0
    OBVIOUS
  <2> QED BY <2>1, <2>2
<1>9. 1 <= Len(g.toMove) + 1 /\ 1 <= c[cut] + 1
  <2>1. Len(g.toMove) = c[i + 1] /\ i + 1 \in 0..Len(s) /\ cut \in 0..Len(s)
    BY <1>1, <1>5 DEF ToMoveIs
  <2>2. c[i + 1] \in Nat /\ c[cut] \in Nat
    BY <1>2, <2>1 DEF Counting
  <2> QED BY <2>1, <2>2
<1>10. g.shift = 1 - g.j
  BY <1>11
<1> QED BY <1>1, <1>2, <1>5, <1>6, <1>7, <1>8, <1>9, <1>10, <1>11 DEF Shifting

LEMMA MoveLooksOrder ==
  ASSUME IInv, OrderInv, Next, ~Quit, ~Crash, MoveLooks
  PROVE  OrderInv'
<1> DEFINE s == handler.before
           t == downloads
           c == CountOf(s, handler.ids)
           d == t[handler.i + 1]
           listed == IF d \in handler.ids THEN Append(handler.toMove, handler.i) ELSE handler.toMove
<1>1. /\ handler.kind = "moving" /\ handler.j = 0 /\ handler.i < Len(t)
      /\ ~(d \in handler.ids /\ handler.iRef # -1) /\ UNCHANGED downloads
      /\ IF IsReference(d)
         THEN handler' = [handler EXCEPT !.toMove = listed, !.ref = d, !.iRef = handler.i, !.j = 1, !.shift = 0]
         ELSE handler' = [handler EXCEPT !.toMove = listed, !.i = @ + 1,
                                         !.left = IF handler.ref = NoRef THEN @ \ {d} ELSE @]
  BY DEF MoveLooks, AtTurn
<1>2. /\ handler \in Moving /\ t \in Seq(Downloads) /\ Len(t) = Len(s)
      /\ MoveTypes(handler, s, c) /\ Moved(handler, t, s, c)
  BY <1>1, MidMove
<1> HIDE DEF s, t, c, d, listed
<1>3. /\ SameMove(handler, handler') /\ handler'.toMove = listed
      /\ IsReference(d) => LooksHere(handler, handler', d)
      /\ ~IsReference(d) => /\ handler'.iRef = handler.iRef /\ handler'.j = 0
                            /\ LooksPast(handler, handler', d)
  <2>1. IsReference(d) <=> d = handler.ref \/ ( /\ handler.ref = NoRef /\ d \in handler.left
                                                /\ handler.after => handler.left = {d})
    BY DEF IsReference
  <2>2. CASE IsReference(d)
    BY <1>1, <1>2, <2>1, <2>2, ZenonT(60) DEF Moving, s, SameMove, LooksHere
  <2>3. CASE ~IsReference(d)
    <3>1. handler' = [handler EXCEPT !.toMove = listed, !.i = @ + 1,
                                     !.left = IF handler.ref = NoRef THEN @ \ {d} ELSE @]
      BY <1>1, <2>3
    <3>2. /\ handler'.toMove = listed /\ handler'.i = handler.i + 1
          /\ handler'.left = (IF handler.ref = NoRef THEN handler.left \ {d} ELSE handler.left)
          /\ handler'.ref = handler.ref /\ handler'.iRef = handler.iRef /\ handler'.j = handler.j
          /\ SameMove(handler, handler')
      BY <1>1, <1>2, <3>1 DEF Moving, s, SameMove
    <3>3. LooksPast(handler, handler', d)
      BY <2>1, <2>3, <3>2 DEF LooksPast
    <3> QED BY <1>1, <2>3, <3>2, <3>3
  <2> QED BY <2>2, <2>3
<1>5. CASE handler.iRef = -1
  <2>1. Looking(handler, s, s, c) /\ t = s
    BY <1>1, <1>2, <1>5 DEF Moved, Looking
  <2>2. ToMoveIs(handler', s, c, handler.i + 1)
    <3>1. listed = IF s[handler.i + 1] \in handler.ids THEN Append(handler.toMove, handler.i) ELSE handler.toMove
      BY <2>1 DEF listed, d
    <3>2. ToMoveIs(handler, s, c, handler.i)
      BY <2>1 DEF Looking
    <3> QED BY <1>1, <1>2, <1>3, <3>1, <3>2, ToMoveNext
  <2>3. Moved(handler', t, s, c)
    <3>1. CASE IsReference(d)
      <4>1. Shifting(handler', s, s, c)
        BY <1>1, <1>2, <1>3, <2>1, <2>2, <3>1, LooksAt DEF d
      <4>2. handler'.iRef # -1 /\ handler'.j > 0
        BY <1>2, <1>3, <3>1 DEF MoveTypes, LooksHere
      <4> QED BY <1>2, <2>1, <4>1, <4>2 DEF Moved
    <3>2. CASE ~IsReference(d)
      <4>1. Looking(handler', s, s, c)
        BY <1>1, <1>2, <1>3, <2>1, <2>2, <3>2, LooksOn DEF d
      <4> QED BY <1>2, <1>3, <1>5, <2>1, <3>2, <4>1 DEF Moved
    <3> QED BY <3>1, <3>2
  <2> QED BY <1>1, <1>3, <2>3, MoveFrame DEF s, t, c, SameMove
<1>6. CASE handler.iRef # -1
  <2>1. PICK cut \in 0..Len(s) : Joining(handler, t, s, c, cut)
    BY <1>1, <1>2, <1>6 DEF Moved
  <2>2. d = s[handler.i + 1] /\ d # handler.ref /\ handler.ref \in Downloads
    BY <1>1, <1>2, <2>1, JoinsOver DEF d
  <2>3. ~IsReference(d)
    BY <2>2, DownloadsAssumption DEF IsReference
  <2>4. d \notin handler.ids /\ listed = handler.toMove
    BY <1>1, <1>6 DEF listed
  <2>5. Joining(handler', t, s, c, cut)
    <3>1. handler'.ref = handler.ref /\ handler'.i = handler.i + 1 /\ handler'.iRef = handler.iRef
      BY <1>3, <2>3 DEF LooksPast
    <3> QED BY <1>1, <1>2, <1>3, <2>1, <2>2, <2>4, <3>1, JoinsNext
  <2>6. Moved(handler', t, s, c)
    BY <1>2, <1>3, <1>6, <2>3, <2>5 DEF Moved
  <2> QED BY <1>1, <1>3, <2>6, MoveFrame DEF s, t, c, SameMove
<1> QED BY <1>5, <1>6

(* At the reference, where the inner loop is. *)
ShiftTypes(h, s, c, i, n, j, m) ==
  /\ i \in Nat /\ n \in Nat /\ j \in Nat /\ m \in Nat
  /\ i = h.i /\ n = Len(s) /\ j = h.j /\ m = Len(h.toMove) /\ i < n /\ j <= m + 1
  /\ s \in Seq(Downloads) /\ Counting(c, s, h.ids) /\ h.after \in BOOLEAN /\ m = c[i + 1]
LEMMA ShiftIs ==
  ASSUME NEW h, NEW s, NEW c, NEW t, MoveTypes(h, s, c), Shifting(h, t, s, c)
  PROVE  \E i, n, j, m \in Nat : ShiftTypes(h, s, c, i, n, j, m)
<1>1. h.i \in Nat /\ Len(s) \in Nat /\ h.j \in Nat /\ Len(h.toMove) \in Nat
  BY DEF MoveTypes
<1>2. h.i < Len(s) /\ h.j <= Len(h.toMove) + 1 /\ Len(h.toMove) = c[h.i + 1]
  BY DEF Shifting, ToMoveIs
<1>3. ShiftTypes(h, s, c, h.i, Len(s), h.j, Len(h.toMove))
  BY <1>1, <1>2 DEF MoveTypes, ShiftTypes
<1> QED BY <1>1, <1>3

ForwardTurn(h, g, r, t, u) ==
  /\ h.j \in 1..Len(h.toMove) /\ (h.after \/ h.toMove[h.j] # h.iRef)
  /\ g.i = h.i /\ g.iRef = h.iRef /\ g.ref = h.ref /\ g.toMove = h.toMove
  /\ g.j = h.j + 1 /\ g.shift = h.shift - 1
  /\ r = h.toMove[h.j] + h.shift
  /\ u = Removed(Inserted(t, IF h.after THEN h.iRef + 1 ELSE h.iRef, t[r + 1]), r)
LEMMA ForwardNext ==
  ASSUME NEW h, NEW g, NEW s, NEW c, NEW t \in Seq(Downloads), Len(t) = Len(s),
         MoveTypes(h, s, c), Shifting(h, t, s, c), SameMove(h, g), NEW r, NEW u, ForwardTurn(h, g, r, t, u)
  PROVE  Shifting(g, u, s, c) /\ Rearranged(u, t) /\ Len(u) = Len(s)
<1>0. /\ h.j \in 1..Len(h.toMove) /\ (h.after \/ h.toMove[h.j] # h.iRef)
      /\ g.i = h.i /\ g.iRef = h.iRef /\ g.ref = h.ref /\ g.toMove = h.toMove
      /\ g.j = h.j + 1 /\ g.shift = h.shift - 1
      /\ r = h.toMove[h.j] + h.shift
      /\ u = Removed(Inserted(t, IF h.after THEN h.iRef + 1 ELSE h.iRef, t[r + 1]), r)
  BY DEF ForwardTurn
<1>1. PICK i \in Nat, n \in Nat, j \in Nat, m \in Nat : ShiftTypes(h, s, c, i, n, j, m)
  BY ShiftIs
<1>2. /\ i = h.i /\ n = Len(s) /\ j = h.j /\ m = Len(h.toMove) /\ i < n /\ j >= 1 /\ j <= m
      /\ s \in Seq(Downloads) /\ Counting(c, s, h.ids) /\ h.after \in BOOLEAN /\ m = c[i + 1]
  BY <1>0, <1>1 DEF ShiftTypes
<1>3. PICK cut \in Nat : cut = IF h.after THEN i + 1 ELSE i
  BY <1>2
<1>4. /\ CutIs(h, s, cut) /\ RefAt(h, s, cut) /\ ToMoveIs(h, s, c, i + 1)
      /\ h.iRef = i /\ h.shift = 1 - j /\ j <= c[cut] + 1
      /\ \A x \in 1..Len(s) : t[PlaceBefore(s, h.ids, c, cut, 0 - h.shift, x)] = s[x]
  <2>1. /\ \/ h.iRef = h.i /\ h.shift = 1 - h.j /\ h.j <= c[cut] + 1
           \/ h.j = Len(h.toMove) + 1
        /\ CutIs(h, s, cut) /\ RefAt(h, s, cut) /\ ToMoveIs(h, s, c, i + 1)
        /\ \A x \in 1..Len(s) : t[PlaceBefore(s, h.ids, c, cut, 0 - h.shift, x)] = s[x]
    BY <1>2, <1>3 DEF Shifting
  <2> QED BY <1>2, <2>1
<1>5. PICK z \in Nat : z = h.toMove[j] + 1 /\ z >= 1 /\ z <= i + 1 /\ s[z] \in h.ids /\ c[z] = j /\ z - 1 = h.toMove[j]
  <2>1. j \in 1..m
    BY <1>2
  <2>2. h.toMove[j] \in 0..i + 1 - 1 /\ s[h.toMove[j] + 1] \in h.ids /\ c[h.toMove[j] + 1] = j
    <3>1. ToMoveIs(h, s, c, i + 1) /\ m = Len(h.toMove)
      BY <1>2, <1>4
    <3> QED BY ONLY <2>1, <3>1 DEF ToMoveIs
  <2>3. h.toMove[j] \in Nat /\ h.toMove[j] <= i
    BY <1>2, <2>2
  <2> QED BY <2>2, <2>3, SMTT(30)
<1>6. z <= cut /\ cut <= n /\ z \in 1..cut /\ cut \in 0..Len(s) /\ z \in 0..Len(s)
  <2>1. h.after \/ z # i + 1
    <3>1. h.iRef = i /\ j = h.j
      BY <1>2, <1>4
    <3>2. z = i + 1 => h.toMove[j] = i
      BY ONLY <1>2, <1>5
    <3> QED BY <1>0, <3>1, <3>2
  <2>2. z <= cut /\ cut <= n
    BY <1>2, <1>3, <1>5, <2>1, SMTT(30)
  <2> QED BY <1>2, <1>5, <2>2
<1>7. PICK k \in Nat : k = j - 1 /\ 0 - h.shift = k /\ j = k + 1 /\ z - 1 - k = r /\ z - k = r + 1
  <2>1. PICK k \in Nat : k = j - 1 /\ j = k + 1
    BY ONLY <1>2
  <2>2. PICK e \in Nat : e = h.toMove[j] /\ e = z - 1
    BY ONLY <1>5
  <2>3. h.shift = 1 - j /\ r = h.toMove[j] + h.shift
    BY <1>0, <1>2, <1>4
  <2>4. r = e + (1 - j)
    BY <2>2, <2>3
  <2>5. z - 1 - k = r /\ z - k = r + 1 /\ 0 - (1 - j) = k
    BY ONLY <2>1, <2>2, <2>4
  <2> QED BY <2>1, <2>3, <2>5
<1>8. u = Removed(Inserted(t, cut, t[z - k]), z - 1 - k)
  <2>1. (IF h.after THEN h.iRef + 1 ELSE h.iRef) = cut
    BY <1>3, <1>4
  <2> QED BY <1>0, <1>7, <2>1
<1>9. PICK f \in Nat : f = c[cut] /\ j <= f
  <2>1. c[z] <= c[cut] /\ c[cut] \in Nat
    BY <1>2, <1>6, CountBetween
  <2> QED BY <1>5, <2>1
<1>10. t[z - k] \in Downloads
  <2>1. c[z] <= z
    BY <1>2, <1>6, CountBetween
  <2>2. z - k \in 1..n
    <3>1. j <= z
      BY <1>5, <2>1
    <3>2. j >= 1 /\ z <= n /\ j = k + 1
      BY <1>2, <1>6, <1>7
    <3> QED BY ONLY <3>1, <3>2
  <2> QED BY <1>2, <2>2
<1>11. /\ u \in Seq(Downloads) /\ Len(u) = Len(s) /\ Rearranged(u, t)
       /\ \A x \in 1..Len(s) : u[PlaceBefore(s, h.ids, c, cut, k + 1, x)] = s[x]
  <2>1. c[z] = k + 1 /\ \A x \in 1..Len(s) : t[PlaceBefore(s, h.ids, c, cut, k, x)] = s[x]
    BY <1>4, <1>5, <1>7
  <2>2. ShiftTurn(s, h.ids, c, t, cut, k, z, t[z - k], u)
    BY <1>2, <1>5, <1>6, <1>8, <1>10, <2>1 DEF ShiftTurn
  <2> QED BY ONLY <2>2, ShiftOne
<1>12. /\ g.after = h.after /\ g.refs = h.refs /\ g.ids = h.ids /\ g.j = j + 1 /\ g.shift = 1 - (j + 1)
       /\ 0 - g.shift = k + 1
  <2>1. g.shift = 1 - j - 1
    BY <1>0, <1>4
  <2>2. 1 - j - 1 = 1 - (j + 1) /\ 0 - (1 - (j + 1)) = k + 1
    <3>1. j = k + 1
      BY <1>7
    <3> QED BY ONLY <3>1
  <2> QED BY <1>0, <1>2, <2>1, <2>2 DEF SameMove
<1>13. CutIs(g, s, cut) /\ RefAt(g, s, cut) /\ ToMoveIs(g, s, c, i + 1)
  BY <1>0, <1>4, <1>12 DEF CutIs, RefAt, ToMoveIs
<1>14. j + 1 <= m + 1 /\ j + 1 <= f + 1
  <2>1. j <= m /\ j <= f /\ j \in Nat /\ m \in Nat /\ f \in Nat
    BY ONLY <1>2, <1>9, j \in Nat, m \in Nat, f \in Nat, ZenonT(60)
  <2> QED BY ONLY <2>1
<1>15. \A x \in 1..Len(s) : u[PlaceBefore(s, g.ids, c, cut, 0 - g.shift, x)] = s[x]
  BY <1>11, <1>12
<1>16. Shifting(g, u, s, c)
  <2>1. cut = (IF g.after THEN g.i + 1 ELSE g.i) /\ g.i < Len(s) /\ ToMoveIs(g, s, c, g.i + 1)
    <3>1. g.i = i /\ g.after = h.after
      BY <1>0, <1>2, <1>12
    <3> QED BY ONLY <1>2, <1>3, <1>13, <3>1
  <2>2. g.j <= Len(g.toMove) + 1 /\ g.j <= c[cut] + 1
    <3>1. g.j = j + 1 /\ Len(g.toMove) = m /\ c[cut] = f
      BY <1>0, <1>2, <1>9, <1>12
    <3> QED BY ONLY <1>14, <3>1
  <2>3. g.iRef = g.i /\ g.shift = 1 - g.j
    <3>1. g.iRef = i /\ g.i = i /\ g.j = j + 1 /\ g.shift = 1 - (j + 1)
      BY <1>0, <1>2, <1>4, <1>12
    <3> QED BY ONLY <3>1
  <2> QED BY ONLY <1>13, <1>15, <2>1, <2>2, <2>3, SMTT(30) DEF Shifting
<1> QED BY <1>11, <1>16

LEMMA KeepsNext ==
  ASSUME NEW h, NEW g, NEW s, NEW c, NEW t, MoveTypes(h, s, c), Shifting(h, t, s, c), SameMove(h, g),
         h.j \in 1..Len(h.toMove), ~h.after, h.toMove[h.j] = h.iRef,
         g.i = h.i, g.iRef = h.iRef + 1, g.ref = h.ref, g.toMove = h.toMove, g.j = h.j + 1, g.shift = h.shift
  PROVE  Shifting(g, t, s, c)
<1>1. PICK i \in Nat, n \in Nat, j \in Nat, m \in Nat : ShiftTypes(h, s, c, i, n, j, m)
  BY ShiftIs
<1>2. /\ i = h.i /\ n = Len(s) /\ j = h.j /\ m = Len(h.toMove) /\ i < n /\ j >= 1 /\ j <= m
      /\ m = c[i + 1]
  BY <1>1 DEF ShiftTypes
<1>3. /\ CutIs(h, s, i) /\ RefAt(h, s, i) /\ ToMoveIs(h, s, c, i + 1)
      /\ h.iRef = i /\ h.shift = 1 - j
      /\ \A x \in 1..Len(s) : t[PlaceBefore(s, h.ids, c, i, 0 - h.shift, x)] = s[x]
  <2>1. /\ \/ h.iRef = h.i /\ h.shift = 1 - h.j
           \/ h.j = Len(h.toMove) + 1
        /\ CutIs(h, s, i) /\ RefAt(h, s, i) /\ ToMoveIs(h, s, c, i + 1)
        /\ \A x \in 1..Len(s) : t[PlaceBefore(s, h.ids, c, i, 0 - h.shift, x)] = s[x]
    BY <1>2 DEF Shifting
  <2> QED BY <1>2, <2>1
<1>4. s[i + 1] \in h.ids /\ c[i + 1] = j
  <2>1. j \in 1..m
    BY <1>2
  <2> QED BY <1>2, <1>3, <2>1 DEF ToMoveIs
<1>5. /\ g.after = h.after /\ g.refs = h.refs /\ g.ids = h.ids /\ g.j = m + 1 /\ g.shift = 2 - g.j
      /\ g.iRef = g.i + 1
  <2>1. m = j /\ g.j = j + 1 /\ g.shift = 1 - j
    BY <1>2, <1>3, <1>4
  <2>2. 1 - j = 2 - (j + 1)
    BY <1>2
  <2> QED BY <1>2, <1>3, <2>1, <2>2 DEF SameMove
<1>6. CutIs(g, s, i) /\ RefAt(g, s, i) /\ ToMoveIs(g, s, c, i + 1)
  BY <1>3, <1>5 DEF CutIs, RefAt, ToMoveIs
<1> QED BY <1>2, <1>3, <1>4, <1>5, <1>6 DEF Shifting

LEMMA ShiftDone ==
  ASSUME NEW h, NEW g, NEW s, NEW c, NEW t, MoveTypes(h, s, c), Shifting(h, t, s, c), SameMove(h, g),
         h.j > Len(h.toMove), g.i = h.i + 1, g.iRef = h.iRef, g.ref = h.ref, g.toMove = <<>>
  PROVE  \E cut \in 0..Len(s) : Joining(g, t, s, c, cut)
<1>1. PICK i \in Nat, n \in Nat, j \in Nat, m \in Nat : ShiftTypes(h, s, c, i, n, j, m)
  BY ShiftIs
<1>2. /\ i = h.i /\ n = Len(s) /\ j = h.j /\ m = Len(h.toMove) /\ i < n /\ j = m + 1
      /\ s \in Seq(Downloads) /\ Counting(c, s, h.ids) /\ h.after \in BOOLEAN /\ m = c[i + 1]
  BY <1>1 DEF ShiftTypes
<1>3. PICK cut \in Nat : cut = (IF h.after THEN i + 1 ELSE i) /\ cut \in 0..Len(s) /\ cut \in {i, i + 1}
  BY <1>2
<1>4. /\ CutIs(h, s, cut) /\ RefAt(h, s, cut)
      /\ \/ h.iRef = i /\ h.shift = 1 - j /\ j <= c[cut] + 1
         \/ h.iRef = i + 1 /\ h.shift = 2 - j /\ ~h.after /\ s[i + 1] \in h.ids
      /\ \A x \in 1..Len(s) : t[PlaceBefore(s, h.ids, c, cut, 0 - h.shift, x)] = s[x]
  BY <1>2, <1>3 DEF Shifting
<1>5. PICK f \in Nat, e \in Nat : f = c[cut] /\ e = c[i] /\ f <= m /\ e <= m /\ (s[i + 1] \in h.ids => m = e + 1)
  <2>1. i \in 0..Len(s) /\ i + 1 \in 0..Len(s) /\ i + 1 \in 1..Len(s) /\ i + 1 - 1 = i /\ cut <= i + 1
    BY <1>2, <1>3
  <2>2. c[cut] \in Nat /\ c[cut] <= c[i + 1]
    BY <1>2, <1>3, <2>1, CountBetween
  <2>3. c[i] \in Nat /\ c[i] <= c[i + 1]
    BY <1>2, <2>1, CountBetween, SMTT(30)
  <2>4. s[i + 1] \in h.ids => c[i + 1] = c[i + 1 - 1] + 1
    <3>1. s \in Seq(Downloads) /\ Counting(c, s, h.ids) /\ i + 1 \in 1..Len(s)
      BY <1>2, <2>1
    <3> QED BY ONLY <3>1, CountStep
  <2> QED BY <1>2, <2>1, <2>2, <2>3, <2>4
<1>6. /\ h.shift = 0 - f
      /\ (IF h.after THEN h.iRef + 1 ELSE h.iRef) = cut - f + m
  <2>1. CASE h.iRef = i /\ h.shift = 1 - j /\ j <= f + 1
    <3>1. f = m /\ 1 - j = 0 - f
      <4>1. j = m + 1 /\ f <= m /\ j <= f + 1
        BY <1>2, <1>5, <2>1
      <4> QED BY ONLY <4>1
    <3>2. (IF h.after THEN i + 1 ELSE i) = cut - f + m
      <4>1. cut - f + m = cut
        BY ONLY <3>1, cut \in Nat, f \in Nat
      <4>2. cut = (IF h.after THEN i + 1 ELSE i)
        BY <1>3
      <4> QED BY ONLY <4>1, <4>2
    <3> QED BY <2>1, <3>1, <3>2
  <2>2. CASE h.iRef = i + 1 /\ h.shift = 2 - j /\ ~h.after /\ s[i + 1] \in h.ids
    <3>1. cut = i
      BY <1>3, <2>2
    <3>2. f = e /\ m = f + 1
      BY <1>5, <2>2, <3>1
    <3>3. 2 - j = 0 - f /\ i + 1 = cut - f + m
      BY ONLY <1>2, <3>1, <3>2
    <3> QED BY <2>2, <3>3
  <2> QED BY <1>4, <1>5, <2>1, <2>2
<1>7. \A x \in 1..Len(s) : t[PlaceAfter(s, h.ids, c, cut, i + 1, x)] = s[x]
  <2>1. i \in 0..Len(s) - 1 /\ 0 - h.shift = f
    BY <1>2, <1>6
  <2>2. \A x \in 1..Len(s) : PlaceBefore(s, h.ids, c, cut, c[cut], x) = PlaceAfter(s, h.ids, c, cut, i + 1, x)
    BY <1>2, <1>3, <2>1, ShiftAll, SMTT(30)
  <2> QED BY <1>4, <1>5, <2>1, <2>2
<1>8. g.after = h.after /\ g.refs = h.refs /\ g.ids = h.ids
  BY DEF SameMove
<1>9. CutIs(g, s, cut) /\ RefAt(g, s, cut)
  BY <1>4, <1>8 DEF CutIs, RefAt
<1>10. (IF g.after THEN cut ELSE cut + 1) <= g.i
  BY <1>2, <1>3, <1>8
<1>11. (IF g.after THEN g.iRef + 1 ELSE g.iRef) = cut - c[cut] + c[g.i]
  BY <1>2, <1>5, <1>6, <1>8
<1>12. Joining(g, t, s, c, cut)
  BY <1>2, <1>7, <1>8, <1>9, <1>10, <1>11 DEF Joining
<1> QED BY <1>3, <1>12

LEMMA ShiftingOrder ==
  ASSUME IInv, OrderInv, Next, ~Quit, ~Crash, MoveForward \/ MoveKeepsRef \/ ShiftEnds, handler.j > 0
  PROVE  OrderInv'
<1> DEFINE s == handler.before
           t == downloads
           c == CountOf(s, handler.ids)
           u == downloads'
<1>1. handler.kind = "moving"
  BY DEF MoveForward, MoveKeepsRef, ShiftEnds, AtShift
<1>2. /\ handler \in Moving /\ t \in Seq(Downloads) /\ Len(t) = Len(s)
      /\ MoveTypes(handler, s, c) /\ Moved(handler, t, s, c)
  BY <1>1, MidMove
<1>3. Shifting(handler, t, s, c) /\ handler.iRef # -1
  BY <1>2 DEF Moved
<1>4. handler.j \in Nat /\ Len(handler.toMove) \in Nat
  BY <1>2 DEF Moving
<1>5. CASE MoveForward
  <2> DEFINE r == handler.toMove[handler.j] + handler.shift
  <2>1. /\ handler.j \in 1..Len(handler.toMove) /\ (handler.after \/ handler.toMove[handler.j] # handler.iRef)
        /\ u = Removed(Inserted(t, IF handler.after THEN handler.iRef + 1 ELSE handler.iRef, t[r + 1]), r)
        /\ handler' = [handler EXCEPT !.j = @ + 1, !.shift = @ - 1]
    BY <1>5 DEF MoveForward, AtShift, RefStays, MoveOne
  <2> HIDE DEF s, t, c, u, r
  <2>2. /\ SameMove(handler, handler') /\ handler'.i = handler.i /\ handler'.iRef = handler.iRef
        /\ handler'.ref = handler.ref /\ handler'.toMove = handler.toMove
        /\ handler'.j = handler.j + 1 /\ handler'.shift = handler.shift - 1
    BY <1>1, <1>2, <2>1 DEF Moving, SameMove
  <2>3. Shifting(handler', u, s, c) /\ Rearranged(u, t) /\ Len(u) = Len(s)
    <3>1. ForwardTurn(handler, handler', r, t, u)
      BY <2>1, <2>2 DEF ForwardTurn, r
    <3>2. /\ t \in Seq(Downloads) /\ Len(t) = Len(s) /\ MoveTypes(handler, s, c) /\ Shifting(handler, t, s, c)
          /\ SameMove(handler, handler')
      BY <1>2, <1>3, <2>2
    <3> QED BY ONLY <3>1, <3>2, ForwardNext
  <2>4. Moved(handler', u, s, c)
    <3>1. handler'.j > 0 /\ handler'.j # 0
      BY <1>4, <2>2
    <3> QED BY <1>3, <2>2, <2>3, <3>1 DEF Moved
  <2> QED BY <1>1, <2>2, <2>3, <2>4, MoveFrame DEF s, t, c, u, SameMove
<1>6. CASE MoveKeepsRef
  <2>1. /\ handler.j \in 1..Len(handler.toMove) /\ ~handler.after /\ handler.toMove[handler.j] = handler.iRef
        /\ handler' = [handler EXCEPT !.j = @ + 1, !.iRef = @ + 1] /\ UNCHANGED downloads
    BY <1>6 DEF MoveKeepsRef, AtShift, RefStays
  <2> HIDE DEF s, t, c, u
  <2>2. /\ SameMove(handler, handler') /\ handler'.i = handler.i /\ handler'.iRef = handler.iRef + 1
        /\ handler'.ref = handler.ref /\ handler'.toMove = handler.toMove
        /\ handler'.j = handler.j + 1 /\ handler'.shift = handler.shift
    BY <1>1, <1>2, <2>1 DEF Moving, SameMove
  <2>3. Shifting(handler', t, s, c)
    BY <1>2, <1>3, <2>1, <2>2, KeepsNext
  <2>4. Moved(handler', t, s, c)
    <3>1. handler'.j > 0 /\ handler'.j # 0
      BY <1>4, <2>2
    <3>2. handler'.iRef # -1
      BY <1>2, <1>3, <2>2 DEF MoveTypes
    <3> QED BY <1>2, <2>3, <3>1, <3>2 DEF Moved
  <2> QED BY <1>1, <2>1, <2>2, <2>4, MoveFrame DEF s, t, c, SameMove
<1>7. CASE ShiftEnds
  <2>1. /\ handler.j > Len(handler.toMove) /\ UNCHANGED downloads
        /\ handler' = [handler EXCEPT !.toMove = <<>>, !.j = 0, !.i = @ + 1]
    BY <1>7 DEF ShiftEnds
  <2> HIDE DEF s, t, c, u
  <2>2. /\ SameMove(handler, handler') /\ handler'.i = handler.i + 1 /\ handler'.iRef = handler.iRef
        /\ handler'.ref = handler.ref /\ handler'.toMove = <<>> /\ handler'.j = 0
    BY <1>1, <1>2, <2>1 DEF Moving, SameMove
  <2>3. \E cut \in 0..Len(s) : Joining(handler', t, s, c, cut)
    BY <1>2, <1>3, <2>1, <2>2, ShiftDone
  <2>4. Moved(handler', t, s, c)
    BY <1>2, <1>3, <2>2, <2>3 DEF Moved
  <2> QED BY <1>1, <2>1, <2>2, <2>4, MoveFrame DEF s, t, c, SameMove
<1> QED BY <1>5, <1>6, <1>7

LEMMA OrderStep == IInv /\ OrderInv /\ [Next]_vars => OrderInv'
<1> SUFFICES ASSUME IInv, OrderInv, [Next]_vars PROVE OrderInv'
  OBVIOUS
<1>1. CASE UNCHANGED vars
  BY <1>1 DEF vars, OrderInv, BornOK, LoadingOK, ReplacingOK, ReplacedAt, RemovingOK, MovingOK, Loading, KnownChild
<1>2. CASE Quit \/ Crash
  <2>1. handler' = Idle /\ downloads' = <<>>
    BY <1>2 DEF Quit, Crash, StartAgain
  <2> QED BY <2>1, EmptyOrder
<1>3. ASSUME Next, ~Quit, ~Crash PROVE OrderInv'
  <2>1. CASE \E n \in Asked, p \in Destinations : UserAdds(n, p)
    BY <1>3, <2>1, UserAddsOrder
  <2>2. CASE \E d \in Dirs : \E l \in Listings[NameOf[d]] : NewEntries(d, l)
    BY <1>3, <2>2, NewEntriesOrder
  <2>3. CASE LoadQueue \/ Enter \/ EnterSkips \/ SecondPass \/ EnterEnds \/ RemoveEnds \/ MoveEnds
    BY <1>3, <2>3, LoadOrder, EnterOrder, PassesOrder, EndsOrder
  <2>4. CASE RemoveSome \/ RemoveComplete
    BY <1>3, <2>4, RemoveStarts DEF RemoveSome, RemoveComplete
  <2>5. CASE RemoveSkips \/ RemoveOne
    BY <1>3, <2>5, RemovalOrder
  <2>6. CASE \E ids, refs \in Selections, after \in BOOLEAN : Move(ids, refs, after)
    BY <1>3, <2>6, MoveBegins
  <2>7. CASE MoveBack \/ MoveLooks
    BY <1>3, <2>7, MoveBackOrder, MoveLooksOrder
  <2>8. CASE MoveForward \/ MoveKeepsRef \/ ShiftEnds
    <3>1. handler \in Moving
      BY <2>8, Shapes DEF MoveForward, MoveKeepsRef, ShiftEnds, AtShift, IInv, HandlerOK
    <3>2. handler.j \in Nat /\ Len(handler.toMove) \in Nat
      BY <3>1 DEF Moving
    <3>3. handler.j > 0
      BY <2>8, <3>2 DEF MoveForward, MoveKeepsRef, ShiftEnds, AtShift
    <3> QED BY <1>3, <2>8, <3>3, ShiftingOrder
  <2>9. CASE \/ \E P \in Predicates : Scan(P)
             \/ \E d \in Downloads : PauseOrHash(d) \/ FileReset(d)
             \/ \E d \in Downloads, st \in {"live", "erroneous", "complete"} : StatusChanges(d, st)
             \/ \E d \in Downloads, p \in Places : FileCreated(d, p)
             \/ \E k \in 1..MaxListed : Restart(k)
             \/ RestartNone \/ Save
    <3>1. UNCHANGED <<downloads, handler>>
      BY <2>9 DEF Scan, PauseOrHash, FileReset, StatusChanges, FileCreated, Restart, RestartNone, Save
    <3> QED BY <1>3, <3>1, FrameOrder
  <2> QED BY <1>3, <2>1, <2>2, <2>3, <2>4, <2>5, <2>6, <2>7, <2>8, <2>9 DEF Next
<1> QED BY <1>1, <1>2, <1>3

LEMMA OrderInvariant == Spec => []OrderInv
<1>1. Init => OrderInv
  <2> SUFFICES ASSUME Init PROVE OrderInv
    OBVIOUS
  <2>1. downloads = <<>> /\ handler = Idle /\ handler.kind = "idle"
    BY DEF Init, Idle
  <2>2. ~Loading
    BY <2>1 DEF Loading
  <2> QED
    BY <2>1, <2>2 DEF OrderInv, BornOK, Distinct, BornIn, LoadingOK, ReplacingOK, RemovingOK, MovingOK
<1> QED BY <1>1, OrderStep, Invariant, PTL DEF Spec

-----------------------------------------------------------------------------
(* The steps, seen as those of QueueOrder.                                 *)

Told == IF MainIdle THEN downloads ELSE handler.before

LEMMA SameOperators ==
  /\ \A s, K : Order!Only(s, K) = Only(s, K)
  /\ \A s, S : Order!Without(s, S) = Only(s, ToSet(s) \ S)
  /\ Order!New = Only(Told', ToSet(Told') \ ToSet(Told))
<1>1. ASSUME NEW s, NEW K PROVE Order!Only(s, K) = Only(s, K)
  BY DEF Order!Only, Order!KeptOf, Only, KeptOf
<1>2. ASSUME NEW s PROVE Order!ToSet(s) = ToSet(s)
  BY DEF Order!ToSet, ToSet
<1>3. ASSUME NEW s, NEW S PROVE Order!Without(s, S) = Only(s, ToSet(s) \ S)
  BY <1>1, <1>2 DEF Order!Without
<1>4. Order!New = Only(Told', ToSet(Told') \ ToSet(Told))
  BY <1>1, <1>2 DEF Order!New, Told
<1> QED BY <1>1, <1>3, <1>4

CommandTold ==
  /\ MainIdle <=> handler.kind = "idle"
  /\ MainIdle => Command = Order!NoCommand
  /\ Loading => ~MainIdle /\ Command = [do |-> "load"]
  /\ handler.kind = "entering" /\ ~Loading =>
       Command = [do |-> "replace", directory |-> Replaced, known |-> KnownChild]
  /\ handler.kind = "removing" => Command = [do |-> "remove", which |-> handler.selected]
  /\ handler.kind = "moving" =>
       Command = [do |-> "move", which |-> handler.ids, refs |-> handler.refs, after |-> handler.after]
  /\ handler.kind \in {"idle", "entering", "removing", "moving"}

LEMMA CommandIsTold == IInv => CommandTold
<1> SUFFICES ASSUME IInv PROVE CommandTold
  OBVIOUS
<1>1. handler \in Handlers
  BY DEF IInv, HandlerOK
<1>2. handler.kind \in {"idle", "entering", "removing", "moving"}
  BY <1>1 DEF Handlers, Idle, Entering, Removing, Moving
<1>3. MainIdle <=> handler.kind = "idle"
  BY <1>1, Shapes DEF MainIdle
<1> QED BY <1>2, <1>3 DEF CommandTold, Command, Loading, Order!NoCommand

LEMMA CommandNext == IInv' => CommandTold'
BY CommandIsTold, PTL

LEMMA ReplacedUnique ==
  ASSUME NEW s \in Seq(Downloads), NEW t \in Seq(Downloads), Distinct(s), NEW p \in 1..Len(s),
         \A x \in 1..Len(t) : t[x] # s[p],
         Only(t, ToSet(s)) = Only(s, ToSet(s) \ {s[p]})
  PROVE  /\ (CHOOSE d \in ToSet(s) : d \notin ToSet(t)) = s[p]
         /\ \A d \in ToSet(s) : d \notin ToSet(t) <=> d = s[p]
<1>0. /\ \A d : d \in ToSet(s) <=> \E x \in 1..Len(s) : s[x] = d
      /\ \A d : d \in ToSet(t) <=> \E x \in 1..Len(t) : t[x] = d
  BY DEF ToSet
<1>1. s[p] \in ToSet(s) /\ s[p] \notin ToSet(t)
  BY <1>0
<1>2. ASSUME NEW d \in ToSet(s), d # s[p] PROVE d \in ToSet(t)
  <2>1. PICK x \in 1..Len(s) : s[x] = d
    BY <1>0
  <2>2. PICK a \in 1..Len(Only(s, ToSet(s) \ {s[p]})) : Only(s, ToSet(s) \ {s[p]})[a] = d
    <3>1. s[x] \in ToSet(s) \ {s[p]}
      BY <1>2, <2>1
    <3> DEFINE K == ToSet(s) \ {s[p]}
    <3> HIDE DEF K
    <3>2. \A i \in 1..Len(s) : s[i] \in K => \E a \in 1..Len(Only(s, K)) : Only(s, K)[a] = s[i]
      BY OnlyProperties
    <3>3. s[x] \in K
      BY <3>1 DEF K
    <3>4. \E a \in 1..Len(Only(s, K)) : Only(s, K)[a] = d
      BY <2>1, <3>2, <3>3
    <3> QED BY <3>4 DEF K
  <2>3. \E i \in 1..Len(t) : Only(t, ToSet(s))[a] = t[i]
    BY <2>2, OnlyProperties
  <2> QED BY <1>0, <2>2, <2>3
<1> QED BY <1>1, <1>2

(* The types of the command under way. *)
UnderWay ==
  /\ downloads \in Seq(Downloads)
  /\ ~MainIdle => handler.before \in Seq(Downloads)
  /\ handler.kind = "entering" =>
       /\ handler \in Entering /\ handler.entries \in Seq(Entries)
       /\ handler.n \in Nat \ {0} /\ handler.at \in Nat
       /\ handler.pass \in {"saved", "files", "directories"}
  /\ handler.kind = "removing" => handler.selected \in SUBSET Downloads /\ handler.position \in Nat
  /\ handler.kind = "moving" =>
       /\ handler.ids \in SUBSET Downloads /\ handler.refs \in SUBSET Downloads
       /\ handler.after \in BOOLEAN

LEMMA UnderWayTyped == IInv => UnderWay
<1> SUFFICES ASSUME IInv PROVE UnderWay
  OBVIOUS
<1>1. /\ handler.kind = "entering" => handler \in Entering
      /\ handler.kind = "removing" => handler \in Removing
      /\ handler.kind = "moving" => handler \in Moving
      /\ ~MainIdle => handler.kind \in {"entering", "removing", "moving"}
  BY Shapes, CommandIsTold DEF IInv, HandlerOK, CommandTold
<1>2. downloads \in Seq(Downloads)
  BY DEF IInv, QueueOK, Marked
<1> QED BY <1>1, <1>2 DEF UnderWay, Entering, Removing, Moving

LEMMA UnderWayNext == IInv' => UnderWay'
BY UnderWayTyped, PTL

(* The directory that is replaced is the one that is gone. *)
ReplacedTold ==
  handler.kind = "entering" /\ ~Loading =>
    \E p \in 1..Len(handler.before) :
      /\ ReplacedAt(handler, downloads, p) /\ Replaced = handler.before[p]
      /\ \A d \in ToSet(handler.before) : d \notin Queued <=> d = handler.before[p]

LEMMA ReplacedIsTold == IInv /\ OrderInv => ReplacedTold
<1> SUFFICES ASSUME IInv, OrderInv, handler.kind = "entering", ~Loading PROVE ReplacedTold
  BY DEF ReplacedTold
<1>1. PICK p \in 1..Len(handler.before) : ReplacedAt(handler, downloads, p)
  BY DEF OrderInv, ReplacingOK
<1>2. /\ \A x \in 1..Len(downloads) : downloads[x] # handler.before[p]
      /\ Only(downloads, ToSet(handler.before))
           = Only(handler.before, ToSet(handler.before) \ {handler.before[p]})
  BY <1>1 DEF ReplacedAt, Replacing
<1>3. Distinct(handler.before)
  BY DEF OrderInv, BornOK
<1>4. handler.before \in Seq(Downloads) /\ downloads \in Seq(Downloads)
  BY UnderWayTyped, CommandIsTold DEF UnderWay, CommandTold
<1>5. /\ (CHOOSE d \in ToSet(handler.before) : d \notin ToSet(downloads)) = handler.before[p]
      /\ \A d \in ToSet(handler.before) : d \notin ToSet(downloads) <=> d = handler.before[p]
  BY <1>2, <1>3, <1>4, ReplacedUnique
<1> QED BY <1>1, <1>5 DEF Replaced, Queued, ReplacedTold

LEMMA ReplacedNext == IInv' /\ OrderInv' => ReplacedTold'
BY ReplacedIsTold, PTL

(* Between two commands, and within one. *)
LEMMA IdleStutters ==
  ASSUME IInv, IInv', MainIdle, MainIdle', UNCHANGED downloads
  PROVE  UNCHANGED <<Told, Command>>
BY CommandIsTold, CommandNext DEF CommandTold, Told, Order!NoCommand

LEMMA TurnStutters ==
  ASSUME IInv, OrderInv, IInv', OrderInv', ~MainIdle, handler'.kind = handler.kind,
         handler'.before = handler.before,
         handler.kind = "removing" => handler'.selected = handler.selected,
         handler.kind = "moving" =>
           /\ handler'.ids = handler.ids /\ handler'.refs = handler.refs
           /\ handler'.after = handler.after,
         handler.kind = "entering" =>
           handler'.entries = handler.entries /\ (Loading' <=> Loading) /\ Queued \subseteq Queued'
  PROVE  UNCHANGED <<Told, Command>>
<1>0. CommandTold /\ CommandTold'
  BY CommandIsTold, CommandNext
<1>1. UNCHANGED Told
  BY <1>0 DEF CommandTold, Told
<1>2. CASE handler.kind = "entering" /\ ~Loading
  <2>1. PICK p \in 1..Len(handler.before) :
          /\ Replaced = handler.before[p]
          /\ \A d \in ToSet(handler.before) : d \notin Queued <=> d = handler.before[p]
    BY <1>2, ReplacedIsTold DEF ReplacedTold
  <2>2. PICK q \in 1..Len(handler.before) :
          /\ Replaced' = handler.before[q]
          /\ \A d \in ToSet(handler.before) : d \notin Queued' <=> d = handler.before[q]
    BY <1>2, ReplacedNext DEF ReplacedTold
  <2>3. handler.before[q] \in ToSet(handler.before)
    BY DEF ToSet
  <2>4. Replaced' = Replaced
    BY <1>2, <2>1, <2>2, <2>3
  <2>5. KnownChild' = KnownChild
    BY <1>2 DEF KnownChild
  <2> QED BY <1>0, <1>1, <1>2, <2>4, <2>5 DEF CommandTold
<1>3. CASE ~(handler.kind = "entering" /\ ~Loading)
  <2>1. UNCHANGED Command
    BY <1>0, <1>3 DEF CommandTold, Loading
  <2> QED BY <1>1, <2>1
<1> QED BY <1>2, <1>3

CommandOK == ~MainIdle => Command \in Order!Commands
LEMMA CommandTyped == IInv /\ OrderInv => CommandOK
<1> SUFFICES ASSUME IInv, OrderInv, ~MainIdle PROVE Command \in Order!Commands
  BY DEF CommandOK
<1>0. CommandTold /\ UnderWay
  BY CommandIsTold, UnderWayTyped
<1>1. CASE handler.kind = "entering" /\ ~Loading
  <2>1. PICK p \in 1..Len(handler.before) : Replaced = handler.before[p]
    BY <1>1, ReplacedIsTold DEF ReplacedTold
  <2>2. Replaced \in Downloads
    BY <1>0, <1>1, <2>1 DEF UnderWay
  <2>3. KnownChild \in BOOLEAN
    BY DEF KnownChild
  <2> QED BY <1>0, <1>1, <2>2, <2>3 DEF CommandTold, Order!Commands
<1>2. CASE Loading
  BY <1>0, <1>2 DEF CommandTold, Order!Commands
<1>3. CASE handler.kind \in {"removing", "moving"}
  BY <1>0, <1>3 DEF CommandTold, UnderWay, Order!Commands
<1> QED BY <1>0, <1>1, <1>2, <1>3 DEF CommandTold

LEMMA CommandTypedNext == IInv' /\ OrderInv' => CommandOK'
BY CommandTyped, PTL

(* A command begins. *)
LEMMA AskStep ==
  ASSUME IInv, IInv', OrderInv', MainIdle, ~MainIdle', handler'.before = downloads
  PROVE  Order!Ask
<1>1. Command = Order!NoCommand
  BY CommandIsTold DEF CommandTold
<1>3. Command' \in Order!Commands
  BY CommandTypedNext DEF CommandOK
<1>4. UNCHANGED Told
  BY DEF Told
<1> QED BY <1>1, <1>3, <1>4 DEF Order!Ask, Told

(* What is new, when a list grows at its end. *)
LEMMA TailIs ==
  ASSUME NEW s \in Seq(Downloads), NEW t \in Seq(Downloads), Distinct(t), Len(s) <= Len(t),
         \A x \in 1..Len(s) : t[x] = s[x],
         NEW r, r = Only(t, ToSet(t) \ ToSet(s))
  PROVE  t = s \o r /\ Len(r) = Len(t) - Len(s)
<1> DEFINE K == ToSet(t) \ ToSet(s)
           u == SubSeq(t, Len(s) + 1, Len(t))
<1>0. PICK a \in Nat, n \in Nat : a = Len(s) /\ n = Len(t) /\ a <= n
  OBVIOUS
<1>1. \A x \in 1..n : t[x] \in K <=> (a < x /\ x <= n)
  <2>1. SUFFICES ASSUME NEW x \in 1..n PROVE t[x] \in K <=> a < x
    BY <1>0
  <2>2. ASSUME x <= a PROVE t[x] \in ToSet(s)
    <3>1. x \in 1..Len(s)
      BY <1>0, <2>2
    <3> QED BY <3>1 DEF ToSet
  <2>3. ASSUME a < x, t[x] \in ToSet(s) PROVE FALSE
    <3>1. PICK y \in 1..Len(s) : s[y] = t[x]
      BY <2>3 DEF ToSet
    <3>2. t[y] = t[x] /\ y \in 1..n /\ y <= a
      BY <1>0, <3>1
    <3> QED BY <1>0, <2>3, <3>2 DEF Distinct
  <2>4. t[x] \in ToSet(t)
    BY <1>0 DEF ToSet
  <2> QED BY <1>0, <2>2, <2>3, <2>4
<1>2. u \in Seq(Downloads) /\ Len(u) = n - a /\ \A y \in 1..n - a : u[y] = t[a + y]
  <2>1. a <= n /\ n <= Len(t) /\ a \in Nat
    BY <1>0
  <2> QED BY <1>0, <2>1, Cuts
<1> HIDE DEF K, u
<1>3. u = Only(t, K)
  <2>1. a \in 0..Len(t) /\ n \in a..Len(t) /\ u \in Seq(Downloads) /\ Len(u) = n - a
    BY <1>0, <1>2
  <2>2. \A x \in 1..Len(t) : t[x] \in K <=> (a < x /\ x <= n)
    BY <1>0, <1>1
  <2> QED BY ONLY <1>2, <2>1, <2>2, t \in Seq(Downloads), OnlySegment
<1>4. t = s \o u
  <2>0. s \in Seq(Downloads) /\ u \in Seq(Downloads)
    BY <1>2
  <2>1. /\ s \o u \in Seq(Downloads) /\ Len(s \o u) = Len(s) + Len(u)
        /\ \A x \in 1..Len(s) + Len(u) : (s \o u)[x] = IF x <= Len(s) THEN s[x] ELSE u[x - Len(s)]
    BY ONLY <2>0, ConcatProperties
  <2>2. Len(s) + Len(u) = Len(t) /\ Len(t) = n
    BY <1>0, <1>2
  <2>3. ASSUME NEW x \in 1..n PROVE t[x] = (s \o u)[x]
    <3>1. CASE x <= a
      <4>1. x \in 1..Len(s) /\ x <= Len(s) /\ x \in 1..Len(s) + Len(u)
        BY <1>0, <2>2, <3>1
      <4> QED BY <2>1, <4>1
    <3>2. CASE x > a
      <4>1. PICK y \in 1..n - a : y = x - a
        BY <1>0, <3>2
      <4>2. a + y = x
        BY <1>0, <4>1
      <4>3. ~(x <= Len(s)) /\ x \in 1..Len(s) + Len(u) /\ x - Len(s) = y
        BY <1>0, <2>2, <3>2, <4>1
      <4>4. (s \o u)[x] = u[y]
        BY <2>1, <4>3
      <4> QED BY <1>2, <4>2, <4>4
    <3>3. x <= a \/ x > a
      BY <1>0
    <3> QED BY <3>1, <3>2, <3>3
  <2>4. Len(t) = Len(s \o u) /\ \A x \in 1..Len(t) : t[x] = (s \o u)[x]
    BY <2>1, <2>2, <2>3
  <2> QED BY ONLY <2>1, <2>4, t \in Seq(Downloads), SeqEqual
<1> QED BY <1>0, <1>2, <1>3, <1>4 DEF K

LEMMA AddStep ==
  ASSUME IInv, IInv', OrderInv, OrderInv', NEW n, NEW p, UserAdds(n, p)
  PROVE  [Order!Add]_<<Told, Command>>
<1> DEFINE entry == [name |-> n, place |-> p]
<1>1. /\ MainIdle /\ handler' = handler
      /\ AddDownload(entry, Len(downloads), FALSE)
  BY DEF UserAdds
<1>2. MainIdle'
  BY <1>1 DEF MainIdle
<1>3. \/ UNCHANGED downloads
      \/ \E d \in Downloads : Adds(d, Len(downloads))
  BY <1>1, AddsOne
<1>4. ASSUME NEW d \in Downloads, Adds(d, Len(downloads)) PROVE Order!Add
  <2>1. downloads \in Seq(Downloads) /\ downloads' \in Seq(Downloads) /\ Distinct(downloads')
    BY UnderWayTyped, UnderWayNext DEF UnderWay, OrderInv, BornOK
  <2>2. PICK c \in 0..Len(downloads) : c = Len(downloads)
    BY <2>1
  <2>3. InsertedAfter(downloads', downloads, c, d)
    BY <1>4, <2>1, <2>2, InsertedPlaces DEF Adds
  <2>4. Len(downloads') = Len(downloads) + 1 /\ \A x \in 1..Len(downloads) : downloads'[x] = downloads[x]
    BY <2>1, <2>2, <2>3 DEF InsertedAfter
  <2>5. Told = downloads /\ Told' = downloads'
    BY <1>1, <1>2 DEF Told
  <2>6. Order!New = Only(downloads', ToSet(downloads') \ ToSet(downloads))
    BY <2>5, SameOperators
  <2>7. downloads' = downloads \o Order!New /\ Len(Order!New) = 1
    <3>1. Len(downloads) <= Len(downloads')
      BY <2>1, <2>4
    <3>2. downloads' = downloads \o Order!New /\ Len(Order!New) = Len(downloads') - Len(downloads)
      BY <2>1, <2>4, <2>6, <3>1, TailIs
    <3> QED BY <2>1, <2>4, <3>2
  <2>8. Command = Order!NoCommand /\ UNCHANGED Command
    BY <1>1, <1>2, CommandIsTold, CommandNext DEF CommandTold, Order!NoCommand
  <2> QED BY <2>5, <2>7, <2>8 DEF Order!Add, Told
<1> QED BY <1>1, <1>2, <1>3, <1>4, IdleStutters

(* The program ends. *)
LEMMA ForgetStep ==
  ASSUME IInv', Quit \/ Crash
  PROVE  Order!Forget
<1>1. downloads' = <<>> /\ MainIdle'
  BY DEF Quit, Crash, StartAgain, MainIdle
<1>2. Command' = Order!NoCommand
  BY <1>1, CommandNext DEF CommandTold, Order!NoCommand
<1> QED BY <1>1, <1>2 DEF Order!Forget

(* The end of a command, without its effect on the order. *)
LEMMA CommandEnds ==
  ASSUME IInv, IInv', ~MainIdle, handler' = Idle, UNCHANGED downloads
  PROVE  /\ MainIdle' /\ Command' = Order!NoCommand
         /\ Told = handler.before /\ Told' = downloads /\ handler.before \in Seq(Downloads)
         /\ Order!New = Only(downloads, ToSet(downloads) \ ToSet(handler.before))
<1>1. MainIdle'
  BY DEF MainIdle
<1>2. Told = handler.before /\ Told' = downloads
  BY <1>1 DEF Told
<1>3. handler.before \in Seq(Downloads)
  BY UnderWayTyped DEF UnderWay
<1> QED BY <1>1, <1>2, <1>3, CommandNext, SameOperators DEF CommandTold, Order!NoCommand

LEMMA LoadStepOrder ==
  ASSUME IInv, IInv', OrderInv, Loading, EnterEnds
  PROVE  Order!Load
<1>0. ~MainIdle /\ Command = [do |-> "load"] /\ handler' = Idle /\ UNCHANGED downloads
  BY CommandIsTold DEF CommandTold, EnterEnds
<1>1. /\ Command' = Order!NoCommand
      /\ Told = handler.before /\ Told' = downloads /\ handler.before \in Seq(Downloads)
      /\ Order!New = Only(downloads, ToSet(downloads) \ ToSet(handler.before))
  BY <1>0, CommandEnds
<1>2. downloads \in Seq(Downloads) /\ Distinct(downloads)
  BY UnderWayTyped DEF UnderWay, OrderInv, BornOK
<1>3. /\ Len(handler.before) <= Len(downloads)
      /\ \A x \in 1..Len(handler.before) : downloads[x] = handler.before[x]
  BY DEF OrderInv, LoadingOK
<1>4. downloads = handler.before \o Order!New
  BY <1>1, <1>2, <1>3, TailIs
<1>5. Order!Carries("load")
  BY <1>0, <1>1 DEF Order!Carries
<1> QED BY <1>1, <1>4, <1>5 DEF Order!Load, Told

(* The list s has become t: what was at p is replaced by what is new, r. *)
ReplacedBy(s, t, p, r) ==
  /\ s \in Seq(Downloads) /\ t \in Seq(Downloads) /\ p \in 1..Len(s) /\ p - 1 <= Len(t)
  /\ r = Only(t, ToSet(t) \ ToSet(s))
  /\ \A x \in 1..p - 1 : t[x] = s[x]
  /\ \A x \in 1..Len(t) : t[x] # s[p]
  /\ Only(t, ToSet(s)) = Only(s, ToSet(s) \ {s[p]})

LEMMA KnownReplaced ==
  ASSUME NEW s, NEW t, NEW p, NEW r, ReplacedBy(s, t, p, r)
  PROVE  /\ Only(t, ToSet(t) \ ToSet(r)) = Only(s, ToSet(s) \ {s[p]})
         /\ SubSeq(t, 1, p - 1) = SubSeq(s, 1, p - 1)
<1>b. /\ s \in Seq(Downloads) /\ t \in Seq(Downloads) /\ p \in 1..Len(s) /\ p - 1 <= Len(t)
      /\ r = Only(t, ToSet(t) \ ToSet(s)) /\ \A x \in 1..p - 1 : t[x] = s[x]
      /\ Only(t, ToSet(s)) = Only(s, ToSet(s) \ {s[p]})
  BY DEF ReplacedBy
<1>c. r \in Seq(Downloads)
  BY <1>b, OnlyProperties
<1>a. \A x \in 1..Len(t) : t[x] \in ToSet(t)
  BY <1>b DEF ToSet
<1> DEFINE K == ToSet(t) \ ToSet(s)
           L == ToSet(t) \ ToSet(r)
           M == ToSet(s)
<1>0. \A d : d \in ToSet(r) <=> \E a \in 1..Len(r) : r[a] = d
  BY <1>c DEF ToSet
<1>1. ASSUME NEW x \in 1..Len(t) PROVE t[x] \in L <=> t[x] \in M
  <2>0. t[x] \in ToSet(t)
    BY <1>a
  <2> HIDE DEF K
  <2>1. /\ \A a \in 1..Len(Only(t, K)) : Only(t, K)[a] \in K
        /\ \A i \in 1..Len(t) : t[i] \in K => \E a \in 1..Len(Only(t, K)) : Only(t, K)[a] = t[i]
    BY <1>b, OnlyProperties
  <2>2. r = Only(t, K)
    BY <1>b DEF K
  <2>3. t[x] \in ToSet(r) <=> t[x] \in K
    BY <1>0, <2>1, <2>2
  <2>4. t[x] \in K <=> t[x] \notin M
    BY <2>0 DEF K
  <2> QED BY <2>0, <2>3, <2>4
<1> HIDE DEF K, L, M
<1>2. Only(t, L) = Only(t, M)
  BY <1>1, <1>b, OnlySame
<1>3. SubSeq(t, 1, p - 1) = SubSeq(s, 1, p - 1)
  <2>1. PICK q \in Nat : q = p - 1 /\ q <= Len(s) /\ q <= Len(t)
    BY <1>b
  <2>2. /\ SubSeq(t, 1, q) \in Seq(Downloads) /\ Len(SubSeq(t, 1, q)) = q
        /\ \A i \in 1..q : SubSeq(t, 1, q)[i] = t[i]
    BY <1>b, <2>1, Cuts
  <2>3. /\ SubSeq(s, 1, q) \in Seq(Downloads) /\ Len(SubSeq(s, 1, q)) = q
        /\ \A i \in 1..q : SubSeq(s, 1, q)[i] = s[i]
    BY <1>b, <2>1, Cuts
  <2>4. \A i \in 1..q : t[i] = s[i]
    BY <1>b, <2>1
  <2>5. SubSeq(t, 1, q) = SubSeq(s, 1, q)
    BY ONLY <2>2, <2>3, <2>4, SeqEqual, SMTT(30)
  <2> QED BY <2>1, <2>5
<1> QED BY <1>2, <1>3, <1>b DEF L, M

LEMMA NewReplaced ==
  ASSUME NEW s, NEW t, NEW p, NEW r, ReplacedBy(s, t, p, r), NEW e \in Nat,
         Distinct(s), Distinct(t), Len(t) = Len(s) - 1 + e,
         \A x \in p + 1..Len(s) : t[x - 1 + e] = s[x]
  PROVE  t = SubSeq(s, 1, p - 1) \o r \o SubSeq(s, p + 1, Len(s))
<1>b. /\ s \in Seq(Downloads) /\ t \in Seq(Downloads) /\ p \in 1..Len(s)
      /\ r = Only(t, ToSet(t) \ ToSet(s)) /\ \A x \in 1..p - 1 : t[x] = s[x]
      /\ \A x \in 1..Len(t) : t[x] # s[p]
  BY DEF ReplacedBy
<1> USE <1>b
<1> DEFINE K == ToSet(t) \ ToSet(s)
           u == [y \in 1..e |-> t[p - 1 + y]]
<1>0. PICK n \in Nat, m \in Nat, q \in Nat, b \in Nat :
        /\ n = Len(s) /\ m = Len(t) /\ q = p - 1 /\ b = q + e /\ p \in Nat /\ p <= n /\ m = n - 1 + e
  OBVIOUS
<1>1. ASSUME NEW x \in 1..m PROVE t[x] \in K <=> (q < x /\ x <= b)
  <2>0. t[x] \in ToSet(t)
    BY <1>0 DEF ToSet
  <2>1. ASSUME x <= q PROVE t[x] \in ToSet(s)
    <3>1. x \in 1..p - 1 /\ x \in 1..Len(s)
      BY <1>0, <2>1
    <3>2. t[x] = s[x]
      BY <3>1
    <3> QED BY <3>1, <3>2 DEF ToSet
  <2>2. ASSUME x > b PROVE t[x] \in ToSet(s)
    <3>1. PICK y \in p + 1..Len(s) : y - 1 + e = x
      <4>1. x - e + 1 \in p + 1..Len(s) /\ (x - e + 1) - 1 + e = x
        BY <1>0, <2>2
      <4> QED BY <4>1
    <3>2. t[y - 1 + e] = s[y]
      BY <3>1
    <3>3. t[x] = s[y] /\ y \in 1..Len(s)
      BY <1>0, <3>1, <3>2
    <3> QED BY <3>3 DEF ToSet
  <2>3. ASSUME q < x, x <= b, t[x] \in ToSet(s) PROVE FALSE
    <3>1. PICK y \in 1..n : s[y] = t[x]
      BY <1>0, <2>3 DEF ToSet
    <3>2. CASE y < p
      <4>1. y \in 1..p - 1 /\ y \in 1..Len(t) /\ x \in 1..Len(t) /\ y # x
        BY <1>0, <2>3, <3>2
      <4> QED BY <3>1, <4>1 DEF Distinct
    <3>3. CASE y = p
      BY <1>0, <3>1, <3>3
    <3>4. CASE y > p
      <4>1. y \in p + 1..Len(s)
        BY <1>0, <3>4
      <4>2. PICK z \in 1..Len(t) : z = y - 1 + e /\ z # x
        BY <1>0, <2>3, <3>4
      <4>3. t[z] = t[x] /\ x \in 1..Len(t)
        BY <1>0, <3>1, <4>1, <4>2
      <4> QED BY <4>2, <4>3 DEF Distinct
    <3> QED BY <1>0, <3>2, <3>3, <3>4
  <2>4. x <= q \/ (q < x /\ x <= b) \/ x > b
    BY <1>0
  <2>5. ~(x <= q /\ q < x) /\ ~(x > b /\ x <= b)
    BY <1>0
  <2> QED BY <2>0, <2>1, <2>2, <2>3, <2>4, <2>5
<1>2. u \in Seq(Downloads) /\ Len(u) = e /\ \A y \in 1..e : u[y] = t[q + y]
  <2>1. ASSUME NEW y \in 1..e PROVE t[p - 1 + y] \in Downloads
    <3>1. p - 1 + y \in 1..Len(t)
      BY <1>0
    <3> QED BY <3>1
  <2>2. u \in [1..e -> Downloads]
    BY <2>1
  <2> QED BY <1>0, <2>2
<1> HIDE DEF K, u
<1>3. u = Only(t, K)
  <2>1. q \in 0..Len(t) /\ b \in q..Len(t) /\ u \in Seq(Downloads) /\ Len(u) = b - q
    BY <1>0, <1>2
  <2>2. \A x \in 1..Len(t) : t[x] \in K <=> (q < x /\ x <= b)
    BY <1>0, <1>1
  <2>3. \A y \in 1..b - q : u[y] = t[q + y]
    BY <1>0, <1>2
  <2> QED BY ONLY <2>1, <2>2, <2>3, <1>b, OnlySegment
<1>4. PICK v, w : v = SubSeq(s, 1, q) /\ w = SubSeq(s, p + 1, Len(s))
  OBVIOUS
<1>5. /\ v \in Seq(Downloads) /\ Len(v) = q /\ \A i \in 1..q : v[i] = s[i]
      /\ w \in Seq(Downloads) /\ Len(w) = n - p /\ \A i \in 1..n - p : w[i] = s[p + i]
  <2>1. q \in Nat /\ p \in Nat /\ q <= p /\ p <= Len(s)
    BY <1>0
  <2> QED BY <1>0, <1>4, <2>1, Cuts
<1>6. /\ v \o u \in Seq(Downloads) /\ Len(v \o u) = Len(v) + Len(u)
      /\ \A i \in 1..Len(v) + Len(u) : (v \o u)[i] = IF i <= Len(v) THEN v[i] ELSE u[i - Len(v)]
  <2>1. v \in Seq(Downloads) /\ u \in Seq(Downloads)
    BY <1>2, <1>5
  <2> QED BY ONLY <2>1, ConcatProperties
<1>7. PICK z : z = v \o u
  OBVIOUS
<1>8. z \in Seq(Downloads) /\ Len(z) = b /\ \A i \in 1..b : z[i] = IF i <= q THEN v[i] ELSE u[i - q]
  BY ONLY <1>0, <1>2, <1>5, <1>6, <1>7
<1>9. /\ z \o w \in Seq(Downloads) /\ Len(z \o w) = Len(z) + Len(w)
      /\ \A i \in 1..Len(z) + Len(w) : (z \o w)[i] = IF i <= Len(z) THEN z[i] ELSE w[i - Len(z)]
  BY ONLY <1>5, <1>8, ConcatProperties
<1>10. Len(z) + Len(w) = m
  <2>1. Len(z) = b /\ Len(w) = n - p
    BY ONLY <1>5, <1>8
  <2>2. b + (n - p) = m
    BY ONLY <1>0, e \in Nat
  <2> QED BY ONLY <2>1, <2>2
<1>11. ASSUME NEW x \in 1..m PROVE t[x] = (z \o w)[x]
  <2>0. (z \o w)[x] = IF x <= b THEN z[x] ELSE w[x - b]
    BY <1>8, <1>9, <1>10
  <2>1. CASE x <= q
    <3>1. x <= b /\ x \in 1..q /\ x \in 1..b /\ x \in 1..p - 1
      BY <1>0, <2>1
    <3> QED BY <1>5, <1>8, <2>0, <3>1, SMTT(30)
  <2>2. CASE q < x /\ x <= b
    <3>1. PICK y \in 1..e : y = x - q /\ q + y = x
      <4>1. x - q \in 1..e /\ q + (x - q) = x
        BY <1>0, <2>2
      <4> QED BY <4>1
    <3>2. z[x] = u[y]
      <4>1. x \in 1..b /\ ~(x <= q)
        BY <1>0, <2>2
      <4> QED BY <1>8, <3>1, <4>1
    <3> QED BY <1>2, <2>0, <2>2, <3>1, <3>2
  <2>3. CASE x > b
    <3>1. PICK i \in 1..n - p : i = x - b
      BY <1>0, <2>3
    <3>2. PICK y \in p + 1..Len(s) : y = p + i
      BY <1>0
    <3>3. y - 1 + e = x
      BY <1>0, <3>1, <3>2
    <3>4. (z \o w)[x] = w[i] /\ w[i] = s[y]
      <4>1. ~(x <= b)
        BY <1>0, <2>3
      <4> QED BY <1>5, <2>0, <3>1, <3>2, <4>1
    <3> QED BY <3>2, <3>3, <3>4
  <2>4. x <= q \/ (q < x /\ x <= b) \/ x > b
    BY <1>0
  <2> QED BY <2>1, <2>2, <2>3, <2>4
<1>12. Len(t) = Len(z \o w) /\ \A x \in 1..Len(t) : t[x] = (z \o w)[x]
  BY <1>0, <1>9, <1>10, <1>11
<1>13. t = z \o w
  BY ONLY <1>9, <1>12, <1>b, SeqEqual
<1> QED BY <1>0, <1>3, <1>4, <1>7, <1>13 DEF K

LEMMA ReplaceStep ==
  ASSUME IInv, IInv', OrderInv, ~Loading, EnterEnds
  PROVE  Order!Replace
<1>0. handler.kind = "entering" /\ handler' = Idle /\ UNCHANGED downloads
  BY DEF EnterEnds
<1>1. ~MainIdle /\ Command = [do |-> "replace", directory |-> Replaced, known |-> KnownChild]
  BY <1>0, CommandIsTold DEF CommandTold
<1>2. /\ Command' = Order!NoCommand
      /\ Told = handler.before /\ Told' = downloads /\ handler.before \in Seq(Downloads)
      /\ Order!New = Only(downloads, ToSet(downloads) \ ToSet(handler.before))
  BY <1>0, <1>1, CommandEnds
<1>3. PICK p \in 1..Len(handler.before) : ReplacedAt(handler, downloads, p) /\ Replaced = handler.before[p]
  BY <1>0, ReplacedIsTold DEF ReplacedTold
<1>4. PICK s, t, e, r :
        /\ s = handler.before /\ t = downloads /\ r = Order!New
        /\ e = Len(downloads) - (Len(handler.before) - 1)
  OBVIOUS
<1>5. /\ s \in Seq(Downloads) /\ t \in Seq(Downloads) /\ Distinct(s) /\ Distinct(t)
      /\ p \in 1..Len(s) /\ e \in Int /\ Len(t) = Len(s) - 1 + e
      /\ r = Only(t, ToSet(t) \ ToSet(s))
  <2>1. downloads \in Seq(Downloads) /\ handler.before \in Seq(Downloads)
    BY <1>2, UnderWayTyped DEF UnderWay
  <2>2. Distinct(downloads) /\ Distinct(handler.before)
    BY <1>0 DEF OrderInv, BornOK
  <2>3. r = Only(t, ToSet(t) \ ToSet(s))
    BY <1>2, <1>4
  <2>4. p \in 1..Len(s)
    BY <1>3, <1>4
  <2>5. s \in Seq(Downloads) /\ t \in Seq(Downloads) /\ e = Len(t) - (Len(s) - 1)
    BY <1>4, <2>1
  <2>6. e \in Int /\ Len(t) = Len(s) - 1 + e
    BY ONLY <2>5
  <2> QED BY <1>4, <2>2, <2>3, <2>4, <2>5, <2>6
<1>6. /\ e >= 0 /\ p - 1 <= Len(t)
      /\ \A x \in 1..Len(t) : t[x] # s[p]
      /\ \A x \in 1..p - 1 : t[x] = s[x]
      /\ Only(t, ToSet(s)) = Only(s, ToSet(s) \ {s[p]})
      /\ ~KnownChild => \A x \in p + 1..Len(s) : t[x - 1 + e] = s[x]
  BY <1>3, <1>4 DEF ReplacedAt, Replacing, ReplacingWell
<1>13. ReplacedBy(s, t, p, r)
  BY <1>5, <1>6 DEF ReplacedBy
<1>7. /\ Only(t, ToSet(t) \ ToSet(r)) = Only(s, ToSet(s) \ {s[p]})
      /\ SubSeq(t, 1, p - 1) = SubSeq(s, 1, p - 1)
  BY <1>13, KnownReplaced
<1>8. ~KnownChild => t = SubSeq(s, 1, p - 1) \o r \o SubSeq(s, p + 1, Len(s))
  <2>1. e \in Nat
    BY <1>5, <1>6
  <2> QED BY ONLY <1>5, <1>6, <1>13, <2>1, NewReplaced
<1>9. Order!Carries("replace")
  BY <1>1, <1>2 DEF Order!Carries
<1>10. /\ Order!Without(t, Order!ToSet(r)) = Order!Without(s, {s[p]})
  <2>1. Order!ToSet(r) = ToSet(r)
    BY DEF Order!ToSet, ToSet
  <2> QED BY <1>7, <2>1, SameOperators
<1>11. p \in DOMAIN s
  BY <1>5
<1>12. Command.directory = s[p] /\ Command.known = KnownChild
  BY <1>1, <1>3, <1>4
<1> QED BY <1>2, <1>4, <1>7, <1>8, <1>9, <1>10, <1>11, <1>12 DEF Order!Replace, Told

(* The downloads that a removal leaves. *)
LEMMA LeftIs ==
  ASSUME NEW s \in Seq(Downloads), NEW t \in Seq(Downloads), NEW K, NEW c, IsCount(c, s, K),
         Counting(c, s, K), Len(t) = Len(s) - c[Len(s)],
         \A x \in 1..Len(s) : s[x] \notin K => t[x - c[x]] = s[x]
  PROVE  t = Only(s, ToSet(s) \ K)
<1> DEFINE L == ToSet(s) \ K
           f == [x \in 0..Len(s) |-> x - c[x]]
<1>0. PICK n \in Nat : n = Len(s)
  OBVIOUS
<1>1. \A x \in 0..n : c[x] \in Nat /\ c[x] <= x
  BY <1>0 DEF Counting
<1>2. \A x \in 1..n : s[x] \in L <=> s[x] \notin K
  BY <1>0 DEF ToSet
<1>3. IsCount(f, s, L)
  <2>1. f \in [0..n -> Int]
    BY <1>0, <1>1
  <2>2. f[0] = 0
    BY <1>0 DEF Counting
  <2>3. ASSUME NEW x \in 1..n PROVE f[x] = IF s[x] \in L THEN f[x - 1] + 1 ELSE f[x - 1]
    <3>1. x \in 0..n /\ x - 1 \in 0..n
      OBVIOUS
    <3>2. c[x] = IF s[x] \in K THEN c[x - 1] + 1 ELSE c[x - 1]
      BY <1>0 DEF Counting
    <3>3. c[x] \in Nat /\ c[x - 1] \in Nat
      BY <1>1, <3>1
    <3>4. f[x] = x - c[x] /\ f[x - 1] = x - 1 - c[x - 1]
      BY <1>0, <3>1
    <3> HIDE DEF f, L
    <3> QED BY <1>2, <3>2, <3>3, <3>4
  <2> HIDE DEF f, L
  <2> QED BY <1>0, <2>1, <2>2, <2>3 DEF IsCount
<1>4. Len(t) = f[Len(s)]
  BY <1>0
<1>5. \A x \in 1..Len(s) : s[x] \in L => t[f[x]] = s[x]
  BY <1>0, <1>2
<1> HIDE DEF f, L
<1>6. t = Only(s, L)
  BY <1>3, <1>4, <1>5, OnlyIs
<1> QED BY <1>6 DEF L

LEMMA TakeOutStep ==
  ASSUME IInv, IInv', OrderInv, RemoveEnds
  PROVE  Order!TakeOut
<1>0. /\ handler.kind = "removing" /\ handler' = Idle /\ UNCHANGED downloads
      /\ handler.position = Len(downloads)
  BY DEF RemoveEnds
<1>1. ~MainIdle /\ Command = [do |-> "remove", which |-> handler.selected]
  BY <1>0, CommandIsTold DEF CommandTold
<1>2. /\ Command' = Order!NoCommand
      /\ Told = handler.before /\ Told' = downloads /\ handler.before \in Seq(Downloads)
  BY <1>0, <1>1, CommandEnds
<1>3. PICK s, t, c, K :
        s = handler.before /\ t = downloads /\ K = handler.selected /\ c = CountOf(s, K)
  OBVIOUS
<1>4. s \in Seq(Downloads) /\ t \in Seq(Downloads)
  BY <1>2, <1>3, UnderWayTyped DEF UnderWay
<1>5. IsCount(c, s, K) /\ Counting(c, s, K)
  BY <1>3, <1>4, CountOfIs, CountingIs
<1>6. PICK m \in 0..Len(s) : Met(handler, t, s, c, m)
  BY <1>0, <1>3 DEF OrderInv, RemovingOK
<1>7. /\ Len(t) = m - c[m] /\ Len(t) = Len(s) - c[m]
      /\ \A x \in 1..m : s[x] \notin K => t[x - c[x]] = s[x]
  BY <1>0, <1>3, <1>6 DEF Met
<1>8. m = Len(s)
  <2>1. c[m] \in Nat /\ Len(s) \in Nat /\ m \in Nat
    BY <1>4, <1>5 DEF Counting
  <2> QED BY <1>7, <2>1
<1>9. t = Only(s, ToSet(s) \ K)
  BY <1>4, <1>5, <1>7, <1>8, LeftIs
<1>10. t = Order!Without(s, K)
  BY <1>9, SameOperators
<1>11. Order!Carries("remove")
  BY <1>1, <1>2 DEF Order!Carries
<1> QED BY <1>1, <1>2, <1>3, <1>10, <1>11 DEF Order!TakeOut, Told

LEMMA CutFound ==
  ASSUME NEW h, NEW s \in Seq(Downloads), Distinct(s), NEW cut \in 0..Len(s), CutIs(h, s, cut),
         h.after \in BOOLEAN,
         NEW places, places = {p \in DOMAIN s : s[p] \in h.refs}
  PROVE  /\ places # {} /\ (h.after => h.refs \subseteq ToSet(s))
         /\ cut = IF h.after THEN Order!Max(places) ELSE Order!Min(places) - 1
<1>0. PICK n \in Nat, k \in Nat : n = Len(s) /\ k = cut /\ k <= n
  OBVIOUS
<1>1. /\ \A p : p \in places <=> p \in 1..n /\ s[p] \in h.refs
      /\ \A d : d \in ToSet(s) <=> \E x \in 1..n : s[x] = d
  BY <1>0 DEF ToSet
<1>2. CASE h.after
  <2>1. k >= 1 /\ s[k] \in h.refs /\ \A r \in h.refs : \E x \in 1..k : s[x] = r
    BY <1>0, <1>2 DEF CutIs
  <2>2. k \in places
    BY <1>0, <1>1, <2>1
  <2>3. ASSUME NEW p \in places PROVE p <= k /\ p \in Nat
    <3>1. p \in 1..n /\ s[p] \in h.refs
      BY <1>1
    <3>2. PICK x \in 1..k : s[x] = s[p]
      BY <2>1, <3>1
    <3>3. x \in 1..n
      BY <1>0
    <3>4. x = p
      BY <1>0, <3>1, <3>2, <3>3 DEF Distinct
    <3> QED BY <3>1, <3>4
  <2>4. \A p \in places : (\A y \in places : p >= y) => p = k
    <3>1. SUFFICES ASSUME NEW p \in places, \A y \in places : p >= y PROVE p = k
      OBVIOUS
    <3>2. p >= k /\ p <= k /\ p \in Nat
      BY <2>2, <2>3, <3>1
    <3> QED BY ONLY <3>2, k \in Nat
  <2>5. \A y \in places : k >= y
    BY <2>3
  <2>6. Order!Max(places) = k
    BY <2>2, <2>4, <2>5 DEF Order!Max
  <2>7. h.refs \subseteq ToSet(s)
    <3>1. \A x \in 1..k : x \in 1..n
      BY <1>0
    <3> QED BY <1>1, <2>1, <3>1
  <2> QED BY <1>0, <1>2, <2>2, <2>6, <2>7
<1>3. CASE ~h.after
  <2>1. k < n /\ s[k + 1] \in h.refs /\ \A x \in 1..k : s[x] \notin h.refs
    BY <1>0, <1>3 DEF CutIs
  <2>2. PICK m \in 1..n : m = k + 1
    BY <1>0, <2>1
  <2>3. m \in places
    BY <1>1, <2>1, <2>2
  <2>4. ASSUME NEW p \in places PROVE m <= p /\ p \in Nat
    <3>1. p \in 1..n /\ s[p] \in h.refs
      BY <1>1
    <3>2. p \notin 1..k
      BY <2>1, <3>1
    <3> QED BY <1>0, <2>2, <3>1, <3>2
  <2>5. \A p \in places : (\A y \in places : p =< y) => p = m
    <3>1. SUFFICES ASSUME NEW p \in places, \A y \in places : p =< y PROVE p = m
      OBVIOUS
    <3>2. p <= m /\ m <= p /\ p \in Nat
      BY <2>3, <2>4, <3>1
    <3> QED BY ONLY <3>2, m \in 1..n, n \in Nat
  <2>6. \A y \in places : m =< y
    BY <2>4
  <2>7. Order!Min(places) = m
    BY <2>3, <2>5, <2>6 DEF Order!Min
  <2>8. m - 1 = k
    BY <1>0, <2>2
  <2> QED BY <1>0, <1>3, <2>3, <2>7, <2>8
<1> QED BY <1>2, <1>3

JoinedAt(s, K, t, cut) ==
  /\ s \in Seq(Downloads) /\ t \in Seq(Downloads) /\ Len(t) = Len(s) /\ cut \in 0..Len(s)
  /\ \A x \in 1..Len(s) : t[PlaceAfter(s, K, CountOf(s, K), cut, Len(s), x)] = s[x]
LEMMA JoinedParts ==
  ASSUME NEW s, NEW K, NEW t, NEW cut, JoinedAt(s, K, t, cut)
  PROVE  t = Order!Without(SubSeq(s, 1, cut), K) \o Order!Only(s, K)
               \o Order!Without(SubSeq(s, cut + 1, Len(s)), K)
<1>0. PICK c : c = CountOf(s, K)
  OBVIOUS
<1>a. /\ s \in Seq(Downloads) /\ t \in Seq(Downloads) /\ Len(t) = Len(s) /\ cut \in 0..Len(s)
      /\ \A x \in 1..Len(s) : t[PlaceAfter(s, K, c, cut, Len(s), x)] = s[x]
  BY <1>0 DEF JoinedAt
<1>1. PICK l, r : l = SubSeq(s, 1, cut) /\ r = SubSeq(s, cut + 1, Len(s))
  OBVIOUS
<1>2. PICK L, R : L = ToSet(l) \ K /\ R = ToSet(r) \ K
  OBVIOUS
<1>3. IsCount(c, s, K) /\ Counting(c, s, K)
  BY <1>0, <1>a, CountOfIs, CountingIs
<1>4. l \in Seq(Downloads) /\ r \in Seq(Downloads)
  <2>1. cut \in Nat /\ cut <= cut /\ cut <= Len(s)
    BY <1>a
  <2> QED BY <1>a, <1>1, <2>1, Cuts
<1>5. \A x \in 1..Len(l) : l[x] \in L <=> l[x] \notin K
  BY <1>2, <1>4 DEF ToSet
<1>6. \A x \in 1..Len(r) : r[x] \in R <=> r[x] \notin K
  BY <1>2, <1>4 DEF ToSet
<1>7. t = Only(l, L) \o Only(s, K) \o Only(r, R)
  <2>1. Cutting(s, K, c, t, cut, l, r, L, R)
    BY <1>a, <1>1, <1>3, <1>5, <1>6 DEF Cutting
  <2> QED BY <2>1, Joined
<1>8. /\ Order!Without(l, K) = Only(l, L) /\ Order!Without(r, K) = Only(r, R)
      /\ Order!Only(s, K) = Only(s, K)
  BY <1>2, SameOperators
<1> QED BY <1>1, <1>7, <1>8

LEMMA MoveStep ==
  ASSUME IInv, IInv', OrderInv, MoveEnds
  PROVE  Order!Move
<1>0. /\ handler.kind = "moving" /\ handler' = Idle /\ UNCHANGED downloads
      /\ handler.j = 0 /\ handler.i = Len(downloads)
  BY DEF MoveEnds
<1>1. /\ ~MainIdle
      /\ Command = [do |-> "move", which |-> handler.ids, refs |-> handler.refs, after |-> handler.after]
  BY <1>0, CommandIsTold DEF CommandTold
<1>2. /\ Command' = Order!NoCommand
      /\ Told = handler.before /\ Told' = downloads /\ handler.before \in Seq(Downloads)
  BY <1>0, <1>1, CommandEnds
<1>3. PICK h, s, t, c : h = handler /\ s = handler.before /\ t = downloads /\ c = CountOf(s, h.ids)
  OBVIOUS
<1>4. s \in Seq(Downloads) /\ t \in Seq(Downloads) /\ Distinct(s) /\ h.after \in BOOLEAN
  BY <1>0, <1>2, <1>3, UnderWayTyped DEF UnderWay, OrderInv, BornOK
<1>5. Moved(h, t, s, c) /\ Len(t) = Len(s) /\ h.i = Len(s) /\ h.j = 0
  BY <1>0, <1>3 DEF OrderInv, MovingOK, Moved
<1>6. Order!Carries("move")
  BY <1>1, <1>2 DEF Order!Carries
<1>7. PICK places : places = {p \in DOMAIN s : s[p] \in h.refs}
  OBVIOUS
<1>8. \A d : d \in Order!ToSet(s) <=> \E x \in 1..Len(s) : s[x] = d
  BY <1>4 DEF Order!ToSet
<1>9. CASE h.iRef = -1
  <2>1. Looking(h, t, s, c)
    BY <1>5, <1>9 DEF Moved
  <2>2. /\ t = s
        /\ h.after => ~(h.refs \subseteq {s[x] : x \in 1..Len(s)})
        /\ ~h.after => \A x \in 1..Len(s) : s[x] \notin h.refs
    BY <1>5, <2>1 DEF Looking
  <2>3. places = {} \/ (h.after /\ ~(h.refs \subseteq Order!ToSet(s)))
    <3>1. CASE h.after
      BY <1>8, <2>2, <3>1
    <3>2. CASE ~h.after
      BY <1>4, <1>7, <2>2, <3>2
    <3> QED BY <3>1, <3>2
  <2> QED BY <1>1, <1>2, <1>3, <1>6, <1>7, <2>2, <2>3 DEF Order!Move, Told
<1>10. CASE h.iRef # -1
  <2>1. PICK cut \in 0..Len(s) : Joining(h, t, s, c, cut)
    BY <1>5, <1>10 DEF Moved
  <2>2. CutIs(h, s, cut) /\ \A x \in 1..Len(s) : t[PlaceAfter(s, h.ids, c, cut, Len(s), x)] = s[x]
    BY <1>5, <2>1 DEF Joining
  <2>3. /\ places # {} /\ (h.after => h.refs \subseteq ToSet(s))
        /\ cut = IF h.after THEN Order!Max(places) ELSE Order!Min(places) - 1
    BY <1>4, <1>7, <2>2, CutFound, SMTT(30)
  <2>4. t = Order!Without(SubSeq(s, 1, cut), h.ids) \o Order!Only(s, h.ids)
              \o Order!Without(SubSeq(s, cut + 1, Len(s)), h.ids)
    <3>1. JoinedAt(s, h.ids, t, cut)
      BY <1>3, <1>4, <1>5, <2>2 DEF JoinedAt
    <3> QED BY <3>1, JoinedParts
  <2>5. ~(places = {} \/ (h.after /\ ~(h.refs \subseteq Order!ToSet(s))))
    BY <2>3 DEF Order!ToSet, ToSet
  <2> QED BY <1>1, <1>2, <1>3, <1>6, <1>7, <2>3, <2>4, <2>5 DEF Order!Move, Told
<1> QED BY <1>9, <1>10

(* Every step of the queue is a step of QueueOrder or leaves it alone. *)
LEMMA TurnsFrame ==
  ASSUME IInv, OrderInv, IInv', OrderInv',
         EnterSkips \/ SecondPass \/ RemoveSkips \/ RemoveOne
           \/ MoveBack \/ MoveLooks \/ MoveForward \/ MoveKeepsRef \/ ShiftEnds
  PROVE  UNCHANGED <<Told, Command>>
<1>0. CommandTold
  BY CommandIsTold
<1>1. CASE EnterSkips \/ SecondPass
  <2>1. handler.kind = "entering" /\ handler \in Entering
    BY <1>1, UnderWayTyped DEF EnterSkips, SecondPass, AtEntry, UnderWay
  <2>2. /\ handler'.kind = "entering" /\ handler'.before = handler.before
        /\ handler'.entries = handler.entries
        /\ handler'.pass = "saved" <=> handler.pass = "saved"
        /\ UNCHANGED downloads
    BY <1>1, <2>1 DEF EnterSkips, SecondPass, Entering
  <2> QED BY <1>0, <2>1, <2>2, TurnStutters DEF CommandTold, Loading, Queued
<1>2. CASE RemoveSkips \/ RemoveOne
  <2>1. handler.kind = "removing" /\ handler \in Removing
    BY <1>2, Shapes DEF RemoveSkips, RemoveOne, IInv, HandlerOK
  <2>2. /\ handler'.kind = "removing" /\ handler'.before = handler.before
        /\ handler'.selected = handler.selected
    BY <1>2, <2>1 DEF RemoveSkips, RemoveOne, Removing
  <2> QED BY <1>0, <2>1, <2>2, TurnStutters DEF CommandTold
<1>3. CASE MoveBack \/ MoveLooks \/ MoveForward \/ MoveKeepsRef \/ ShiftEnds
  <2>1. handler.kind = "moving" /\ handler \in Moving
    BY <1>3, Shapes DEF MoveBack, MoveLooks, MoveForward, MoveKeepsRef, ShiftEnds, AtTurn, AtShift, IInv, HandlerOK
  <2>2. /\ handler'.kind = "moving" /\ handler'.before = handler.before
        /\ handler'.ids = handler.ids /\ handler'.refs = handler.refs /\ handler'.after = handler.after
    <3>1. CASE MoveBack
      BY <2>1, <3>1 DEF MoveBack, Moving
    <3>2. CASE MoveLooks
      BY <2>1, <3>2, ZenonT(60) DEF MoveLooks, Moving
    <3>3. CASE MoveForward
      BY <2>1, <3>3 DEF MoveForward, Moving
    <3>4. CASE MoveKeepsRef \/ ShiftEnds
      BY <2>1, <3>4 DEF MoveKeepsRef, ShiftEnds, Moving
    <3> QED BY <1>3, <3>1, <3>2, <3>3, <3>4
  <2> QED BY <1>0, <2>1, <2>2, TurnStutters DEF CommandTold
<1> QED BY <1>1, <1>2, <1>3

LEMMA EnterFrame ==
  ASSUME IInv, OrderInv, IInv', OrderInv', Enter
  PROVE  UNCHANGED <<Told, Command>>
<1>1. handler.kind = "entering" /\ handler \in Entering
  BY UnderWayTyped DEF Enter, AtEntry, UnderWay
<1>2. /\ handler'.kind = "entering" /\ handler'.before = handler.before
      /\ handler'.entries = handler.entries /\ handler'.pass = handler.pass
  BY <1>1 DEF Enter, Entering
<1>3. downloads \in Seq(Downloads)
  BY UnderWayTyped DEF UnderWay
<1>4. PICK position \in Nat : AddDownload(handler.entries[handler.n], position, Loading)
  <2>1. Len(downloads) \in Nat /\ handler.at \in Nat
    BY <1>1, <1>3, UnderWayTyped DEF UnderWay
  <2> QED BY <2>1 DEF Enter
<1>5. Queued \subseteq Queued'
  <2>1. CASE UNCHANGED downloads
    BY <2>1 DEF Queued
  <2>2. ASSUME NEW d \in Downloads, Adds(d, position) PROVE Queued \subseteq Queued'
    <3>1. PICK c \in 0..Len(downloads) : c = IF position <= Len(downloads) THEN position ELSE Len(downloads)
      <4>1. (IF position <= Len(downloads) THEN position ELSE Len(downloads)) \in 0..Len(downloads)
        BY <1>3
      <4> QED BY <4>1
    <3>2. InsertedAfter(downloads', downloads, c, d)
      BY <1>3, <2>2, <3>1, InsertedPlaces DEF Adds
    <3>3. ASSUME NEW x \in 1..Len(downloads) PROVE \E y \in 1..Len(downloads') : downloads'[y] = downloads[x]
      <4>1. /\ Len(downloads') = Len(downloads) + 1
            /\ (x <= c => downloads'[x] = downloads[x]) /\ (x > c => downloads'[x + 1] = downloads[x])
        BY <3>2 DEF InsertedAfter
      <4>2. x \in 1..Len(downloads') /\ x + 1 \in 1..Len(downloads')
        BY <1>3, <4>1
      <4>3. x <= c \/ x > c
        BY <3>1
      <4> QED BY <4>1, <4>2, <4>3
    <3>4. downloads' \in Seq(Downloads)
      BY <3>2 DEF InsertedAfter
    <3> QED BY <1>3, <3>3, <3>4 DEF Queued, ToSet
  <2> QED BY <1>4, <2>1, <2>2, AddsOne
<1> QED BY <1>1, <1>2, <1>5, CommandIsTold, TurnStutters DEF CommandTold, Loading

LEMMA OthersFrame ==
  ASSUME IInv, OrderInv, IInv', OrderInv', UNCHANGED <<downloads, handler>>
  PROVE  UNCHANGED <<Told, Command>>
<1>1. CASE MainIdle
  <2>1. MainIdle'
    BY <1>1 DEF MainIdle
  <2> QED BY <1>1, <2>1, IdleStutters
<1>2. CASE ~MainIdle
  BY <1>2, TurnStutters DEF Loading, Queued
<1> QED BY <1>1, <1>2

LEMMA StepsOrder ==
  ASSUME IInv, OrderInv, IInv', OrderInv', [Next]_vars
  PROVE  [Order!Next]_<<Told, Command>>
<1>1. CASE UNCHANGED vars
  BY <1>1, OthersFrame DEF vars
<1>2. CASE Next
  <2>1. CASE \E n \in Asked, p \in Destinations : UserAdds(n, p)
    BY <2>1, AddStep DEF Order!Next
  <2>2. CASE \/ \E d \in Dirs : \E l \in Listings[NameOf[d]] : NewEntries(d, l)
             \/ LoadQueue \/ RemoveSome \/ RemoveComplete
             \/ \E ids, refs \in Selections, after \in BOOLEAN : Move(ids, refs, after)
    <3>1. MainIdle /\ handler'.before = downloads
      BY <2>2 DEF NewEntries, LoadQueue, RemoveSome, RemoveComplete, RemoveDownloads, Move
    <3>2. ~MainIdle'
      BY <2>2 DEF NewEntries, LoadQueue, RemoveSome, RemoveComplete, RemoveDownloads, Move, MainIdle, Idle
    <3> QED BY <3>1, <3>2, AskStep DEF Order!Next
  <2>3. CASE Enter
    BY <2>3, EnterFrame
  <2>4. CASE EnterSkips \/ SecondPass \/ RemoveSkips \/ RemoveOne
               \/ MoveBack \/ MoveLooks \/ MoveForward \/ MoveKeepsRef \/ ShiftEnds
    BY <2>4, TurnsFrame
  <2>5. CASE EnterEnds
    BY <2>5, LoadStepOrder, ReplaceStep DEF Order!Next
  <2>6. CASE RemoveEnds
    BY <2>6, TakeOutStep DEF Order!Next
  <2>7. CASE MoveEnds
    BY <2>7, MoveStep DEF Order!Next
  <2>8. CASE Quit \/ Crash
    BY <2>8, ForgetStep DEF Order!Next
  <2>9. CASE \/ \E P \in Predicates : Scan(P)
             \/ \E d \in Downloads : PauseOrHash(d) \/ FileReset(d)
             \/ \E d \in Downloads, st \in {"live", "erroneous", "complete"} : StatusChanges(d, st)
             \/ \E d \in Downloads, p \in Places : FileCreated(d, p)
             \/ \E k \in 1..MaxListed : Restart(k)
             \/ RestartNone \/ Save
    <3>1. UNCHANGED <<downloads, handler>>
      BY <2>9 DEF Scan, PauseOrHash, FileReset, StatusChanges, FileCreated, Restart, RestartNone, Save
    <3> QED BY <3>1, OthersFrame
  <2> QED BY <1>2, <2>1, <2>2, <2>3, <2>4, <2>5, <2>6, <2>7, <2>8, <2>9 DEF Next
<1> QED BY <1>1, <1>2

(* The queue does to the order of the downloads what QueueOrder tells:     *)
(* whatever the loops of moveDownloads, removeDownloads, newEntries and    *)
(* loadQueueFromFile, a move, a removal, a directory replaced by its       *)
(* children and a reload end with the order that was promised, and no      *)
(* other handler changes it.                                               *)
THEOREM OrderImplemented == Spec => ImplementsOrder
<1>1. Init => Order!Init
  <2> SUFFICES ASSUME Init PROVE Order!Init
    OBVIOUS
  <2>1. MainIdle /\ downloads = <<>> /\ IInv
    BY InitOK DEF Init, MainIdle
  <2>2. Command = Order!NoCommand
    BY <2>1, CommandIsTold DEF CommandTold
  <2> QED BY <2>1, <2>2 DEF Order!Init
<1>2. IInv /\ OrderInv /\ IInv' /\ OrderInv' /\ [Next]_vars => [Order!Next]_<<Told, Command>>
  BY StepsOrder
<1> QED BY <1>1, <1>2, Invariant, OrderInvariant, PTL DEF Spec, ImplementsOrder, Order!Spec, Told
=============================================================================

--------------------------- MODULE InductionFacts ---------------------------
(***************************************************************************)
(* Induction over the naturals in a form that needs no operator parameter: *)
(* every set of naturals has a least element, since < is well founded.     *)
(* From it: a function defined step by step along 0..n exists, and what    *)
(* Only() keeps of a list.                                                 *)
(***************************************************************************)
EXTENDS Filters, FiniteSets, FiniteSetTheorems, SequenceTheorems, WellFoundedInduction, TLAPS

(* A set of naturals has a least element. *)
LEMMA LeastNatural ==
  ASSUME NEW U \in SUBSET Nat, U # {}
  PROVE  \E n \in U : \A m \in U : n <= m
<1> DEFINE R == {ss \in Nat \X Nat : ss[1] < ss[2]}
<1>1. IsWellFoundedOn(R, Nat)
  BY NatLessThanWellFounded, Zenon DEF OpToRel
<1> HIDE DEF R
<1>2. PICK n \in U : \A m \in U : ~ (<<m, n>> \in R)
  BY <1>1, WFMin, Zenon
<1>3. ASSUME NEW m \in U PROVE n <= m
  <2>1. <<m, n>> \notin R
    BY <1>2
  <2>2. m \in Nat /\ n \in Nat /\ <<m, n>> \in Nat \X Nat
    OBVIOUS
  <2>3. ~(m < n)
    BY <2>1, <2>2 DEF R
  <2> QED BY <2>2, <2>3
<1> QED BY <1>3

(* Induction: a set that has 0 and the successor of each of its naturals   *)
(* has them all.                                                           *)
LEMMA NaturalsIn ==
  ASSUME NEW G, 0 \in G, \A n \in Nat : n \in G => n + 1 \in G
  PROVE  Nat \subseteq G
<1> SUFFICES ASSUME Nat \ G # {} PROVE FALSE
  OBVIOUS
<1>1. PICK n \in Nat \ G : \A m \in Nat \ G : n <= m
  BY LeastNatural
<1>2. n # 0 /\ n - 1 \in Nat
  BY <1>1
<1>3. n - 1 \in G
  BY <1>1, <1>2
<1>4. (n - 1) + 1 \in G
  BY <1>2, <1>3
<1> QED BY <1>1, <1>4

(* The same along 0..n. *)
LEMMA IntervalIn ==
  ASSUME NEW n \in Nat, NEW G, 0 \in G, \A i \in 1..n : i - 1 \in G => i \in G
  PROVE  0..n \subseteq G
<1> DEFINE H == G \cup {i \in Nat : i > n}
<1>1. 0 \in H
  OBVIOUS
<1>2. ASSUME NEW i \in Nat, i \in H PROVE i + 1 \in H
  <2>1. CASE i + 1 > n
    BY <2>1
  <2>2. CASE i + 1 \in 1..n
    <3>1. i \in G /\ (i + 1) - 1 = i
      BY <1>2, <2>2
    <3> QED BY <2>2, <3>1
  <2> QED BY <2>1, <2>2
<1>3. Nat \subseteq H
  BY <1>1, <1>2, NaturalsIn
<1> QED BY <1>3

(* A function on 0..n whose value at i is given by the value at i - 1.     *)
Stepwise(f, n, V, b, step) ==
  /\ f \in [0..n -> V] /\ f[0] = b
  /\ \A i \in 1..n : f[i] = step[<<i, f[i - 1]>>]

LEMMA StepwiseFunction ==
  ASSUME NEW n \in Nat, NEW V, NEW b \in V, NEW step \in [(1..n) \X V -> V]
  PROVE  \E f : Stepwise(f, n, V, b, step)
<1> DEFINE Upto(k) == \E f : Stepwise(f, k, V, b, step)
           G == {k \in 0..n : Upto(k)}
<1>1. 0 \in G
  <2>1. Stepwise([i \in 0..0 |-> b], 0, V, b, step)
    BY DEF Stepwise
  <2> QED BY <2>1
<1>2. ASSUME NEW k \in 1..n, k - 1 \in G PROVE k \in G
  <2>0. PICK f : Stepwise(f, k - 1, V, b, step)
    BY <1>2
  <2>1. f \in [0..k - 1 -> V] /\ f[0] = b /\ \A i \in 1..k - 1 : f[i] = step[<<i, f[i - 1]>>]
    BY <2>0 DEF Stepwise
  <2> DEFINE g == [i \in 0..k |-> IF i = k THEN step[<<k, f[k - 1]>>] ELSE f[i]]
  <2>2. step[<<k, f[k - 1]>>] \in V
    BY <2>1
  <2>3. g \in [0..k -> V] /\ g[0] = b
    BY <2>1, <2>2
  <2>4. ASSUME NEW i \in 1..k PROVE g[i] = step[<<i, g[i - 1]>>]
    <3>1. i - 1 \in 0..k - 1 /\ g[i - 1] = f[i - 1]
      OBVIOUS
    <3>2. CASE i = k
      <4>1. g[i] = step[<<k, f[k - 1]>>] /\ g[i - 1] = f[k - 1]
        BY <3>1, <3>2
      <4> QED BY <3>2, <4>1
    <3>3. CASE i # k
      BY <2>1, <3>1, <3>3
    <3> QED BY <3>2, <3>3
  <2> HIDE DEF g
  <2>5. Stepwise(g, k, V, b, step)
    BY <2>3, <2>4 DEF Stepwise
  <2> QED BY <2>5
<1>3. 0..n \subseteq G
  BY <1>1, <1>2, IntervalIn
<1> QED BY <1>3

-----------------------------------------------------------------------------
(* Only().                                                                 *)

(* The list that is kept grows along s by its elements that are in K.      *)
LEMMA KeptOfStepwise ==
  ASSUME NEW S, NEW s \in Seq(S), NEW K
  PROVE  /\ KeptOf(s, K) \in [0..Len(s) -> Seq(S)]
         /\ KeptOf(s, K)[0] = <<>>
         /\ \A i \in 1..Len(s) :
              KeptOf(s, K)[i] = IF s[i] \in K THEN Append(KeptOf(s, K)[i - 1], s[i])
                                ELSE KeptOf(s, K)[i - 1]
<1> DEFINE n == Len(s)
           V == Seq(S)
           step == [x \in (1..n) \X V |-> IF s[x[1]] \in K THEN Append(x[2], s[x[1]]) ELSE x[2]]
           Next(f, i) == IF s[i] \in K THEN Append(f[i - 1], s[i]) ELSE f[i - 1]
           Is(f) == f = [i \in 0..n |-> IF i = 0 THEN <<>> ELSE Next(f, i)]
           kept == CHOOSE f : Is(f)
<1>1. n \in Nat /\ <<>> \in V
  OBVIOUS
<1>2. step \in [(1..n) \X V -> V]
  <2>1. ASSUME NEW i \in 1..n, NEW q \in V PROVE s[i] \in S /\ Append(q, s[i]) \in V
    OBVIOUS
  <2> QED BY <2>1
<1>3. \A i \in 1..n, q \in V : step[<<i, q>>] = IF s[i] \in K THEN Append(q, s[i]) ELSE q
  OBVIOUS
<1>4. KeptOf(s, K) = kept
  BY DEF KeptOf
<1> HIDE DEF step, V, n, Is, kept
<1>5. PICK f : Stepwise(f, n, V, <<>>, step)
  BY <1>1, <1>2, StepwiseFunction
<1>6. \A i \in 1..n : i - 1 \in 0..n /\ i \in 0..n /\ i # 0
  BY <1>1
<1>7. \A i \in 1..n : f[i - 1] \in V /\ f[i] = Next(f, i)
  BY <1>3, <1>5, <1>6 DEF Stepwise
<1>8. Is(f)
  <2>1. \A i \in 0..n : f[i] = IF i = 0 THEN <<>> ELSE Next(f, i)
    <3> TAKE i \in 0..n
    <3>1. f[0] = <<>> /\ (i = 0 \/ i \in 1..n)
      BY <1>1, <1>5 DEF Stepwise
    <3> HIDE DEF Next
    <3>2. i \in 1..n => i # 0 /\ f[i] = Next(f, i)
      BY <1>6, <1>7
    <3> QED BY <3>1, <3>2
  <2>2. f = [i \in 0..n |-> f[i]]
    BY <1>5 DEF Stepwise
  <2> HIDE DEF Next
  <2> QED BY <2>1, <2>2 DEF Is
<1>9. Is(kept)
  BY <1>8 DEF kept
<1>10. \A i \in 0..n : kept[i] = IF i = 0 THEN <<>> ELSE Next(kept, i)
  <2> HIDE DEF Next
  <2> QED BY <1>9 DEF Is
<1>11. kept[0] = <<>> /\ \A i \in 1..n : kept[i] = Next(kept, i)
  <2> HIDE DEF Next
  <2> QED BY <1>1, <1>6, <1>10
<1>12. kept \in [0..n -> V]
  <2> DEFINE G == {i \in 0..n : kept[i] \in V}
  <2>1. 0 \in G
    BY <1>1, <1>11
  <2>2. ASSUME NEW i \in 1..n, i - 1 \in G PROVE i \in G
    <3>1. kept[i - 1] \in V /\ s[i] \in S
      BY <2>2, <1>1 DEF n
    <3>2. i \in 0..n /\ Append(kept[i - 1], s[i]) \in V
      BY <1>1, <3>1 DEF V
    <3> QED BY <1>11, <3>1, <3>2
  <2>3. 0..n \subseteq G
    <3> HIDE DEF G
    <3> QED BY <1>1, <2>1, <2>2, IntervalIn
  <2>4. kept = [i \in 0..n |-> kept[i]]
    BY <1>9 DEF Is
  <2> QED BY <2>3, <2>4
<1> QED BY <1>4, <1>11, <1>12 DEF n, V

(* It has the elements of s that are in K, each as often as s has it.      *)
LEMMA OnlyProperties ==
  ASSUME NEW S, NEW s \in Seq(S), NEW K
  PROVE  /\ Only(s, K) \in Seq(S)
         /\ Len(Only(s, K)) <= Len(s)
         /\ \A a \in 1..Len(Only(s, K)) :
              Only(s, K)[a] \in K /\ \E i \in 1..Len(s) : Only(s, K)[a] = s[i]
         /\ \A i \in 1..Len(s) : s[i] \in K => \E a \in 1..Len(Only(s, K)) : Only(s, K)[a] = s[i]
         /\ (\A i, j \in 1..Len(s) : s[i] = s[j] => i = j) =>
              \A i, j \in 1..Len(Only(s, K)) : Only(s, K)[i] = Only(s, K)[j] => i = j
<1> DEFINE f == KeptOf(s, K)
<1>1. /\ Only(s, K) = f[Len(s)] /\ f[0] = <<>>
      /\ f \in [0..Len(s) -> Seq(S)]
      /\ \A i \in 1..Len(s) : f[i] = IF s[i] \in K THEN Append(f[i - 1], s[i]) ELSE f[i - 1]
  BY KeptOfStepwise DEF Only
<1> HIDE DEF f
<1> DEFINE n == Len(s)
           Injective == \A i, j \in 1..n : s[i] = s[j] => i = j
           Kept(q, k) ==
             /\ q \in Seq(S) /\ Len(q) <= k
             /\ \A a \in 1..Len(q) : q[a] \in K /\ \E i \in 1..k : q[a] = s[i]
             /\ \A i \in 1..k : s[i] \in K => \E a \in 1..Len(q) : q[a] = s[i]
             /\ Injective => \A a, b \in 1..Len(q) : q[a] = q[b] => a = b
<1> DEFINE G == {k \in 0..n : Kept(f[k], k)}
<1>2. 0 \in G
  BY <1>1
<1>3. ASSUME NEW k \in 1..n, k - 1 \in G PROVE k \in G
  <2> DEFINE q == f[k - 1]
  <2>1. Kept(q, k - 1)
    BY <1>3
  <2> HIDE DEF q
  <2>2. /\ k \in Nat /\ n \in Nat /\ Len(q) \in Nat /\ s[k] \in S /\ q \in Seq(S)
        /\ \A i \in 1..k - 1 : i \in 1..k /\ i \in 1..n
        /\ \A i \in 1..k : i = k \/ i \in 1..k - 1
    BY <2>1
  <2>3. ASSUME s[k] \notin K PROVE Kept(f[k], k)
    <3>1. f[k] = q
      BY <1>1, <2>3 DEF q
    <3>2. \A i \in 1..k : s[i] \in K => i \in 1..k - 1
      BY <2>2, <2>3
    <3>3. q \in Seq(S) /\ Len(q) <= k
      BY <2>1, <2>2
    <3>4. \A a \in 1..Len(q) : q[a] \in K /\ \E i \in 1..k : q[a] = s[i]
      BY <2>1, <2>2
    <3>5. \A i \in 1..k : s[i] \in K => \E a \in 1..Len(q) : q[a] = s[i]
      BY <2>1, <3>2
    <3>6. Injective => \A a, b \in 1..Len(q) : q[a] = q[b] => a = b
      BY <2>1
    <3> HIDE DEF Injective
    <3>7. Kept(q, k)
      BY <3>3, <3>4, <3>5, <3>6
    <3> QED BY <3>1, <3>7
  <2>4. ASSUME s[k] \in K PROVE Kept(f[k], k)
    <3> DEFINE t == f[k]
    <3>1. t = Append(q, s[k])
      BY <1>1, <2>4 DEF q
    <3>2. /\ t \in Seq(S) /\ Len(t) = Len(q) + 1 /\ t[Len(q) + 1] = s[k]
          /\ \A c \in 1..Len(q) : t[c] = q[c]
      BY <2>2, <3>1
    <3>3. /\ \A c \in 1..Len(t) : c = Len(q) + 1 \/ c \in 1..Len(q)
          /\ \A c \in 1..Len(q) : c \in 1..Len(t)
          /\ Len(q) + 1 \in 1..Len(t)
      BY <2>2, <3>2
    <3> HIDE DEF t
    <3>4. Len(t) <= k
      BY <2>1, <2>2, <3>2
    <3>5. \A c \in 1..Len(t) : t[c] \in K /\ \E i \in 1..k : t[c] = s[i]
      <4> TAKE c \in 1..Len(t)
      <4>1. CASE c = Len(q) + 1
        BY <2>4, <3>2, <4>1
      <4>2. CASE c \in 1..Len(q)
        <5>1. PICK i \in 1..k - 1 : q[c] = s[i]
          BY <2>1, <4>2
        <5> QED BY <2>1, <2>2, <3>2, <4>2, <5>1
      <4> QED BY <3>3, <4>1, <4>2
    <3>6. \A i \in 1..k : s[i] \in K => \E c \in 1..Len(t) : t[c] = s[i]
      <4> TAKE i \in 1..k
      <4>1. CASE i = k
        BY <3>2, <3>3, <4>1
      <4>2. CASE i \in 1..k - 1
        BY <2>1, <3>2, <3>3, <4>2
      <4> QED BY <2>2, <4>1, <4>2
    <3>7. ASSUME Injective, NEW c \in 1..Len(t), NEW d \in 1..Len(t), t[c] = t[d]
          PROVE  c = d
      <4>1. \A e \in 1..Len(q) : q[e] # s[k]
        <5> TAKE e \in 1..Len(q)
        <5>1. PICK i \in 1..k - 1 : q[e] = s[i]
          BY <2>1
        <5>2. i # k /\ i \in 1..n /\ k \in 1..n
          BY <2>2
        <5> QED BY <3>7, <5>1, <5>2
      <4>2. \A x, y \in 1..Len(q) : q[x] = q[y] => x = y
        BY <2>1, <3>7
      <4> HIDE DEF Injective
      <4> QED BY <3>2, <3>3, <3>7, <4>1, <4>2
    <3> HIDE DEF Injective
    <3>8. Kept(t, k)
      BY <3>2, <3>4, <3>5, <3>6, <3>7
    <3> QED BY <3>8 DEF t
  <2>5. Kept(f[k], k)
    BY <2>3, <2>4
  <2> HIDE DEF Kept
  <2> QED BY <2>5
<1> HIDE DEF Kept
<1>4. 0..n \subseteq G
  <2>1. n \in Nat
    OBVIOUS
  <2> HIDE DEF G, n
  <2> QED BY <1>2, <1>3, <2>1, IntervalIn
<1>5. Kept(f[n], n)
  BY <1>4
<1>6. Kept(Only(s, K), n)
  BY <1>1, <1>5
<1> QED BY <1>6 DEF Kept

(* Only() keeps the order: a relation between each element of s and each   *)
(* later one holds between those kept.                                     *)
LEMMA OnlyOrder ==
  ASSUME NEW S, NEW s \in Seq(S), NEW K, NEW R,
         \A i, j \in 1..Len(s) : i < j => <<s[i], s[j]>> \in R
  PROVE  \A a, b \in 1..Len(Only(s, K)) : a < b => <<Only(s, K)[a], Only(s, K)[b]>> \in R
<1> DEFINE f == KeptOf(s, K)
           n == Len(s)
<1>1. /\ Only(s, K) = f[n] /\ f[0] = <<>> /\ n \in Nat
      /\ f \in [0..n -> Seq(S)]
      /\ \A i \in 1..n : f[i] = IF s[i] \in K THEN Append(f[i - 1], s[i]) ELSE f[i - 1]
  BY KeptOfStepwise DEF Only
<1> HIDE DEF f
<1> DEFINE Kept(q, k) ==
             /\ \A a \in 1..Len(q) : \E i \in 1..k : q[a] = s[i]
             /\ \A a, b \in 1..Len(q) : a < b => <<q[a], q[b]>> \in R
           G == {k \in 0..n : Kept(f[k], k)}
<1>2. 0 \in G
  BY <1>1
<1>3. ASSUME NEW k \in 1..n, k - 1 \in G PROVE k \in G
  <2> DEFINE q == f[k - 1]
  <2>1. Kept(q, k - 1) /\ q \in Seq(S) /\ Len(q) \in Nat /\ s[k] \in S
    BY <1>1, <1>3
  <2>2. f[k] = IF s[k] \in K THEN Append(q, s[k]) ELSE q
    BY <1>1
  <2> HIDE DEF q
  <2>3. \A i \in 1..k - 1 : i \in 1..k /\ i < k /\ i \in 1..n
    BY <1>1
  <2>4. Kept(q, k)
    BY <2>1, <2>3
  <2>5. Kept(Append(q, s[k]), k)
    <3> DEFINE t == Append(q, s[k])
    <3>1. /\ Len(t) = Len(q) + 1 /\ t[Len(q) + 1] = s[k]
          /\ \A c \in 1..Len(q) : t[c] = q[c]
      BY <2>1, AppendProperties
    <3> HIDE DEF t
    <3>2. ASSUME NEW a \in 1..Len(t) PROVE \E i \in 1..k : t[a] = s[i]
      <4>1. CASE a = Len(q) + 1
        BY <3>1, <4>1
      <4>2. CASE a \in 1..Len(q)
        BY <2>4, <3>1, <4>2
      <4> QED BY <2>1, <3>1, <4>1, <4>2
    <3>3. ASSUME NEW a \in 1..Len(t), NEW b \in 1..Len(t), a < b
          PROVE  <<t[a], t[b]>> \in R
      <4>1. a \in 1..Len(q) /\ (b \in 1..Len(q) \/ b = Len(q) + 1)
        BY <2>1, <3>1, <3>3
      <4>2. CASE b \in 1..Len(q)
        BY <2>1, <3>1, <3>3, <4>1, <4>2
      <4>3. CASE b = Len(q) + 1
        <5>1. PICK i \in 1..k - 1 : q[a] = s[i]
          BY <2>1, <4>1
        <5>2. <<s[i], s[k]>> \in R
          BY <2>3, <5>1
        <5> QED BY <3>1, <4>1, <4>3, <5>1, <5>2
      <4> QED BY <4>1, <4>2, <4>3
    <3>4. Kept(t, k)
      BY <3>2, <3>3
    <3> QED BY <3>4 DEF t
  <2>6. Kept(f[k], k)
    <3> HIDE DEF Kept
    <3> QED BY <2>2, <2>4, <2>5
  <2> HIDE DEF Kept
  <2> QED BY <2>6
<1> HIDE DEF Kept
<1>4. 0..n \subseteq G
  <2> HIDE DEF G, n
  <2> QED BY <1>1, <1>2, <1>3, IntervalIn
<1>5. Kept(Only(s, K), n)
  BY <1>1, <1>4
<1> QED BY <1>5 DEF Kept

-----------------------------------------------------------------------------
(* How many elements of s up to each place are in K.  An element of s that *)
(* is in K is, in Only(s, K), at the number of those up to it: which says  *)
(* all of Only(s, K).                                                      *)
IsCount(c, s, K) ==
  /\ c \in [0..Len(s) -> Int] /\ c[0] = 0
  /\ \A x \in 1..Len(s) : c[x] = IF s[x] \in K THEN c[x - 1] + 1 ELSE c[x - 1]
CountOf(s, K) == [x \in 0..Len(s) |-> Len(KeptOf(s, K)[x])]

LEMMA CountOfIs ==
  ASSUME NEW S, NEW s \in Seq(S), NEW K
  PROVE  IsCount(CountOf(s, K), s, K) /\ Len(Only(s, K)) = CountOf(s, K)[Len(s)]
<1> DEFINE f == KeptOf(s, K)
           n == Len(s)
<1>1. /\ n \in Nat /\ f \in [0..n -> Seq(S)] /\ f[0] = <<>>
      /\ \A i \in 1..n : f[i] = IF s[i] \in K THEN Append(f[i - 1], s[i]) ELSE f[i - 1]
  BY KeptOfStepwise
<1>2. Only(s, K) = f[n] /\ CountOf(s, K) = [x \in 0..n |-> Len(f[x])]
  BY DEF Only, CountOf
<1> HIDE DEF f
<1>3. \A x \in 0..n : Len(f[x]) \in Nat
  BY <1>1
<1>4. ASSUME NEW x \in 1..n
      PROVE  Len(f[x]) = IF s[x] \in K THEN Len(f[x - 1]) + 1 ELSE Len(f[x - 1])
  <2>1. f[x - 1] \in Seq(S) /\ s[x] \in S
    BY <1>1
  <2> DEFINE q == f[x - 1]
  <2>2. f[x] = IF s[x] \in K THEN Append(q, s[x]) ELSE q
    BY <1>1
  <2> HIDE DEF q
  <2>3. Len(Append(q, s[x])) = Len(q) + 1
    BY <2>1 DEF q
  <2>4. Len(f[x]) = IF s[x] \in K THEN Len(q) + 1 ELSE Len(q)
    BY <2>2, <2>3
  <2> QED BY <2>4 DEF q
<1>5. \A x \in 1..n : x - 1 \in 0..n /\ x \in 0..n
  BY <1>1
<1> QED BY <1>1, <1>2, <1>3, <1>4, <1>5 DEF IsCount

LEMMA CountGrows ==
  ASSUME NEW S, NEW s \in Seq(S), NEW K, NEW c, IsCount(c, s, K),
         NEW x \in 0..Len(s), NEW y \in 0..Len(s), x <= y
  PROVE  c[x] <= c[y] /\ c[y] - c[x] <= y - x /\ 0 <= c[x] /\ c[x] <= x
<1> DEFINE n == Len(s)
<1>1. /\ n \in Nat /\ c[0] = 0 /\ \A z \in 0..n : c[z] \in Int
      /\ \A z \in 1..n : c[z] = c[z - 1] \/ c[z] = c[z - 1] + 1
  BY DEF IsCount
<1> DEFINE Grows(u) == \A v \in 0..n : u <= v => c[u] <= c[v] /\ c[v] - c[u] <= v - u
<1>2. ASSUME NEW u \in 0..n PROVE Grows(u)
  <2> DEFINE G == {v \in 0..n : u <= v => c[u] <= c[v] /\ c[v] - c[u] <= v - u}
  <2>1. 0 \in G
    BY <1>1
  <2>2. ASSUME NEW v \in 1..n, v - 1 \in G PROVE v \in G
    <3>1. v \in 0..n /\ v - 1 \in 0..n /\ c[v] \in Int /\ c[v - 1] \in Int /\ c[u] \in Int
          /\ (c[v] = c[v - 1] \/ c[v] = c[v - 1] + 1)
      BY <1>1
    <3>2. u <= v - 1 => c[u] <= c[v - 1] /\ c[v - 1] - c[u] <= v - 1 - u
      BY <2>2
    <3>3. CASE u <= v - 1
      BY <3>1, <3>2, <3>3
    <3>4. CASE u = v
      BY <3>1, <3>4
    <3>5. CASE u > v
      BY <3>1, <3>5
    <3> QED BY <3>1, <3>3, <3>4, <3>5
  <2>3. 0..n \subseteq G
    <3> HIDE DEF G
    <3> QED BY <1>1, <2>1, <2>2, IntervalIn
  <2> QED BY <2>3
<1>3. Grows(x) /\ Grows(0)
  BY <1>1, <1>2
<1> QED BY <1>1, <1>3

LEMMA CountUnique ==
  ASSUME NEW S, NEW s \in Seq(S), NEW K, NEW c, IsCount(c, s, K), NEW e, IsCount(e, s, K)
  PROVE  c = e
<1> DEFINE n == Len(s)
           G == {x \in 0..n : c[x] = e[x]}
<1>1. n \in Nat
  OBVIOUS
<1>2. 0 \in G
  BY <1>1 DEF IsCount
<1>3. ASSUME NEW x \in 1..n, x - 1 \in G PROVE x \in G
  BY <1>1, <1>3 DEF IsCount
<1>4. 0..n \subseteq G
  <2> HIDE DEF G
  <2> QED BY <1>1, <1>2, <1>3, IntervalIn
<1> QED BY <1>4 DEF IsCount

LEMMA OnlyPlaces ==
  ASSUME NEW S, NEW s \in Seq(S), NEW K, NEW c, IsCount(c, s, K)
  PROVE  /\ Only(s, K) \in Seq(S) /\ Len(Only(s, K)) = c[Len(s)]
         /\ \A x \in 1..Len(s) :
              s[x] \in K => c[x] \in 1..Len(Only(s, K)) /\ Only(s, K)[c[x]] = s[x]
         /\ \A a \in 1..Len(Only(s, K)) : \E x \in 1..Len(s) : s[x] \in K /\ c[x] = a
<1> DEFINE f == KeptOf(s, K)
           n == Len(s)
<1>1. /\ n \in Nat /\ f \in [0..n -> Seq(S)] /\ f[0] = <<>>
      /\ \A i \in 1..n : f[i] = IF s[i] \in K THEN Append(f[i - 1], s[i]) ELSE f[i - 1]
  BY KeptOfStepwise
<1>2. Only(s, K) = f[n] /\ \A x \in 0..n : c[x] = Len(f[x])
  <2>1. c = CountOf(s, K)
    BY CountOfIs, CountUnique
  <2> QED BY <2>1 DEF Only, CountOf
<1>3. /\ \A x \in 0..n : c[x] \in Nat
      /\ \A x \in 1..n : c[x] = IF s[x] \in K THEN c[x - 1] + 1 ELSE c[x - 1]
  BY <1>1, <1>2 DEF IsCount
<1> HIDE DEF f
<1> DEFINE Fine(q, k) ==
             /\ \A x \in 1..k : s[x] \in K => c[x] \in 1..Len(q) /\ q[c[x]] = s[x]
             /\ \A a \in 1..Len(q) : \E x \in 1..k : s[x] \in K /\ c[x] = a
           G == {k \in 0..n : Fine(f[k], k)}
<1>4. 0 \in G
  BY <1>1
<1>5. ASSUME NEW k \in 1..n, k - 1 \in G PROVE k \in G
  <2> DEFINE q == f[k - 1]
  <2>1. Fine(q, k - 1) /\ q \in Seq(S) /\ Len(q) = c[k - 1] /\ Len(q) \in Nat /\ s[k] \in S
    BY <1>1, <1>2, <1>5
  <2>2. f[k] = IF s[k] \in K THEN Append(q, s[k]) ELSE q
    BY <1>1
  <2> HIDE DEF q
  <2>3. \A x \in 1..k : x \in 1..k - 1 \/ x = k
    OBVIOUS
  <2>4. \A x \in 1..k - 1 : x \in 1..k
    BY <1>1
  <2>5. CASE s[k] \in K
    <3> DEFINE t == Append(q, s[k])
    <3>1. /\ Len(t) = Len(q) + 1 /\ t[Len(q) + 1] = s[k]
          /\ \A a \in 1..Len(q) : t[a] = q[a]
      BY <2>1, AppendProperties
    <3>2. c[k] = Len(q) + 1
      BY <1>3, <2>1, <2>5
    <3> HIDE DEF t
    <3>3. ASSUME NEW x \in 1..k, s[x] \in K PROVE c[x] \in 1..Len(t) /\ t[c[x]] = s[x]
      <4>1. CASE x = k
        BY <2>1, <3>1, <3>2, <4>1
      <4>2. CASE x \in 1..k - 1
        <5>1. c[x] \in 1..Len(q) /\ q[c[x]] = s[x]
          BY <2>1, <3>3, <4>2
        <5> QED BY <2>1, <3>1, <5>1
      <4> QED BY <2>3, <4>1, <4>2
    <3>4. ASSUME NEW a \in 1..Len(t) PROVE \E x \in 1..k : s[x] \in K /\ c[x] = a
      <4>1. CASE a = Len(q) + 1
        BY <2>5, <3>2, <4>1
      <4>2. CASE a \in 1..Len(q)
        BY <2>1, <2>4, <4>2
      <4> QED BY <2>1, <3>1, <4>1, <4>2
    <3>5. Fine(t, k)
      BY <3>3, <3>4
    <3>6. f[k] = t /\ k \in 0..n
      BY <1>1, <2>2, <2>5 DEF t
    <3> HIDE DEF Fine
    <3> QED BY <3>5, <3>6
  <2>6. CASE s[k] \notin K
    <3>1. Fine(q, k)
      BY <2>1, <2>3, <2>4, <2>6
    <3> HIDE DEF Fine
    <3> QED BY <1>1, <2>2, <2>6, <3>1
  <2> QED BY <2>5, <2>6
<1> HIDE DEF Fine
<1>6. 0..n \subseteq G
  <2> HIDE DEF G, n
  <2> QED BY <1>1, <1>4, <1>5, IntervalIn
<1>7. Fine(f[n], n)
  BY <1>1, <1>6
<1> QED BY <1>1, <1>2, <1>7 DEF Fine

(* What has the elements of s that are in K at these places is Only(s, K). *)
LEMMA OnlyIs ==
  ASSUME NEW S, NEW s \in Seq(S), NEW K, NEW c, IsCount(c, s, K),
         NEW t \in Seq(S), Len(t) = c[Len(s)],
         \A x \in 1..Len(s) : s[x] \in K => t[c[x]] = s[x]
  PROVE  t = Only(s, K)
<1> DEFINE r == Only(s, K)
<1>1. /\ r \in Seq(S) /\ Len(r) = Len(t)
      /\ \A x \in 1..Len(s) : s[x] \in K => r[c[x]] = s[x]
      /\ \A a \in 1..Len(r) : \E x \in 1..Len(s) : s[x] \in K /\ c[x] = a
  BY OnlyPlaces
<1> HIDE DEF r
<1>2. ASSUME NEW a \in 1..Len(r) PROVE t[a] = r[a]
  <2>1. PICK x \in 1..Len(s) : s[x] \in K /\ c[x] = a
    BY <1>1
  <2> QED BY <1>1, <2>1
<1>3. t = r
  BY <1>1, <1>2, SeqEqual
<1> QED BY <1>3 DEF r
=============================================================================

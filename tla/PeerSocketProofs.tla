-------------------------- MODULE PeerSocketProofs --------------------------
(***************************************************************************)
(* Proofs about PeerSocket, for every number of requests, of sockets, of   *)
(* hashes and of faults.  What the properties say of a socket follows from *)
(* SocketOK, which relates all that is under way on it to the request that *)
(* holds it; a step changes one socket, and at most closes others.         *)
(***************************************************************************)
EXTENDS PeerSocket, InductionFacts

(* What every request, end and message is, and what is not opened yet.     *)
RequestTypes ==
  /\ request \in [Requests -> States]
  /\ \A r \in Requests : /\ request[r].socket <= opened
                         /\ Live(r) => request[r].socket \in 1..opened
                         /\ request[r].st = "streaming" => r \in ChunkRequests
                         /\ Live(r) /\ r \in HashesRequests => request[r].left >= 1
Types ==
  /\ RequestTypes
  /\ opened \in 0..MaxSockets /\ faults \in 0..MaxFaults
  /\ cut \subseteq 1..opened /\ astray \subseteq 1..opened
  /\ serving \in [Sockets -> Works]
  /\ end \in [Sides -> [Sockets -> Ends]] /\ wire \in [Sides -> [Sockets -> Seq(Messages)]]
  /\ pool \in [Sides -> Seq(Sockets)] /\ closing \in [Sides -> SUBSET Sockets]
Reusable(side) == {s \in Pooled(side) : ~end[side][s].active /\ end[side][s].listening}
Pools ==
  \A side \in Sides :
    /\ closing[side] \subseteq Pooled(side) /\ Pooled(side) \subseteq 1..opened
    /\ \A i, j \in 1..Len(pool[side]) : pool[side][i] = pool[side][j] => i = j
    /\ Cardinality(Reusable(side)) <= MaxIdle
Fresh ==
  \A s \in Sockets : s > opened =>
    /\ serving[s] = NoWork
    /\ \A side \in Sides : wire[side][s] = <<>>

(* The server's side of a socket: it does one thing at a time. *)
Answering(s) == serving[s].hashes # <<>> \/ serving[s].entries # NoRequest
ServerOK(s) ==
  /\ serving[s].upload # NoRequest => ~end["server"][s].listening /\ ~Answering(s)
  /\ wire["server"][s] # <<>> =>
       /\ ~Answering(s) /\ Len(wire["server"][s]) = 1
       /\ wire["server"][s][1].type = Type(wire["server"][s][1].r)
  /\ serving[s].hashes # <<>> => end["server"][s].nbHash = Len(serving[s].hashes)
  /\ Answering(s) /\ end["server"][s].active => end["server"][s].listening

(* The client may still read or send: what is under way is for it.         *)
Used(s) == end["client"][s].listening \/ HeldBy(s) # {}
Unwritten(s) == serving[s].upload # NoRequest /\ ~serving[s].written
HoldOK(s) ==
  /\ \A r, q \in HeldBy(s) : r = q
  /\ HeldBy(s) # {} /\ end["client"][s].listening => end["client"][s].active
  /\ \A r \in HeldBy(s) : request[r].st = "streaming" => ~end["client"][s].listening
AwaitedOK(s) ==
  Used(s) =>
    /\ \A i \in 1..Len(wire["client"][s]) : wire["client"][s][i].r \in HeldBy(s)
    /\ ~Broken(s) =>
         /\ serving[s].entries \in HeldBy(s) \cup {NoRequest}
         /\ \A i \in 1..Len(serving[s].hashes) : serving[s].hashes[i] \in HeldBy(s)
         /\ Unwritten(s) => serving[s].upload \in HeldBy(s)
         /\ wire["server"][s] # <<>> => wire["server"][s][1].r \in HeldBy(s) /\ ~Unwritten(s)
         /\ wire["server"][s] # <<>> \/ serving[s].entries # NoRequest => wire["client"][s] = <<>>
         /\ serving[s].upload # NoRequest /\ wire["server"][s] = <<>> /\ HeldBy(s) # {}
              => serving[s].upload \in HeldBy(s)

EntriesOK(s, r) == wire["client"][s] \in {<<>>, <<Message("ENTRIES", r)>>}
ChunkOK(s, r) ==
  /\ request[r].st = "streaming" => wire["client"][s] \in {<<>>, <<Message("DATA", r)>>}
  /\ request[r].st = "asked" =>
       /\ wire["client"][s] \in {<<>>, <<Message("NO_CHUNK", r)>>, <<Message("CHUNK", r)>>,
                                 <<Message("CHUNK", r), Message("DATA", r)>>}
       /\ ~Broken(s) /\ Unwritten(s) /\ wire["server"][s] = <<>> => wire["client"][s] = <<Message("CHUNK", r)>>
  /\ request[r].st = "streaming" /\ ~Broken(s) => (wire["server"][s] = <<>> /\ (Unwritten(s) => wire["client"][s] = <<>>))
Refused(s, r) == wire["client"][s] = <<Message("NO_HASHES", r)>>
Begins(s) == wire["client"][s] # <<>> /\ wire["client"][s][1].type = "HASHES"
Listed(s) == Len(wire["client"][s]) - (IF Begins(s) THEN 1 ELSE 0)
HashesOK(s, r) ==
  /\ Refused(s, r) \/
       \A i \in 1..Len(wire["client"][s]) : wire["client"][s][i].type = "HASH" \/ (i = 1 /\ Begins(s))
  /\ Refused(s, r) => Broken(s) \/ serving[s].hashes = <<>>
  /\ Begins(s) \/ (~Broken(s) /\ wire["server"][s] # <<>>) => request[r].left = NbHash
  /\ ~Refused(s, r) => Listed(s) <= request[r].left
  /\ ~Refused(s, r) /\ ~Broken(s) => Listed(s) + Len(serving[s].hashes) <= request[r].left
  /\ ~Refused(s, r) /\ ~Begins(s) /\ (wire["client"][s] # <<>> \/ (~Broken(s) /\ serving[s].hashes # <<>>))
       => end["client"][s].nbHash = request[r].left
  /\ ~Broken(s) /\ end["server"][s].listening /\ wire["server"][s] = <<>> /\ ~Refused(s, r)
       => Listed(s) + Len(serving[s].hashes) = request[r].left
RequestsOK(s) ==
  /\ \A r \in HeldBy(s) \cap EntriesRequests : EntriesOK(s, r)
  /\ \A r \in HeldBy(s) \cap ChunkRequests : ChunkOK(s, r)
  /\ \A r \in HeldBy(s) \cap HashesRequests : HashesOK(s, r)
SocketOK(s) == ServerOK(s) /\ HoldOK(s) /\ AwaitedOK(s) /\ RequestsOK(s)
SocketsOK == \A s \in (1..opened) \ astray : SocketOK(s)
IInv == Types /\ Pools /\ Fresh /\ SocketsOK

-----------------------------------------------------------------------------
(* The ends of a side.                                                     *)

Is(x, active, listening, n) == x \in Ends /\ x.active = active /\ x.listening = listening /\ x.nbHash = n

(* The ends e of a side, where only the one of s was touched. *)
But(e, side, s) == e \in [Sockets -> Ends] /\ \A t \in Sockets \ {s} : e[t] = end[side][t]

LEMMA EndsTyped ==
  ASSUME end \in [Sides -> [Sockets -> Ends]], NEW side \in Sides, NEW s \in Sockets
  PROVE  /\ end[side] \in [Sockets -> Ends] /\ end[side][s] \in Ends
         /\ end[side][s].active \in BOOLEAN /\ end[side][s].listening \in BOOLEAN
         /\ end[side][s].nbHash \in Int
         /\ "client" \in Sides /\ "server" \in Sides
         /\ Is(end[side][s], end[side][s].active, end[side][s].listening, end[side][s].nbHash)
BY DEF Ends, Sides, Is

LEMMA WokenIs ==
  ASSUME end \in [Sides -> [Sockets -> Ends]], NEW side \in Sides, NEW s \in Sockets
  PROVE  /\ But(Woken(side, s), side, s)
         /\ Is(Woken(side, s)[s], TRUE, end[side][s].listening, end[side][s].nbHash)
<1>1. end[side] \in [Sockets -> Ends] /\ end[side][s] \in Ends
  BY EndsTyped
<1> QED BY <1>1 DEF Woken, Awake, But, Is, Ends

LEMMA DeafIs ==
  ASSUME NEW side \in Sides, NEW s \in Sockets, NEW e, But(e, side, s)
  PROVE  /\ But(Deaf(e, s), side, s)
         /\ Is(Deaf(e, s)[s], e[s].active, FALSE, e[s].nbHash)
<1>1. e \in [Sockets -> Ends] /\ e[s] \in Ends
  BY DEF But
<1> QED BY <1>1 DEF Deaf, But, Is, Ends

LEMMA CountsIs ==
  ASSUME NEW side \in Sides, NEW s \in Sockets, NEW e, But(e, side, s), NEW n \in Int
  PROVE  /\ But(Counts(e, s, n), side, s)
         /\ Is(Counts(e, s, n)[s], e[s].active, e[s].listening, n)
<1>1. e \in [Sockets -> Ends] /\ e[s] \in Ends
  BY DEF But
<1> QED BY <1>1 DEF Counts, But, Is, Ends

LEMMA ActiveIs ==
  ASSUME end \in [Sides -> [Sockets -> Ends]], NEW side \in Sides, NEW s \in Sockets
  PROVE  /\ But(Active(end[side], s), side, s)
         /\ Is(Active(end[side], s)[s], end[side][s].active \/ end[side][s].listening,
               end[side][s].listening, end[side][s].nbHash)
<1>1. end[side] \in [Sockets -> Ends] /\ end[side][s] \in Ends
  BY EndsTyped
<1>2. CASE end[side][s].listening
  <2>1. Active(end[side], s) = Woken(side, s)
    BY <1>2 DEF Active, Woken
  <2>2. (end[side][s].active \/ end[side][s].listening) = TRUE
    BY <1>2
  <2> QED BY <2>1, <2>2, WokenIs
<1>3. CASE ~end[side][s].listening
  <2>1. Active(end[side], s) = end[side]
    BY <1>3 DEF Active
  <2>2. (end[side][s].active \/ end[side][s].listening) = end[side][s].active
    BY <1>1, <1>3 DEF Ends
  <2> QED BY <1>1, <2>1, <2>2, EndsTyped DEF But
<1> QED BY <1>2, <1>3

(* What a method makes of the ends: those of the other side stay, those of *)
(* the other sockets stay or are closed, and the one of s becomes x.       *)
Others(side, s) ==
  /\ end' \in [Sides -> [Sockets -> Ends]]
  /\ \A other \in Sides \ {side} : end'[other] = end[other]
  /\ \A t \in Sockets \ {s} : end'[side][t] \in {end[side][t], ClosedEnd(end[side][t])}

Became(side, e, S) ==
  \A t \in Sockets : end'[side][t] = IF t \in S THEN ClosedEnd(e[t]) ELSE e[t]

LEMMA BecomesIs ==
  ASSUME end \in [Sides -> [Sockets -> Ends]], closing \in [Sides -> SUBSET Sockets],
         NEW side \in Sides, NEW s \in Sockets, NEW e, But(e, side, s),
         NEW S \in SUBSET Sockets, Becomes(side, e, S)
  PROVE  /\ Others(side, s)
         /\ Became(side, e, S)
         /\ end'[side][s] = IF s \in S THEN ClosedEnd(e[s]) ELSE e[s]
         /\ closing' \in [Sides -> SUBSET Sockets]
         /\ \A any \in Sides : closing'[any] \subseteq closing[any] \cup Pooled(any)
<1>1. e \in [Sockets -> Ends] /\ \A t \in Sockets \ {s} : e[t] = end[side][t]
  BY DEF But
<1>2. \A x \in Ends : ClosedEnd(x) \in Ends
  BY DEF ClosedEnd, Ends
<1> DEFINE f == [t \in Sockets |-> IF t \in S THEN ClosedEnd(e[t]) ELSE e[t]]
<1>3. f \in [Sockets -> Ends]
  BY <1>1, <1>2
<1>4. end' = [end EXCEPT ![side] = f]
  BY DEF Becomes
<1>5. closing' = [closing EXCEPT ![side] = closing[side] \cup (S \cap Pooled(side))]
  BY DEF Becomes
<1>6. f[s] = IF s \in S THEN ClosedEnd(e[s]) ELSE e[s]
  OBVIOUS
<1>7. \A t \in Sockets \ {s} : f[t] \in {end[side][t], ClosedEnd(end[side][t])}
  BY <1>1
<1> HIDE DEF f
<1>8. Others(side, s) /\ end'[side] = f
  BY <1>3, <1>4, <1>7 DEF Others
<1>9. /\ closing' \in [Sides -> SUBSET Sockets]
      /\ \A any \in Sides : closing'[any] \subseteq closing[any] \cup Pooled(any)
  BY <1>5
<1>10. Became(side, e, S)
  BY <1>8 DEF f, Became
<1> QED BY <1>6, <1>8, <1>9, <1>10 DEF f

Resting(x) == [x EXCEPT !.active = FALSE, !.listening = TRUE]

(* What finished() makes of an end x. *)
Finished(x, close, after) ==
  \/ ~x.active /\ after = x
  \/ x.active /\ after = ClosedEnd(x)
  \/ x.active /\ ~close /\ after = Resting(x)

LEMMA RestingIs ==
  ASSUME NEW s \in Sockets, NEW side \in Sides, NEW e, But(e, side, s)
  PROVE  But([e EXCEPT ![s] = Resting(e[s])], side, s)
BY DEF But, Resting, Ends

LEMMA FinishIs ==
  ASSUME end \in [Sides -> [Sockets -> Ends]], closing \in [Sides -> SUBSET Sockets],
         pool \in [Sides -> Seq(Sockets)],
         NEW side \in Sides, NEW s \in Sockets, NEW e, But(e, side, s),
         NEW close \in BOOLEAN, Finish(side, e, s, close)
  PROVE  /\ Others(side, s)
         /\ Finished(e[s], close, end'[side][s])
         /\ closing' \in [Sides -> SUBSET Sockets]
         /\ \A any \in Sides : closing'[any] \subseteq closing[any] \cup Pooled(any)
<1> DEFINE idle == [e EXCEPT ![s] = Resting(e[s])]
<1>1. But(idle, side, s) /\ idle[s] = Resting(e[s])
  <2>1. e \in [Sockets -> Ends]
    BY DEF But
  <2> QED BY <2>1, RestingIs
<1>2. \/ ~e[s].active /\ \E S \in SUBSET Sockets : S = {} /\ Becomes(side, e, S)
      \/ e[s].active /\ Becomes(side, e, {s})
      \/ e[s].active /\ ~close /\ \E S : Becomes(side, idle, S) /\ (S = {} \/ S = Surplus(side, idle))
  BY DEF Finish, Resting
<1>3. pool[side] \in Seq(Sockets)
  OBVIOUS
<1>4. Surplus(side, idle) \subseteq Sockets
  <2>1. Idle(side, idle) \in Seq(Sockets)
    BY <1>3, OnlyProperties DEF Idle
  <2>2. \A i \in MaxIdle + 1..Len(Idle(side, idle)) : i \in 1..Len(Idle(side, idle))
    BY <2>1, BoundsAssumption
  <2> QED BY <2>1, <2>2 DEF Surplus
<1> HIDE DEF idle
<1>5. ASSUME ~e[s].active, NEW S \in SUBSET Sockets, S = {}, Becomes(side, e, S)
      PROVE  /\ Others(side, s)
             /\ Finished(e[s], close, end'[side][s])
             /\ closing' \in [Sides -> SUBSET Sockets]
             /\ \A any \in Sides : closing'[any] \subseteq closing[any] \cup Pooled(any)
  <2>1. end'[side][s] = e[s]
    <3>1. s \notin S
      BY <1>5
    <3>2. end'[side][s] = IF s \in S THEN ClosedEnd(e[s]) ELSE e[s]
      BY <1>5, BecomesIs
    <3> QED BY <3>1, <3>2
  <2> QED BY <1>5, <2>1, BecomesIs DEF Finished
<1>6. CASE e[s].active /\ Becomes(side, e, {s})
  <2>1. {s} \in SUBSET Sockets /\ s \in {s}
    OBVIOUS
  <2>2. end'[side][s] = ClosedEnd(e[s])
    BY <1>6, <2>1, BecomesIs
  <2> QED BY <1>6, <2>1, <2>2, BecomesIs DEF Finished
<1>7. ASSUME e[s].active, ~close, NEW S, Becomes(side, idle, S), S = {} \/ S = Surplus(side, idle)
      PROVE  /\ Others(side, s)
             /\ Finished(e[s], close, end'[side][s])
             /\ closing' \in [Sides -> SUBSET Sockets]
             /\ \A any \in Sides : closing'[any] \subseteq closing[any] \cup Pooled(any)
  <2>1. S \in SUBSET Sockets
    BY <1>4, <1>7
  <2>2. ClosedEnd(Resting(e[s])) = ClosedEnd(e[s])
    <3>1. e[s] \in Ends
      BY DEF But
    <3> QED BY <3>1 DEF ClosedEnd, Resting, Ends
  <2>3. end'[side][s] = IF s \in S THEN ClosedEnd(idle[s]) ELSE idle[s]
    BY <1>1, <1>7, <2>1, BecomesIs
  <2> QED BY <1>1, <1>7, <2>1, <2>2, <2>3, BecomesIs DEF Finished
<1> QED BY <1>2, <1>5, <1>6, <1>7

-----------------------------------------------------------------------------
(* The pools.                                                              *)

LEMMA SocketsFinite == IsFiniteSet(Sockets)
BY FS_Interval, BoundsAssumption DEF Sockets

LEMMA FewerAreFew ==
  ASSUME NEW B \in SUBSET Sockets, NEW A \in SUBSET B, Cardinality(B) <= MaxIdle
  PROVE  Cardinality(A) <= MaxIdle
<1>1. IsFiniteSet(B)
  BY SocketsFinite, FS_Subset
<1>2. IsFiniteSet(A) /\ Cardinality(A) <= Cardinality(B)
  BY <1>1, FS_Subset
<1>3. Cardinality(A) \in Nat /\ Cardinality(B) \in Nat
  BY <1>1, <1>2, FS_CardinalityType
<1> QED BY <1>2, <1>3, BoundsAssumption

LEMMA PooledSockets ==
  ASSUME pool \in [Sides -> Seq(Sockets)], NEW side \in Sides
  PROVE  pool[side] \in Seq(Sockets) /\ Pooled(side) \subseteq Sockets
BY DEF Pooled

(* socketBecomeIdle() leaves at most MaxIdle sockets that could be used.   *)
LEMMA SurplusSuffices ==
  ASSUME pool \in [Sides -> Seq(Sockets)], NEW side \in Sides, NEW e
  PROVE  Cardinality({t \in Pooled(side) : ~e[t].active /\ t \notin Surplus(side, e)}) <= MaxIdle
<1> DEFINE I == Idle(side, e)
           K == {t \in Sockets : ~e[t].active}
           m == IF Len(I) <= MaxIdle THEN Len(I) ELSE MaxIdle
           f == [i \in 1..m |-> I[i]]
           T == {f[i] : i \in 1..m}
           A == {t \in Pooled(side) : ~e[t].active /\ t \notin Surplus(side, e)}
<1>1. pool[side] \in Seq(Sockets) /\ Pooled(side) \subseteq Sockets
  BY PooledSockets
<1>2. I = Only(pool[side], K)
  BY DEF Idle
<1> HIDE DEF K
<1>3. /\ I \in Seq(Sockets)
      /\ \A i \in 1..Len(pool[side]) : pool[side][i] \in K => \E a \in 1..Len(I) : I[a] = pool[side][i]
  BY <1>1, <1>2, OnlyProperties
<1> HIDE DEF I
<1>4. MaxIdle \in Nat /\ m \in Nat /\ m <= MaxIdle /\ m <= Len(I) /\ Len(I) \in Nat
  BY <1>3, BoundsAssumption
<1>5. \A i \in 1..Len(I) : i \notin 1..m => i \in MaxIdle + 1..Len(I)
  BY <1>3, BoundsAssumption
<1> HIDE DEF m
<1>6. f \in [1..m -> T] /\ \A t \in T : \E i \in 1..m : f[i] = t
  OBVIOUS
<1>7. f \in Surjection(1..m, T)
  BY <1>6, Zenon DEF Surjection
<1> HIDE DEF f, T
<1>8. IsFiniteSet(1..m) /\ Cardinality(1..m) = m
  BY <1>4, FS_Interval
<1>9. IsFiniteSet(T) /\ Cardinality(T) <= m
  BY <1>7, <1>8, FS_Surjection
<1>10. A \subseteq T
  <2> USE DEF T, f
  <2> SUFFICES ASSUME NEW t \in A PROVE t \in T
    OBVIOUS
  <2>1. t \in K /\ t \in Pooled(side) /\ t \notin Surplus(side, e)
    BY <1>1 DEF K
  <2>2. PICK i \in 1..Len(pool[side]) : pool[side][i] = t
    BY <2>1 DEF Pooled
  <2>3. PICK a \in 1..Len(I) : I[a] = t
    BY <1>3, <2>1, <2>2
  <2>4. a \in 1..m
    BY <1>5, <2>1, <2>3 DEF Surplus, I
  <2> QED BY <2>3, <2>4
<1> HIDE DEF A
<1>11. IsFiniteSet(A) /\ Cardinality(A) <= Cardinality(T)
  BY <1>9, <1>10, FS_Subset
<1>12. Cardinality(A) \in Nat /\ Cardinality(T) \in Nat
  BY <1>9, <1>11, FS_CardinalityType
<1>13. Cardinality(A) <= MaxIdle
  BY <1>4, <1>9, <1>11, <1>12
<1> QED BY <1>13 DEF A

(* What the ends of a step have to do with those before, for the pools.    *)
NoMoreReusable(side, s, e) ==
  ~e[s].active /\ e[s].listening => ~end[side][s].active /\ end[side][s].listening

LEMMA PoolsSame ==
  ASSUME Types, Pools, pool' = pool, opened' = opened, NEW side \in Sides, NEW s \in Sockets, Others(side, s),
         \A any \in Sides : closing'[any] \subseteq closing[any] \cup Pooled(any),
         Cardinality(Reusable(side)') <= MaxIdle
  PROVE  Pools'
<1>1. ASSUME NEW any \in Sides
      PROVE  /\ closing'[any] \subseteq Pooled(any)' /\ Pooled(any)' \subseteq 1..opened'
             /\ \A i, j \in 1..Len(pool'[any]) : pool'[any][i] = pool'[any][j] => i = j
             /\ Cardinality(Reusable(any)') <= MaxIdle
  <2>1. Pooled(any)' = Pooled(any)
    BY DEF Pooled
  <2>2. CASE any # side
    <3>1. Reusable(any)' = Reusable(any)
      BY <2>1, <2>2 DEF Reusable, Others
    <3> QED BY <2>1, <3>1 DEF Pools
  <2> QED BY <2>1, <2>2 DEF Pools
<1> QED BY <1>1 DEF Pools

LEMMA BecomesPools ==
  ASSUME Types, Pools, pool' = pool, opened' = opened, NEW side \in Sides, NEW s \in Sockets, NEW e, But(e, side, s),
         NoMoreReusable(side, s, e), NEW S \in SUBSET Sockets, Becomes(side, e, S)
  PROVE  Pools'
<1>1. /\ end \in [Sides -> [Sockets -> Ends]] /\ closing \in [Sides -> SUBSET Sockets]
      /\ pool \in [Sides -> Seq(Sockets)]
  BY DEF Types
<1>2. /\ Others(side, s)
      /\ Became(side, e, S)
      /\ \A any \in Sides : closing'[any] \subseteq closing[any] \cup Pooled(any)
  BY <1>1, BecomesIs
<1>3. Pooled(side)' = Pooled(side) /\ Pooled(side) \subseteq Sockets
  BY <1>1, PooledSockets DEF Pooled
<1>4. Reusable(side)' \subseteq Reusable(side)
  <2>1. \A t \in Sockets : e[t] \in Ends
    BY DEF But
  <2>2. ASSUME NEW t \in Sockets, ~end'[side][t].active, end'[side][t].listening
        PROVE  ~end[side][t].active /\ end[side][t].listening
    <3>1. CASE t \in S
      <4>1. end'[side][t] = ClosedEnd(e[t])
        BY <1>2, <3>1 DEF Became
      <4>2. ~end'[side][t].listening
        BY <2>1, <4>1 DEF ClosedEnd, Ends
      <4> QED BY <2>2, <4>2
    <3>2. CASE t \notin S
      <4>1. end'[side][t] = e[t]
        BY <1>2, <3>2 DEF Became
      <4> QED BY <2>2, <4>1 DEF But, NoMoreReusable
    <3> QED BY <3>1, <3>2
  <2> QED BY <1>3, <2>2 DEF Reusable
<1>5. Reusable(side) \subseteq Sockets /\ Cardinality(Reusable(side)) <= MaxIdle
  BY <1>3 DEF Reusable, Pools
<1>6. Cardinality(Reusable(side)') <= MaxIdle
  BY <1>4, <1>5, FewerAreFew
<1> QED BY <1>2, <1>6, PoolsSame

LEMMA FinishPools ==
  ASSUME Types, Pools, pool' = pool, opened' = opened, NEW side \in Sides, NEW s \in Sockets, NEW e, But(e, side, s),
         NoMoreReusable(side, s, e), NEW close \in BOOLEAN, Finish(side, e, s, close)
  PROVE  Pools'
<1> DEFINE idle == [e EXCEPT ![s] = Resting(e[s])]
<1>1. /\ end \in [Sides -> [Sockets -> Ends]] /\ closing \in [Sides -> SUBSET Sockets]
      /\ pool \in [Sides -> Seq(Sockets)]
  BY DEF Types
<1>2. But(idle, side, s) /\ e \in [Sockets -> Ends]
  BY RestingIs DEF But
<1>3. \/ \E S \in SUBSET Sockets : Becomes(side, e, S)
      \/ s \in Pooled(side) /\ Becomes(side, idle, Surplus(side, idle))
      \/ s \notin Pooled(side) /\ \E S \in SUBSET Sockets : S = {} /\ Becomes(side, idle, S)
  <2>1. {} \in SUBSET Sockets /\ {s} \in SUBSET Sockets
    OBVIOUS
  <2>2. \/ Becomes(side, e, {}) \/ Becomes(side, e, {s})
        \/ s \in Pooled(side) /\ Becomes(side, idle, Surplus(side, idle))
        \/ s \notin Pooled(side) /\ Becomes(side, idle, {})
    BY DEF Finish, Resting
  <2> HIDE DEF idle
  <2> QED BY <2>1, <2>2
<1>4. pool[side] \in Seq(Sockets) /\ Pooled(side)' = Pooled(side) /\ Pooled(side) \subseteq Sockets
  BY <1>1, PooledSockets DEF Pooled
<1>5. Surplus(side, idle) \in SUBSET Sockets
  <2>1. Idle(side, idle) \in Seq(Sockets)
    BY <1>4, OnlyProperties DEF Idle
  <2>2. \A i \in MaxIdle + 1..Len(Idle(side, idle)) : i \in 1..Len(Idle(side, idle))
    BY <2>1, BoundsAssumption
  <2> QED BY <2>1, <2>2 DEF Surplus
<1>6. \A t \in Sockets \ {s} : idle[t] = e[t]
  BY <1>2
<1> HIDE DEF idle
<1>7. CASE \E S \in SUBSET Sockets : Becomes(side, e, S)
  BY <1>7, BecomesPools
<1>8. ASSUME s \in Pooled(side), Becomes(side, idle, Surplus(side, idle)) PROVE Pools'
  <2>1. /\ Others(side, s)
        /\ Became(side, idle, Surplus(side, idle))
        /\ \A any \in Sides : closing'[any] \subseteq closing[any] \cup Pooled(any)
    BY <1>1, <1>2, <1>5, <1>8, BecomesIs
  <2> DEFINE A == {t \in Pooled(side) : ~idle[t].active /\ t \notin Surplus(side, idle)}
  <2>2. Cardinality(A) <= MaxIdle
    BY <1>1, SurplusSuffices
  <2>3. Reusable(side)' \subseteq A
    <3>1. \A t \in Sockets : idle[t] \in Ends
      BY <1>2 DEF But
    <3>2. ASSUME NEW t \in Sockets, ~end'[side][t].active, end'[side][t].listening
          PROVE  t \notin Surplus(side, idle) /\ ~idle[t].active
      <4>1. CASE t \in Surplus(side, idle)
        <5>1. end'[side][t] = ClosedEnd(idle[t])
          BY <2>1, <4>1 DEF Became
        <5>2. ~end'[side][t].listening
          BY <3>1, <5>1 DEF ClosedEnd, Ends
        <5> QED BY <3>2, <5>2
      <4>2. CASE t \notin Surplus(side, idle)
        <5>1. end'[side][t] = idle[t]
          BY <2>1, <4>2 DEF Became
        <5> QED BY <3>2, <4>2, <5>1
      <4> QED BY <4>1, <4>2
    <3> QED BY <1>4, <3>2 DEF Reusable
  <2>4. A \subseteq Sockets
    BY <1>4
  <2> HIDE DEF A
  <2>5. Cardinality(Reusable(side)') <= MaxIdle
    BY <2>2, <2>3, <2>4, FewerAreFew
  <2> QED BY <2>1, <2>5, PoolsSame
<1>9. ASSUME s \notin Pooled(side), NEW S \in SUBSET Sockets, S = {}, Becomes(side, idle, S) PROVE Pools'
  <2>1. /\ Others(side, s)
        /\ Became(side, idle, S)
        /\ \A any \in Sides : closing'[any] \subseteq closing[any] \cup Pooled(any)
    BY <1>1, <1>2, <1>9, BecomesIs
  <2>2. \A t \in Pooled(side) : end'[side][t] = end[side][t]
    <3> TAKE t \in Pooled(side)
    <3>1. t \in Sockets \ {s} /\ t \notin S
      BY <1>4, <1>9
    <3> QED BY <1>6, <2>1, <3>1 DEF But, Became
  <2>3. Reusable(side)' \subseteq Reusable(side)
    BY <1>4, <2>2 DEF Reusable
  <2>4. Reusable(side) \subseteq Sockets /\ Cardinality(Reusable(side)) <= MaxIdle
    BY <1>4 DEF Reusable, Pools
  <2>5. Cardinality(Reusable(side)') <= MaxIdle
    BY <2>3, <2>4, FewerAreFew
  <2> QED BY <2>1, <2>5, PoolsSame
<1> QED BY <1>3, <1>7, <1>8, <1>9

-----------------------------------------------------------------------------
(* A socket where nothing happens, but that its ends may be closed.        *)

LEMMA MessageFor ==
  ASSUME NEW m \in Messages
  PROVE  /\ m.r \in Requests
         /\ m.type \in {"GET_ENTRIES", "ENTRIES"} => m.r \in EntriesRequests
         /\ m.type \in {"GET_HASHES", "HASHES", "NO_HASHES", "HASH"} => m.r \in HashesRequests
         /\ m.type \in {"GET_CHUNK", "CHUNK", "NO_CHUNK", "DATA"} => m.r \in ChunkRequests
BY DEF Messages, Requests

LEMMA SocketTypes ==
  ASSUME Types, NEW s \in Sockets
  PROVE  /\ \A side \in Sides : /\ end[side][s] \in Ends /\ wire[side][s] \in Seq(Messages)
                                /\ end[side][s].active \in BOOLEAN /\ end[side][s].listening \in BOOLEAN
                                /\ end[side][s].nbHash \in Int
         /\ serving[s] \in Works
         /\ serving[s].entries \in EntriesRequests \cup {NoRequest}
         /\ serving[s].hashes \in Seq(HashesRequests)
         /\ serving[s].upload \in ChunkRequests \cup {NoRequest} /\ serving[s].written \in BOOLEAN
         /\ HeldBy(s) \subseteq Requests
         /\ "client" \in Sides /\ "server" \in Sides
BY DEF Types, Ends, Works, HeldBy, Sides

LEMMA ClosedIs ==
  ASSUME NEW x \in Ends
  PROVE  /\ ClosedEnd(x) \in Ends /\ ClosedEnd(x).active = FALSE /\ ClosedEnd(x).listening = FALSE
         /\ ClosedEnd(x).nbHash = x.nbHash
BY DEF ClosedEnd, Ends

(* The end of a side stays as it is or is closed. *)
EndKept(side, t) == end'[side][t] \in {end[side][t], ClosedEnd(end[side][t])}

LEMMA EndKeptIs ==
  ASSUME Types, NEW t \in Sockets, NEW side \in Sides, EndKept(side, t)
  PROVE  /\ end'[side][t].listening => end[side][t].listening
         /\ end'[side][t].active => end[side][t].active
         /\ end'[side][t].nbHash = end[side][t].nbHash
         /\ end'[side][t].active => (end[side][t].listening => end'[side][t].listening)
         /\ end'[side][t].listening => (end[side][t].active => end'[side][t].active)
<1>1. end[side][t] \in Ends
  BY SocketTypes
<1>2. end'[side][t] = end[side][t] \/ end'[side][t] = ClosedEnd(end[side][t])
  BY DEF EndKept
<1> QED BY <1>1, <1>2, ClosedIs

Kept(t) ==
  /\ serving'[t] = serving[t]
  /\ \A side \in Sides : wire'[side][t] = wire[side][t] /\ EndKept(side, t)
  /\ HeldBy(t)' = HeldBy(t) /\ \A r \in HeldBy(t) : request'[r] = request[r]
  /\ Broken(t) => Broken(t)'

LEMMA ServerKept ==
  ASSUME Types, NEW t \in Sockets, ServerOK(t), serving'[t] = serving[t],
         wire'["server"][t] = wire["server"][t], EndKept("server", t)
  PROVE  ServerOK(t)'
<1>1. Answering(t)' = Answering(t)
  BY DEF Answering
<1>2. "server" \in Sides
  BY DEF Sides
<1> QED BY <1>1, <1>2, EndKeptIs DEF ServerOK

LEMMA Untouched ==
  ASSUME Types, NEW t \in Sockets, SocketOK(t), Kept(t)
  PROVE  SocketOK(t)'
<1> DEFINE H == HeldBy(t)
<1>1. "client" \in Sides /\ "server" \in Sides
  BY DEF Sides
<1>2. /\ end'["client"][t].listening => end["client"][t].listening
      /\ end'["client"][t].listening => (end["client"][t].active => end'["client"][t].active)
      /\ end'["client"][t].nbHash = end["client"][t].nbHash
      /\ end'["server"][t].listening => end["server"][t].listening
  BY <1>1, EndKeptIs DEF Kept
<1>3. /\ wire'["client"][t] = wire["client"][t] /\ wire'["server"][t] = wire["server"][t]
      /\ serving'[t] = serving[t] /\ HeldBy(t)' = HeldBy(t)
      /\ \A r \in HeldBy(t) : request'[r] = request[r]
      /\ Broken(t) => Broken(t)'
  BY <1>1 DEF Kept
<1>4. ServerOK(t)'
  BY <1>1, ServerKept DEF Kept, SocketOK
<1>5. HoldOK(t)'
  BY <1>2, <1>3 DEF HoldOK, SocketOK
<1>6. Unwritten(t)' = Unwritten(t) /\ (Used(t)' => Used(t)) /\ Begins(t)' = Begins(t) /\ Listed(t)' = Listed(t)
  BY <1>2, <1>3 DEF Unwritten, Used, Begins, Listed
<1>7. AwaitedOK(t)'
  BY <1>3, <1>6 DEF AwaitedOK, SocketOK
<1>8. \A r \in HeldBy(t) \cap EntriesRequests : EntriesOK(t, r)'
  BY <1>3 DEF RequestsOK, SocketOK, EntriesOK
<1>9. \A r \in HeldBy(t) \cap ChunkRequests : ChunkOK(t, r)'
  <2> TAKE r \in HeldBy(t) \cap ChunkRequests
  <2>1. ChunkOK(t, r)
    BY DEF RequestsOK, SocketOK
  <2> QED BY <2>1, <1>3, <1>6 DEF ChunkOK
<1>10. \A r \in HeldBy(t) \cap HashesRequests : HashesOK(t, r)'
  <2> TAKE r \in HeldBy(t) \cap HashesRequests
  <2>1. HashesOK(t, r) /\ Refused(t, r)' = Refused(t, r)
    BY <1>3 DEF RequestsOK, SocketOK, Refused
  <2> QED BY <2>1, <1>2, <1>3, <1>6 DEF HashesOK
<1>11. RequestsOK(t)'
  BY <1>3, <1>8, <1>9, <1>10 DEF RequestsOK
<1> QED BY <1>4, <1>5, <1>7, <1>11 DEF SocketOK

(* The client's request is done: nothing that is under way may be for the  *)
(* next one, unless the socket is closed.                                  *)
Silent(s) ==
  /\ serving[s].entries = NoRequest /\ serving[s].hashes = <<>> /\ ~Unwritten(s)
  /\ wire["server"][s] = <<>>

LEMMA QuietOK ==
  ASSUME Types, NEW s \in Sockets, SocketOK(s), Broken(s) => Broken(s)', HeldBy(s)' = {},
         wire'["server"][s] = wire["server"][s], serving'[s] = serving[s], EndKept("server", s),
         end'["client"][s].listening => wire'["client"][s] = <<>> /\ (Broken(s) \/ Silent(s))
  PROVE  SocketOK(s)'
<1>1. ServerOK(s)'
  BY ServerKept DEF SocketOK
<1>2. HoldOK(s)'
  BY DEF HoldOK
<1>3. Unwritten(s)' = Unwritten(s)
  BY DEF Unwritten
<1>4. Used(s)' => end'["client"][s].listening
  BY DEF Used
<1>5. AwaitedOK(s)'
  BY <1>3, <1>4 DEF AwaitedOK, Silent
<1>6. RequestsOK(s)'
  BY DEF RequestsOK
<1> QED BY <1>1, <1>2, <1>5, <1>6 DEF SocketOK

-----------------------------------------------------------------------------
(* A step touches one socket.                                              *)

RequestOnly(s) ==
  \A q \in Requests :
    request'[q] = request[q] \/ (request'[q].socket = s /\ (Live(q) => request[q].socket = s))
NoNewHolder ==
  \A q \in Requests : Live(q)' => Live(q) /\ request'[q].socket = request[q].socket
Elsewhere(s) == \A t \in Sockets \ {s} : Kept(t)
Breaks == \A t \in Sockets : Broken(t) => Broken(t)'

LEMMA HoldersKept ==
  ASSUME Types, NEW s, RequestOnly(s), NEW t \in Sockets \ {s}
  PROVE  HeldBy(t)' = HeldBy(t) /\ \A r \in HeldBy(t) : request'[r] = request[r]
<1>1. ASSUME NEW q \in Requests, request'[q] = request[q]
      PROVE  q \in HeldBy(t)' <=> q \in HeldBy(t)
  BY <1>1 DEF HeldBy, Live
<1>2. ASSUME NEW q \in Requests, request'[q].socket = s, Live(q) => request[q].socket = s
      PROVE  q \notin HeldBy(t)' /\ q \notin HeldBy(t)
  BY <1>2 DEF HeldBy
<1>3. \A q \in Requests : (q \in HeldBy(t)' <=> q \in HeldBy(t)) /\ (q \in HeldBy(t) => request'[q] = request[q])
  BY <1>1, <1>2 DEF RequestOnly
<1>4. HeldBy(t)' \subseteq Requests /\ HeldBy(t) \subseteq Requests
  BY DEF HeldBy
<1> QED BY <1>3, <1>4

LEMMA ElsewhereKept ==
  ASSUME Types, NEW s \in Sockets, RequestOnly(s), Breaks,
         NEW side \in Sides, Others(side, s) \/ end' = end,
         \A t \in Sockets \ {s} : serving'[t] = serving[t] /\ \A any \in Sides : wire'[any][t] = wire[any][t]
  PROVE  Elsewhere(s)
<1> SUFFICES ASSUME NEW t \in Sockets \ {s} PROVE Kept(t)
  BY DEF Elsewhere
<1>1. \A any \in Sides : EndKept(any, t)
  <2> TAKE any \in Sides
  <2>1. CASE any = side
    BY <2>1 DEF Others, EndKept
  <2>2. CASE any # side
    BY <2>2 DEF Others, EndKept
  <2> QED BY <2>1, <2>2
<1> QED BY <1>1, HoldersKept DEF Kept, Breaks

LEMMA BreaksOn ==
  ASSUME Types, NoNewHolder, opened' = opened, cut \subseteq cut',
         \A side \in Sides : Pooled(side)' \subseteq Pooled(side),
         \A t \in Sockets : t \notin Pooled("server") /\ serving[t].upload = NoRequest /\ serving[t].kept = {}
                             => serving'[t].upload = NoRequest /\ serving'[t].kept = {}
  PROVE  Breaks
<1> SUFFICES ASSUME NEW t \in Sockets, Broken(t) PROVE Broken(t)'
  BY DEF Breaks
<1>1. CASE t \in cut
  BY <1>1 DEF Broken
<1>2. CASE Gone("client", t)
  <2>1. HeldBy(t) = {} /\ t \notin Pooled("client") /\ t <= opened
    BY <1>2 DEF Gone
  <2>2. HeldBy(t)' = {}
    BY <2>1 DEF NoNewHolder, HeldBy
  <2>3. "client" \in Sides
    BY DEF Sides
  <2>4. Gone("client", t)'
    BY <2>1, <2>2, <2>3 DEF Gone
  <2> QED BY <2>3, <2>4 DEF Broken
<1>3. CASE Gone("server", t)
  <2>1. serving[t].upload = NoRequest /\ serving[t].kept = {} /\ t \notin Pooled("server") /\ t <= opened
    BY <1>3 DEF Gone
  <2>2. "server" \in Sides
    BY DEF Sides
  <2>3. Gone("server", t)'
    BY <2>1, <2>2 DEF Gone
  <2> QED BY <2>2, <2>3 DEF Broken
<1> QED BY <1>1, <1>2, <1>3 DEF Broken, Sides

LEMMA SocketsStep ==
  ASSUME Types, SocketsOK, NEW s \in Sockets, opened' = opened, astray \subseteq astray', Elsewhere(s),
         s \in astray' \/ SocketOK(s)'
  PROVE  SocketsOK'
<1> SUFFICES ASSUME NEW t \in (1..opened') \ astray' PROVE SocketOK(t)'
  BY DEF SocketsOK
<1>1. t \in (1..opened) \ astray /\ t \in Sockets
  BY BoundsAssumption DEF Types, Sockets
<1>2. CASE t = s
  BY <1>2
<1>3. CASE t # s
  BY <1>1, <1>3, Untouched DEF SocketsOK, Elsewhere
<1> QED BY <1>2, <1>3

-----------------------------------------------------------------------------
(* The requests.                                                           *)

(* The requests of R, that hold the socket s, are done with it.            *)
Ended(R, s) ==
  /\ RequestTypes' /\ RequestOnly(s) /\ NoNewHolder
  /\ HeldBy(s)' = HeldBy(s) \ R
  /\ \A q \in HeldBy(s) \ R : request'[q] = request[q]

LEMMA EndedIs ==
  ASSUME Types, opened' = opened, NEW s \in 1..opened, NEW R \in SUBSET HeldBy(s),
         request' \in [Requests -> States],
         \A q \in Requests \ R : request'[q] = request[q],
         \A q \in R : request'[q].st = "done" /\ request'[q].socket = request[q].socket
  PROVE  Ended(R, s)
<1>1. R \subseteq Requests /\ \A q \in R : Live(q) /\ request[q].socket = s
  BY DEF HeldBy
<1>2. RequestTypes'
  BY <1>1 DEF Types, RequestTypes, Live
<1>3. RequestOnly(s) /\ NoNewHolder
  BY <1>1 DEF RequestOnly, NoNewHolder, Live
<1>4. \A q \in R : q \notin HeldBy(s)'
  BY <1>1 DEF HeldBy, Live
<1>5. \A q \in Requests \ R : q \in HeldBy(s)' <=> q \in HeldBy(s)
  BY DEF HeldBy, Live
<1>6. HeldBy(s)' = HeldBy(s) \ R
  BY <1>1, <1>4, <1>5 DEF HeldBy
<1>7. \A q \in HeldBy(s) \ R : request'[q] = request[q]
  BY DEF HeldBy
<1> QED BY <1>2, <1>3, <1>6, <1>7 DEF Ended

LEMMA DoneIs ==
  ASSUME Types, opened' = opened, NEW s \in 1..opened, NEW R \in SUBSET HeldBy(s),
         NEW m \in Messages, Done(R, m)
  PROVE  Ended(R, s)
<1>1. R \subseteq Requests /\ m.r \in Requests /\ request \in [Requests -> States]
  BY MessageFor DEF HeldBy, Types, RequestTypes
<1>2. request' = [q \in Requests |-> IF q \notin R THEN request[q]
                                ELSE [request[q] EXCEPT !.st = "done", !.answer = m.r]]
  BY DEF Done
<1>3. request' \in [Requests -> States]
  BY <1>1, <1>2 DEF States
<1>4. \A q \in R : request'[q].st = "done" /\ request'[q].socket = request[q].socket
  BY <1>1, <1>2 DEF States
<1> QED BY <1>1, <1>2, <1>3, <1>4, EndedIs

LEMMA ReleasedIs ==
  ASSUME Types, opened' = opened, NEW r \in Requests, Live(r),
         request' = [request EXCEPT ![r] = [request[r] EXCEPT !.st = "done"]]
  PROVE  /\ Ended({r}, request[r].socket) /\ r \in HeldBy(request[r].socket)
         /\ request[r].socket \in 1..opened /\ request[r].socket \in Sockets
<1>1. request \in [Requests -> States] /\ request[r].socket \in 1..opened
  BY DEF Types, RequestTypes
<1>2. request[r].socket \in Sockets
  BY <1>1, BoundsAssumption DEF Types, Sockets
<1>3. request' \in [Requests -> States]
  BY <1>1 DEF States
<1>4. \A q \in {r} : request'[q].st = "done" /\ request'[q].socket = request[q].socket
  BY <1>1 DEF States
<1>5. {r} \in SUBSET HeldBy(request[r].socket)
  BY DEF HeldBy
<1>6. \A q \in Requests \ {r} : request'[q] = request[q]
  BY <1>1
<1> QED BY <1>1, <1>2, <1>3, <1>4, <1>5, <1>6, EndedIs

-----------------------------------------------------------------------------
(* The wires.                                                              *)

Wired(s, side, other, q) ==
  /\ wire' \in [Sides -> [Sockets -> Seq(Messages)]]
  /\ wire'[side][s] = q /\ wire'[other][s] = wire[other][s]
  /\ \A t \in Sockets \ {s}, any \in Sides : wire'[any][t] = wire[any][t]

LEMMA WiredIs ==
  ASSUME Types, NEW s \in Sockets, NEW side \in Sides, NEW other \in Sides \ {side},
         NEW q \in Seq(Messages), wire' = Puts(wire, side, s, q)
  PROVE  Wired(s, side, other, q)
<1>1. wire \in [Sides -> [Sockets -> Seq(Messages)]]
  BY DEF Types
<1> DEFINE p == Puts(wire, side, s, q)
<1>2. /\ p \in [Sides -> [Sockets -> Seq(Messages)]] /\ p[side][s] = q
      /\ \A any \in Sides : any # side => p[any] = wire[any]
      /\ \A any \in Sides, t \in Sockets \ {s} : p[any][t] = wire[any][t]
  BY <1>1 DEF Puts
<1>3. wire' = p
  OBVIOUS
<1> HIDE DEF p
<1> QED BY <1>2, <1>3 DEF Wired

LEMMA TakenIs ==
  ASSUME Types, NEW s \in Sockets, NEW side \in Sides, NEW other \in Sides \ {side},
         wire[side][s] # <<>>, wire' = Taken(side, s)
  PROVE  /\ Wired(s, side, other, Tail(wire[side][s]))
         /\ Head(wire[side][s]) = wire[side][s][1] /\ wire[side][s][1] \in Messages
         /\ Tail(wire[side][s]) \in Seq(Messages)
         /\ Len(Tail(wire[side][s])) = Len(wire[side][s]) - 1 /\ Len(wire[side][s]) \in Nat \ {0}
         /\ \A i \in 1..Len(wire[side][s]) - 1 : Tail(wire[side][s])[i] = wire[side][s][i + 1]
<1>1. wire[side][s] \in Seq(Messages)
  BY SocketTypes
<1> DEFINE q == wire[side][s]
<1>2. /\ Tail(q) \in Seq(Messages) /\ Len(Tail(q)) = Len(q) - 1 /\ Len(q) \in Nat \ {0}
      /\ Head(q) = q[1] /\ q[1] \in Messages
      /\ \A i \in 1..Len(q) - 1 : Tail(q)[i] = q[i + 1]
  <2> HIDE DEF q
  <2>1. q \in Seq(Messages) /\ q # <<>>
    BY <1>1 DEF q
  <2> QED BY <2>1
<1>3. wire' = Puts(wire, side, s, Tail(q))
  BY DEF Taken
<1> HIDE DEF q
<1>4. Wired(s, side, other, Tail(q))
  BY <1>2, <1>3, WiredIs
<1> QED BY <1>2, <1>4 DEF q

-----------------------------------------------------------------------------
(* A step as a whole.                                                      *)

Local(s) ==
  /\ s \in 1..opened /\ opened' = opened
  /\ RequestTypes' /\ RequestOnly(s) /\ Breaks
  /\ \E side \in Sides : Others(side, s) \/ end' = end
  /\ serving' \in [Sockets -> Works] /\ \A t \in Sockets \ {s} : serving'[t] = serving[t]
  /\ wire' \in [Sides -> [Sockets -> Seq(Messages)]]
  /\ \A t \in Sockets \ {s}, any \in Sides : wire'[any][t] = wire[any][t]
  /\ cut' \subseteq 1..opened /\ astray \subseteq astray' /\ astray' \subseteq 1..opened
  /\ faults' \in 0..MaxFaults
  /\ pool' \in [Sides -> Seq(Sockets)] /\ closing' \in [Sides -> SUBSET Sockets] /\ Pools'

LEMMA OpenedSocket ==
  ASSUME Types
  PROVE  opened \in Nat /\ 1..opened \subseteq Sockets
BY BoundsAssumption DEF Types, Sockets

LEMMA StepKeeps ==
  ASSUME IInv, NEW s, Local(s), s \notin astray' => SocketOK(s)'
  PROVE  IInv'
<1>1. Types /\ Fresh /\ SocketsOK /\ s \in Sockets
  BY OpenedSocket DEF IInv, Local
<1>2. Elsewhere(s)
  BY <1>1, ElsewhereKept DEF Local
<1>3. SocketsOK'
  BY <1>1, <1>2, SocketsStep DEF Local
<1>4. Types'
  <2>1. end' \in [Sides -> [Sockets -> Ends]]
    BY <1>1 DEF Local, Others, Types
  <2> QED BY <1>1, <2>1 DEF Types, Local
<1>5. Fresh'
  <2> SUFFICES ASSUME NEW t \in Sockets, t > opened
               PROVE  serving'[t] = NoWork /\ \A side \in Sides : wire'[side][t] = <<>>
    BY DEF Fresh, Local
  <2>1. t # s
    BY OpenedSocket, <1>1 DEF Local
  <2> QED BY <1>1, <2>1 DEF Fresh, Local
<1>6. Pools'
  BY DEF Local
<1> QED BY <1>3, <1>4, <1>5, <1>6 DEF IInv

-----------------------------------------------------------------------------
(* What the client hears.                                                  *)

LEMMA KindsApart ==
  ASSUME NEW r \in Requests
  PROVE  /\ r \in EntriesRequests \/ r \in HashesRequests \/ r \in ChunkRequests
         /\ ~(r \in EntriesRequests /\ r \in HashesRequests)
         /\ ~(r \in EntriesRequests /\ r \in ChunkRequests)
         /\ ~(r \in HashesRequests /\ r \in ChunkRequests)
         /\ r # NoRequest
BY RequestsAssumption DEF Requests

LEMMA HolderOK ==
  ASSUME Types, NEW s \in Sockets, SocketOK(s), NEW r \in HeldBy(s)
  PROVE  /\ HeldBy(s) = {r} /\ r \in Requests /\ request[r].st \in {"asked", "streaming"} /\ Live(r)
         /\ request[r].socket = s
         /\ r \in EntriesRequests => EntriesOK(s, r)
         /\ r \in HashesRequests => HashesOK(s, r)
         /\ r \in ChunkRequests => ChunkOK(s, r)
         /\ request[r].st = "streaming" => r \in ChunkRequests /\ ~end["client"][s].listening
<1>1. \A q \in HeldBy(s) : q = r
  BY DEF SocketOK, HoldOK
<1>2. r \in Requests /\ Live(r) /\ request[r].socket = s
  BY DEF HeldBy
<1>3. request[r].st = "streaming" => r \in ChunkRequests /\ ~end["client"][s].listening
  BY <1>2 DEF SocketOK, HoldOK, Types, RequestTypes
<1> QED BY <1>1, <1>2, <1>3 DEF SocketOK, RequestsOK, Live

(* The head of the wire is for the request that holds the socket.          *)
LEMMA HeardFor ==
  ASSUME Types, NEW s \in Sockets, SocketOK(s), Used(s), wire["client"][s] # <<>>
  PROVE  /\ HeldBy(s) = {wire["client"][s][1].r} /\ wire["client"][s][1] \in Messages
         /\ wire["client"][s][1].r \in HeldBy(s) /\ Len(wire["client"][s]) >= 1
         /\ Len(wire["client"][s]) \in Nat
<1> DEFINE w == wire["client"][s]
<1>1. w \in Seq(Messages)
  BY SocketTypes
<1>2. \A i \in 1..Len(w) : w[i].r \in HeldBy(s)
  BY DEF SocketOK, AwaitedOK
<1> HIDE DEF w
<1>3. w # <<>>
  BY DEF w
<1>4. Len(w) \in Nat /\ Len(w) >= 1 /\ w[1] \in Messages
  BY <1>1, <1>3
<1>5. w[1].r \in HeldBy(s)
  BY <1>2, <1>4
<1> QED BY <1>4, <1>5, HolderOK DEF w

(* What the server still has to do for the one who holds the socket.       *)
LEMMA ServedFor ==
  ASSUME Types, NEW s \in Sockets, SocketOK(s), Used(s), ~Broken(s), wire["client"][s] # <<>>,
         NEW r, HeldBy(s) = {r}
  PROVE  /\ serving[s].entries = NoRequest /\ wire["server"][s] = <<>>
         /\ Unwritten(s) => serving[s].upload = r
         /\ serving[s].hashes = <<>> \/ r \in HashesRequests
<1>1. /\ serving[s].entries = NoRequest /\ wire["server"][s] = <<>>
      /\ Unwritten(s) => serving[s].upload = r
      /\ \A i \in 1..Len(serving[s].hashes) : serving[s].hashes[i] = r
  BY DEF SocketOK, AwaitedOK
<1>2. serving[s].hashes \in Seq(HashesRequests)
  BY SocketTypes
<1> DEFINE h == serving[s].hashes
<1>3. h = <<>> \/ r \in HashesRequests
  <2>1. h \in Seq(HashesRequests) /\ \A i \in 1..Len(h) : h[i] = r
    BY <1>1, <1>2
  <2> HIDE DEF h
  <2>2. h # <<>> => 1 \in 1..Len(h) /\ h[1] \in HashesRequests
    BY <2>1
  <2> QED BY <2>1, <2>2
<1> QED BY <1>1, <1>3

LEMMA OneMessage ==
  ASSUME NEW type, NEW r, NEW q, q = <<Message(type, r)>>
  PROVE  Len(q) = 1 /\ q[1].type = type /\ q[1].r = r /\ q # <<>>
BY DEF Message

LEMMA OnlyHashes ==
  ASSUME NEW q, \A i \in 1..Len(q) : q[i].type = "HASH", NEW r
  PROVE  q # <<Message("NO_HASHES", r)>>
<1> SUFFICES ASSUME q = <<Message("NO_HASHES", r)>> PROVE FALSE
  OBVIOUS
<1>1. Len(q) = 1 /\ q[1].type = "NO_HASHES"
  BY OneMessage
<1> QED BY <1>1

LEMMA HeardKind ==
  ASSUME Types, NEW s \in Sockets, SocketOK(s), end["client"][s].listening, wire["client"][s] # <<>>,
         NEW r, r = wire["client"][s][1].r, NEW type, type = wire["client"][s][1].type
  PROVE  /\ HeldBy(s) = {r} /\ r \in Requests /\ request[r].st = "asked" /\ Live(r)
         /\ end["client"][s].active
         /\ type = "ENTRIES" => /\ r \in EntriesRequests /\ Len(wire["client"][s]) = 1
                                /\ Broken(s) \/ Silent(s)
         /\ type = "NO_HASHES" => /\ r \in HashesRequests /\ Len(wire["client"][s]) = 1
                                  /\ Broken(s) \/ Silent(s)
         /\ type \in {"HASH", "HASHES"} => r \in HashesRequests /\ ~Refused(s, r)
         /\ type = "CHUNK" => /\ r \in ChunkRequests
                              /\ wire["client"][s] \in {<<Message("CHUNK", r)>>, <<Message("CHUNK", r), Message("DATA", r)>>}
         /\ type = "NO_CHUNK" => /\ r \in ChunkRequests /\ Len(wire["client"][s]) = 1
                                 /\ Broken(s) \/ Silent(s)
         /\ type # "DATA"
<1> DEFINE w == wire["client"][s]
<1>1. Used(s)
  BY DEF Used
<1>2. HeldBy(s) = {r} /\ r \in HeldBy(s) /\ Len(w) \in Nat
  BY <1>1, HeardFor
<1>3. /\ r \in Requests /\ request[r].st = "asked" /\ Live(r)
      /\ r \in EntriesRequests => EntriesOK(s, r)
      /\ r \in HashesRequests => HashesOK(s, r)
      /\ r \in ChunkRequests => ChunkOK(s, r)
  BY <1>2, HolderOK
<1>4. end["client"][s].active
  BY <1>2 DEF SocketOK, HoldOK
<1>5. /\ r \in EntriesRequests \/ r \in HashesRequests \/ r \in ChunkRequests
      /\ ~(r \in EntriesRequests /\ r \in HashesRequests)
      /\ ~(r \in EntriesRequests /\ r \in ChunkRequests)
      /\ ~(r \in HashesRequests /\ r \in ChunkRequests)
  BY <1>3, KindsApart
<1>6. /\ ~Broken(s) => /\ serving[s].entries = NoRequest /\ wire["server"][s] = <<>>
                       /\ Unwritten(s) => serving[s].upload = r
                       /\ serving[s].hashes = <<>> \/ r \in HashesRequests
  BY <1>1, <1>2, ServedFor
<1>7. ~Broken(s) /\ Unwritten(s) => r \in ChunkRequests
  <2>1. serving[s].upload \in ChunkRequests \cup {NoRequest}
    BY SocketTypes
  <2> QED BY <1>6, <2>1 DEF Unwritten
<1>8. ASSUME r \in EntriesRequests PROVE type = "ENTRIES" /\ Len(w) = 1 /\ (Broken(s) \/ Silent(s))
  <2>1. w = <<Message("ENTRIES", r)>>
    BY <1>3, <1>8 DEF EntriesOK
  <2>2. type = "ENTRIES" /\ Len(w) = 1
    BY <2>1 DEF Message
  <2>3. Broken(s) \/ Silent(s)
    BY <1>5, <1>6, <1>7, <1>8 DEF Silent
  <2> QED BY <2>2, <2>3
<1>9. ASSUME r \in HashesRequests
      PROVE  \/ type = "NO_HASHES" /\ Len(w) = 1 /\ (Broken(s) \/ Silent(s))
             \/ type \in {"HASH", "HASHES"} /\ ~Refused(s, r)
  <2>1. HashesOK(s, r)
    BY <1>3, <1>9
  <2>2. CASE Refused(s, r)
    <3>1. w = <<Message("NO_HASHES", r)>>
      BY <2>2 DEF Refused
    <3>2. type = "NO_HASHES" /\ Len(w) = 1
      BY <3>1 DEF Message
    <3>3. Broken(s) \/ serving[s].hashes = <<>>
      BY <2>1, <2>2 DEF HashesOK
    <3> QED BY <1>5, <1>6, <1>7, <1>9, <3>2, <3>3 DEF Silent
  <2>3. CASE ~Refused(s, r)
    <3>1. \A i \in 1..Len(w) : w[i].type = "HASH" \/ (i = 1 /\ Begins(s))
      BY <2>1, <2>3 DEF HashesOK
    <3>2. 1 \in 1..Len(w)
      BY <1>1, <1>2, HeardFor
    <3> QED BY <2>3, <3>1, <3>2 DEF Begins
  <2> QED BY <2>2, <2>3
<1>10. ASSUME r \in ChunkRequests
       PROVE  \/ type = "NO_CHUNK" /\ Len(w) = 1 /\ (Broken(s) \/ Silent(s))
              \/ type = "CHUNK" /\ w \in {<<Message("CHUNK", r)>>, <<Message("CHUNK", r), Message("DATA", r)>>}
  <2>1. /\ w \in {<<Message("NO_CHUNK", r)>>, <<Message("CHUNK", r)>>,
                   <<Message("CHUNK", r), Message("DATA", r)>>}
        /\ ~Broken(s) /\ Unwritten(s) /\ wire["server"][s] = <<>> => w = <<Message("CHUNK", r)>>
    BY <1>3, <1>10 DEF ChunkOK
  <2>2. CASE w = <<Message("NO_CHUNK", r)>>
    <3>1. type = "NO_CHUNK" /\ Len(w) = 1
      BY <2>2 DEF Message
    <3>2. <<Message("NO_CHUNK", r)>>[1].type = "NO_CHUNK" /\ <<Message("CHUNK", r)>>[1].type = "CHUNK"
      BY DEF Message
    <3>3. w # <<Message("CHUNK", r)>>
      BY <2>2, <3>2
    <3>4. Broken(s) \/ Silent(s)
      BY <1>5, <1>6, <1>10, <2>1, <3>3 DEF Silent
    <3> QED BY <3>1, <3>4
  <2>3. CASE w \in {<<Message("CHUNK", r)>>, <<Message("CHUNK", r), Message("DATA", r)>>}
    BY <2>3 DEF Message
  <2> QED BY <2>1, <2>2, <2>3
<1> HIDE DEF w
<1>11. \/ type = "ENTRIES" /\ r \in EntriesRequests
       \/ type \in {"NO_HASHES", "HASH", "HASHES"} /\ r \in HashesRequests
       \/ type \in {"NO_CHUNK", "CHUNK"} /\ r \in ChunkRequests
  BY <1>5, <1>8, <1>9, <1>10
<1>12. /\ type = "ENTRIES" => r \in EntriesRequests /\ Len(w) = 1 /\ (Broken(s) \/ Silent(s))
       /\ type # "DATA"
  BY <1>8, <1>11
<1>13. /\ type = "NO_HASHES" => r \in HashesRequests /\ Len(w) = 1 /\ (Broken(s) \/ Silent(s))
       /\ type \in {"HASH", "HASHES"} => r \in HashesRequests /\ ~Refused(s, r)
  BY <1>9, <1>11
<1>14. /\ type = "NO_CHUNK" => r \in ChunkRequests /\ Len(w) = 1 /\ (Broken(s) \/ Silent(s))
       /\ type = "CHUNK" => /\ r \in ChunkRequests
                            /\ w \in {<<Message("CHUNK", r)>>, <<Message("CHUNK", r), Message("DATA", r)>>}
  BY <1>10, <1>11
<1> QED BY <1>2, <1>3, <1>4, <1>12, <1>13, <1>14 DEF w

LEMMA ReadsIs ==
  ASSUME IInv, NEW s \in Sockets, NEW side \in Sides, NEW type, Reads(side, s, type)
  PROVE  /\ s \in 1..opened /\ end[side][s].listening /\ wire[side][s] # <<>>
         /\ wire[side][s] \in Seq(Messages) /\ Len(wire[side][s]) \in Nat \ {0}
         /\ Head(wire[side][s]) = wire[side][s][1] /\ wire[side][s][1] \in Messages
         /\ wire[side][s][1].type = type /\ ~Gone(side, s)
         /\ Types /\ Pools /\ Fresh /\ (s \notin astray => SocketOK(s))
<1> DEFINE w == wire[side][s]
<1>1. Types /\ Pools /\ Fresh /\ SocketsOK
  BY DEF IInv
<1>2. s \in 1..opened
  BY <1>1, OpenedSocket DEF Reads, Sockets
<1>3. w \in Seq(Messages) /\ w # <<>> /\ Head(w).type = type
  BY <1>1, SocketTypes DEF Reads
<1> HIDE DEF w
<1>4. Len(w) \in Nat \ {0} /\ Head(w) = w[1] /\ w[1] \in Messages
  BY <1>3
<1> QED BY <1>1, <1>2, <1>3, <1>4 DEF Reads, SocketsOK, w

(* The client reads a message or a worker is told to end: what is common.  *)
LEMMA ClientLocal ==
  ASSUME IInv, NEW s \in 1..opened, opened' = opened, pool' = pool, serving' = serving, cut' = cut,
         RequestTypes', RequestOnly(s), NoNewHolder, Others("client", s), Pools',
         closing' \in [Sides -> SUBSET Sockets],
         wire' \in [Sides -> [Sockets -> Seq(Messages)]],
         \A t \in Sockets \ {s}, any \in Sides : wire'[any][t] = wire[any][t],
         astray \subseteq astray', astray' \subseteq astray \cup {s}, faults' \in 0..MaxFaults
  PROVE  Local(s) /\ (Broken(s) => Broken(s)') /\ EndKept("server", s) /\ s \in Sockets
<1>1. Types
  BY DEF IInv
<1>2. \A side \in Sides : Pooled(side)' \subseteq Pooled(side)
  BY DEF Pooled
<1>3. Breaks
  BY <1>1, <1>2, BreaksOn
<1>4. "client" \in Sides /\ "server" \in Sides \ {"client"}
  BY DEF Sides
<1>5. EndKept("server", s)
  BY <1>4 DEF Others, EndKept
<1>6. s \in Sockets
  BY <1>1, OpenedSocket
<1>7. serving' \in [Sockets -> Works] /\ pool' \in [Sides -> Seq(Sockets)] /\ cut' \subseteq 1..opened
      /\ astray' \subseteq 1..opened
  BY <1>1 DEF Types
<1> QED BY <1>3, <1>4, <1>5, <1>6, <1>7 DEF Local, Breaks

-----------------------------------------------------------------------------
(* The steps of the client.                                                *)

EndsMoved(side, s) ==
  Others(side, s) /\ closing' \in [Sides -> SUBSET Sockets] /\ Pools'

LEMMA FinishMoves ==
  ASSUME Types, Pools, pool' = pool, opened' = opened, NEW side \in Sides, NEW s \in Sockets, NEW e,
         But(e, side, s), NoMoreReusable(side, s, e), NEW close \in BOOLEAN, Finish(side, e, s, close)
  PROVE  EndsMoved(side, s) /\ Finished(e[s], close, end'[side][s])
<1>1. /\ end \in [Sides -> [Sockets -> Ends]] /\ closing \in [Sides -> SUBSET Sockets]
      /\ pool \in [Sides -> Seq(Sockets)]
  BY DEF Types
<1> QED BY <1>1, FinishIs, FinishPools DEF EndsMoved

LEMMA BecomesMoves ==
  ASSUME Types, Pools, pool' = pool, opened' = opened, NEW side \in Sides, NEW s \in Sockets, NEW e,
         But(e, side, s), NoMoreReusable(side, s, e), NEW S \in SUBSET Sockets, Becomes(side, e, S)
  PROVE  EndsMoved(side, s) /\ Became(side, e, S)
<1>1. end \in [Sides -> [Sockets -> Ends]] /\ closing \in [Sides -> SUBSET Sockets]
  BY DEF Types
<1> QED BY <1>1, BecomesIs, BecomesPools DEF EndsMoved

(* The same for the ends that are only touched. *)
LEMMA BecomesOnly ==
  ASSUME Types, Pools, pool' = pool, opened' = opened, NEW side \in Sides, NEW s \in Sockets, NEW e,
         But(e, side, s), NoMoreReusable(side, s, e), Becomes(side, e, {})
  PROVE  EndsMoved(side, s) /\ end'[side][s] = e[s]
<1>1. PICK S \in SUBSET Sockets : S = {} /\ Becomes(side, e, S)
  OBVIOUS
<1>2. EndsMoved(side, s) /\ Became(side, e, S)
  BY <1>1, BecomesMoves
<1> QED BY <1>1, <1>2 DEF Became

LEMMA ClientRests ==
  ASSUME IInv, NEW s \in 1..opened, opened' = opened, pool' = pool, serving' = serving, cut' = cut,
         NEW R, Ended(R, s), EndsMoved("client", s),
         wire' \in [Sides -> [Sockets -> Seq(Messages)]], wire'["server"][s] = wire["server"][s],
         \A t \in Sockets \ {s}, any \in Sides : wire'[any][t] = wire[any][t],
         astray \subseteq astray', astray' \subseteq astray \cup {s}, faults' \in 0..MaxFaults,
         s \notin astray' => HeldBy(s) \subseteq R,
         s \notin astray' /\ end'["client"][s].listening =>
           wire'["client"][s] = <<>> /\ (Broken(s) \/ Silent(s))
  PROVE  IInv'
<1>1. Types /\ Pools /\ SocketsOK
  BY DEF IInv
<1>2. s \in Sockets /\ "client" \in Sides
  BY <1>1, OpenedSocket DEF Sides
<1>3. Others("client", s) /\ closing' \in [Sides -> SUBSET Sockets] /\ Pools'
  BY DEF EndsMoved
<1>4. RequestTypes' /\ RequestOnly(s) /\ NoNewHolder /\ HeldBy(s)' = HeldBy(s) \ R
  BY DEF Ended
<1>5. Local(s) /\ (Broken(s) => Broken(s)') /\ EndKept("server", s)
  BY <1>3, <1>4, ClientLocal
<1>6. ASSUME s \notin astray' PROVE SocketOK(s)'
  <2>1. s \notin astray
    BY <1>6
  <2>2. SocketOK(s)
    BY <1>1, <2>1 DEF SocketsOK
  <2>3. HeldBy(s)' = {}
    BY <1>4, <1>6
  <2>4. serving'[s] = serving[s] /\ (Broken(s) => Broken(s)') /\ EndKept("server", s)
    BY <1>5
  <2> QED BY <1>1, <1>2, <1>6, <2>2, <2>3, <2>4, QuietOK
<1> QED BY <1>5, <1>6, StepKeeps

LEMMA WaitingHold ==
  ASSUME NEW s, NEW kind
  PROVE  Waiting(s, kind) \in SUBSET HeldBy(s) /\ Waiting(s, kind) = {r \in HeldBy(s) : r \in kind /\ request[r].st = "asked"}
BY DEF Waiting

LEMMA NoneLeft ==
  ASSUME NEW S, NEW q \in Seq(S), Len(q) = 0
  PROVE  q = <<>>
OBVIOUS

(* A message is read, and the requests of R that wait for it are done.     *)
Hears(s, type, R) ==
  /\ Reads("client", s, type) /\ Done(R, Head(wire["client"][s])) /\ wire' = Taken("client", s)
  /\ R \subseteq HeldBy(s)
  /\ opened' = opened /\ pool' = pool /\ serving' = serving /\ cut' = cut
  /\ faults' = faults /\ astray' = astray

LEMMA HeardRests ==
  ASSUME IInv, NEW s \in Sockets, NEW type, NEW R, Hears(s, type, R), EndsMoved("client", s),
         s \notin astray => HeldBy(s) \subseteq R /\ Len(wire["client"][s]) = 1 /\ (Broken(s) \/ Silent(s))
  PROVE  IInv'
<1> DEFINE m == wire["client"][s][1]
<1>1. "client" \in Sides /\ "server" \in Sides \ {"client"}
  BY DEF Sides
<1>2. /\ s \in 1..opened /\ wire["client"][s] # <<>> /\ m \in Messages /\ Head(wire["client"][s]) = m
      /\ Types
  BY <1>1, ReadsIs DEF Hears
<1>3. Ended(R, s)
  BY <1>2, DoneIs DEF Hears
<1>4. /\ Wired(s, "client", "server", Tail(wire["client"][s]))
      /\ Len(Tail(wire["client"][s])) = Len(wire["client"][s]) - 1
      /\ Tail(wire["client"][s]) \in Seq(Messages)
  BY <1>1, <1>2, TakenIs DEF Hears
<1>5. ASSUME s \notin astray PROVE wire'["client"][s] = <<>>
  <2>1. wire'["client"][s] = Tail(wire["client"][s]) /\ Len(Tail(wire["client"][s])) = 0
    BY <1>4, <1>5 DEF Wired
  <2> QED BY <1>4, <2>1, NoneLeft
<1>6. faults' \in 0..MaxFaults
  BY <1>2 DEF Types, Hears
<1> QED BY <1>2, <1>3, <1>4, <1>5, <1>6, ClientRests DEF Wired, Hears

LEMMA ClientHears ==
  ASSUME IInv, NEW s \in Sockets, NEW type, Reads("client", s, type), NEW m, m = wire["client"][s][1]
  PROVE  /\ "client" \in Sides /\ "server" \in Sides \ {"client"}
         /\ s \in 1..opened /\ end["client"][s].listening /\ wire["client"][s] # <<>>
         /\ m \in Messages /\ m.type = type /\ Head(wire["client"][s]) = m
         /\ Types /\ Pools
         /\ But(Woken("client", s), "client", s) /\ NoMoreReusable("client", s, Woken("client", s))
         /\ Is(Woken("client", s)[s], TRUE, TRUE, end["client"][s].nbHash)
         /\ end["client"][s].nbHash \in Int
<1>1. "client" \in Sides /\ "server" \in Sides \ {"client"}
  BY DEF Sides
<1>2. /\ s \in 1..opened /\ end["client"][s].listening /\ wire["client"][s] # <<>>
      /\ m \in Messages /\ m.type = type /\ Head(wire["client"][s]) = m
      /\ Types /\ Pools
  BY <1>1, ReadsIs
<1>3. end \in [Sides -> [Sockets -> Ends]]
  BY <1>2 DEF Types
<1>4. /\ But(Woken("client", s), "client", s)
      /\ Is(Woken("client", s)[s], TRUE, end["client"][s].listening, end["client"][s].nbHash)
  BY <1>1, <1>3, WokenIs
<1>5. end["client"][s].listening = TRUE /\ end["client"][s].nbHash \in Int
  BY <1>1, <1>2, <1>3, EndsTyped
<1> QED BY <1>1, <1>2, <1>4, <1>5 DEF NoMoreReusable, Is

LEMMA ReadEntriesKeeps ==
  ASSUME IInv, NEW s \in Sockets, ReadEntries(s)
  PROVE  IInv'
<1> DEFINE m == wire["client"][s][1]
           R == Waiting(s, EntriesRequests)
           e == Woken("client", s)
<1>1. /\ Reads("client", s, "ENTRIES") /\ Finish("client", e, s, FALSE) /\ pool' = pool /\ opened' = opened
      /\ Hears(s, "ENTRIES", R)
  BY WaitingHold DEF ReadEntries, history, Hears
<1>2. /\ "client" \in Sides /\ s \in 1..opened /\ end["client"][s].listening /\ wire["client"][s] # <<>>
      /\ m.type = "ENTRIES" /\ Types /\ Pools
      /\ But(e, "client", s) /\ NoMoreReusable("client", s, e)
  <2>1. /\ s \in 1..opened /\ end["client"][s].listening /\ wire["client"][s] # <<>>
        /\ m.type = "ENTRIES" /\ Types /\ Pools
    <3>1. "client" \in Sides
      BY DEF Sides
    <3> QED BY <1>1, <3>1, ReadsIs
  <2>2. "client" \in Sides /\ But(e, "client", s) /\ NoMoreReusable("client", s, e)
    <3> PICK x : x = wire["client"][s][1]
      OBVIOUS
    <3> QED BY <1>1, ClientHears
  <2> QED BY <2>1, <2>2
<1>3. EndsMoved("client", s)
  BY <1>1, <1>2, FinishMoves
<1>4. ASSUME s \notin astray PROVE HeldBy(s) \subseteq R /\ Len(wire["client"][s]) = 1 /\ (Broken(s) \/ Silent(s))
  <2>1. SocketOK(s)
    BY <1>2, <1>4 DEF IInv, SocketsOK
  <2> QED BY <1>2, <2>1, HeardKind, WaitingHold
<1> HIDE DEF R
<1> QED BY <1>1, <1>3, <1>4, HeardRests

LEMMA ReadNoChunkKeeps ==
  ASSUME IInv, NEW s \in Sockets, ReadNoChunk(s)
  PROVE  IInv'
<1> DEFINE m == wire["client"][s][1]
           R == Waiting(s, ChunkRequests)
           e == Woken("client", s)
<1>1. /\ Reads("client", s, "NO_CHUNK") /\ pool' = pool /\ opened' = opened
      /\ Becomes("client", e, {}) \/ Finish("client", e, s, FALSE)
      /\ Hears(s, "NO_CHUNK", R)
  BY WaitingHold DEF ReadNoChunk, history, Hears
<1>2. /\ "client" \in Sides /\ s \in 1..opened /\ end["client"][s].listening /\ wire["client"][s] # <<>>
      /\ m.type = "NO_CHUNK" /\ Types /\ Pools
      /\ But(e, "client", s) /\ NoMoreReusable("client", s, e)
  <2>1. /\ s \in 1..opened /\ end["client"][s].listening /\ wire["client"][s] # <<>>
        /\ m.type = "NO_CHUNK" /\ Types /\ Pools
    <3>1. "client" \in Sides
      BY DEF Sides
    <3> QED BY <1>1, <3>1, ReadsIs
  <2>2. "client" \in Sides /\ But(e, "client", s) /\ NoMoreReusable("client", s, e)
    <3> PICK x : x = wire["client"][s][1]
      OBVIOUS
    <3> QED BY <1>1, ClientHears
  <2> QED BY <2>1, <2>2
<1>3. EndsMoved("client", s)
  BY <1>1, <1>2, FinishMoves, BecomesOnly
<1>4. ASSUME s \notin astray PROVE HeldBy(s) \subseteq R /\ Len(wire["client"][s]) = 1 /\ (Broken(s) \/ Silent(s))
  <2>1. SocketOK(s)
    BY <1>2, <1>4 DEF IInv, SocketsOK
  <2> QED BY <1>2, <2>1, HeardKind, WaitingHold
<1> HIDE DEF R
<1> QED BY <1>1, <1>3, <1>4, HeardRests

LEMMA CountedIs ==
  ASSUME IInv, NEW s \in Sockets, NEW type, Reads("client", s, type), NEW n \in Int,
         NEW e, e = Counts(Woken("client", s), s, n)
  PROVE  But(e, "client", s) /\ NoMoreReusable("client", s, e) /\ Is(e[s], TRUE, TRUE, n)
<1>1. /\ "client" \in Sides /\ But(Woken("client", s), "client", s)
      /\ Is(Woken("client", s)[s], TRUE, TRUE, end["client"][s].nbHash)
  BY ClientHears
<1>2. But(e, "client", s) /\ Is(e[s], Woken("client", s)[s].active, Woken("client", s)[s].listening, n)
  BY <1>1, CountsIs
<1> QED BY <1>1, <1>2 DEF Is, NoMoreReusable

LEMMA ReadNoHashesKeeps ==
  ASSUME IInv, NEW s \in Sockets, ReadNoHashes(s)
  PROVE  IInv'
<1> DEFINE m == wire["client"][s][1]
           R == Waiting(s, HashesRequests)
           e == Counts(Woken("client", s), s, 0)
<1>1. /\ Reads("client", s, "NO_HASHES") /\ pool' = pool /\ opened' = opened
      /\ Becomes("client", e, {}) \/ Finish("client", e, s, FALSE)
      /\ Hears(s, "NO_HASHES", R)
  BY WaitingHold DEF ReadNoHashes, history, Hears
<1> HIDE DEF R
<1>2. /\ "client" \in Sides /\ s \in 1..opened /\ end["client"][s].listening /\ wire["client"][s] # <<>>
      /\ m.type = "NO_HASHES" /\ Types /\ Pools
  <2>1. m = wire["client"][s][1]
    OBVIOUS
  <2> HIDE DEF e, m
  <2> QED BY <1>1, <2>1, ClientHears
<1>3. But(e, "client", s) /\ NoMoreReusable("client", s, e)
  <2>1. e = Counts(Woken("client", s), s, 0) /\ 0 \in Int
    OBVIOUS
  <2> HIDE DEF e
  <2> QED BY <1>1, <2>1, CountedIs
<1>4. EndsMoved("client", s)
  <2> HIDE DEF e
  <2> QED BY <1>1, <1>2, <1>3, FinishMoves, BecomesOnly
<1>5. ASSUME s \notin astray PROVE HeldBy(s) \subseteq R /\ Len(wire["client"][s]) = 1 /\ (Broken(s) \/ Silent(s))
  <2>1. SocketOK(s)
    BY <1>2, <1>5 DEF IInv, SocketsOK
  <2> QED BY <1>2, <2>1, HeardKind, WaitingHold DEF R
<1> QED BY <1>1, <1>4, <1>5, HeardRests

(* The end of the client, when its transaction is finished. *)
LEMMA EndIs ==
  ASSUME IInv, NEW s \in Sockets, NEW side \in Sides
  PROVE  But(end[side], side, s) /\ NoMoreReusable(side, s, end[side]) /\ end[side][s] \in Ends
<1>1. end[side] \in [Sockets -> Ends]
  BY DEF IInv, Types
<1> QED BY <1>1 DEF But, NoMoreReusable

(* Release() of a request that is under way. *)
LEMMA ReleaseIs ==
  ASSUME IInv, NEW r \in Requests, Live(r), NEW close \in BOOLEAN, Release(r, end["client"], close),
         opened' = opened, pool' = pool, NEW s, s = request[r].socket
  PROVE  /\ s \in 1..opened /\ s \in Sockets /\ Ended({r}, s) /\ EndsMoved("client", s)
         /\ Finished(end["client"][s], close, end'["client"][s])
         /\ s \notin astray => SocketOK(s) /\ HeldBy(s) = {r}
         /\ s \notin astray /\ close => ~end'["client"][s].listening
<1>1. Types /\ Pools /\ SocketsOK /\ "client" \in Sides
  BY DEF IInv, Sides
<1>2. s \in 1..opened /\ s \in Sockets /\ Ended({r}, s) /\ r \in HeldBy(s)
  BY <1>1, ReleasedIs DEF Release
<1>3. Finish("client", end["client"], s, close)
  BY DEF Release
<1>4. EndsMoved("client", s) /\ Finished(end["client"][s], close, end'["client"][s])
  BY <1>1, <1>2, <1>3, EndIs, FinishMoves
<1>5. s \notin astray => SocketOK(s)
  BY <1>1, <1>2 DEF SocketsOK
<1>6. s \notin astray => HeldBy(s) = {r}
  BY <1>1, <1>2, <1>5, HolderOK
<1>7. ASSUME s \notin astray, close PROVE ~end'["client"][s].listening
  <2>1. end["client"][s].listening => end["client"][s].active
    BY <1>5, <1>6, <1>7 DEF SocketOK, HoldOK
  <2>2. end["client"][s] \in Ends
    BY <1>1, <1>2, EndIs
  <2> QED BY <1>4, <1>7, <2>1, <2>2, ClosedIs DEF Finished
<1> QED BY <1>2, <1>4, <1>5, <1>6, <1>7

LEMMA StreamEndsKeeps ==
  ASSUME IInv, NEW r \in Requests, StreamEnds(r)
  PROVE  IInv'
<1> DEFINE s == request[r].socket
<1>1. /\ Live(r) /\ request[r].st = "streaming" /\ wire["client"][s] # <<>> /\ wire' = Taken("client", s)
      /\ Release(r, end["client"], FALSE)
      /\ opened' = opened /\ pool' = pool /\ serving' = serving /\ cut' = cut
      /\ faults' = faults /\ astray' = astray
  BY DEF StreamEnds, history, Live
<1>2. /\ s \in 1..opened /\ s \in Sockets /\ Ended({r}, s) /\ EndsMoved("client", s)
      /\ s \notin astray => SocketOK(s) /\ HeldBy(s) = {r}
  <2> HIDE DEF s
  <2>1. s = request[r].socket /\ FALSE \in BOOLEAN
    BY DEF s
  <2> QED BY <1>1, <2>1, ReleaseIs
<1> HIDE DEF s
<1>3. Types /\ "client" \in Sides /\ "server" \in Sides \ {"client"}
  BY DEF IInv, Sides
<1>4. /\ Wired(s, "client", "server", Tail(wire["client"][s]))
      /\ Len(Tail(wire["client"][s])) = Len(wire["client"][s]) - 1
      /\ Tail(wire["client"][s]) \in Seq(Messages)
  BY <1>1, <1>2, <1>3, TakenIs
<1>5. ASSUME s \notin astray PROVE wire'["client"][s] = <<>> /\ (Broken(s) \/ Silent(s))
  <2>1. r \in HeldBy(s) /\ SocketOK(s) /\ Used(s)
    BY <1>2, <1>5 DEF Used
  <2>2. ChunkOK(s, r) /\ r \in ChunkRequests
    BY <1>1, <1>2, <1>3, <2>1, HolderOK
  <2>3. wire["client"][s] = <<Message("DATA", r)>>
    BY <1>1, <2>2 DEF ChunkOK
  <2>4. wire'["client"][s] = Tail(wire["client"][s]) /\ Len(Tail(wire["client"][s])) = 0
    BY <1>4, <2>3 DEF Wired
  <2>5. wire'["client"][s] = <<>>
    BY <1>4, <2>4, NoneLeft
  <2>6. ~Broken(s) => /\ serving[s].entries = NoRequest /\ wire["server"][s] = <<>>
                      /\ serving[s].hashes = <<>> \/ r \in HashesRequests
    BY <1>1, <1>2, <1>3, <1>5, <2>1, ServedFor
  <2>7. ~Broken(s) => ~Unwritten(s)
    BY <1>1, <2>2 DEF ChunkOK
  <2>8. r \notin HashesRequests
    BY <2>2, KindsApart
  <2> QED BY <2>5, <2>6, <2>7, <2>8 DEF Silent
<1>6. faults' \in 0..MaxFaults
  BY <1>1, <1>3 DEF Types
<1> QED BY <1>1, <1>2, <1>4, <1>5, <1>6, ClientRests DEF Wired

(* The socket is closed, or not trusted any more. *)
LEMMA CloseKeeps ==
  ASSUME IInv, NEW r \in Requests, Live(r), NEW close \in BOOLEAN, Release(r, end["client"], close),
         opened' = opened, pool' = pool, serving' = serving, wire' = wire, cut' = cut,
         faults' \in 0..MaxFaults, astray \subseteq astray', astray' \subseteq astray \cup {request[r].socket},
         close \/ request[r].socket \in astray'
  PROVE  IInv'
<1> DEFINE s == request[r].socket
<1>1. /\ s \in 1..opened /\ s \in Sockets /\ Ended({r}, s) /\ EndsMoved("client", s)
      /\ s \notin astray => SocketOK(s) /\ HeldBy(s) = {r}
      /\ s \notin astray /\ close => ~end'["client"][s].listening
  <2>1. s = request[r].socket
    OBVIOUS
  <2> HIDE DEF s
  <2> QED BY <2>1, ReleaseIs
<1>2. wire' \in [Sides -> [Sockets -> Seq(Messages)]]
  BY DEF IInv, Types
<1>3. s \notin astray' => s \notin astray /\ close
  OBVIOUS
<1>4. astray' \subseteq astray \cup {s}
  OBVIOUS
<1> HIDE DEF s
<1>5. s \notin astray' => HeldBy(s) \subseteq {r} /\ ~end'["client"][s].listening
  BY <1>1, <1>3
<1> QED BY <1>1, <1>2, <1>4, <1>5, ClientRests

LEMMA StreamAbortsKeeps ==
  ASSUME IInv, NEW r \in Requests, StreamAborts(r)
  PROVE  IInv'
<1>1. /\ Live(r) /\ Release(r, end["client"], TRUE) /\ opened' = opened /\ pool' = pool
      /\ serving' = serving /\ wire' = wire /\ cut' = cut /\ faults' = faults /\ astray' = astray
  BY DEF StreamAborts, work, history, Live
<1>2. faults' \in 0..MaxFaults
  BY <1>1 DEF IInv, Types
<1> QED BY <1>1, <1>2, CloseKeeps

LEMMA FaultCounted ==
  ASSUME IInv, Fault
  PROVE  faults' \in 0..MaxFaults
BY BoundsAssumption DEF Fault, IInv, Types

LEMMA ChunkTimeoutKeeps ==
  ASSUME IInv, NEW r \in Requests, ChunkTimeout(r)
  PROVE  IInv'
<1>1. /\ Fault /\ Live(r) /\ Release(r, end["client"], TRUE) /\ opened' = opened /\ pool' = pool
      /\ serving' = serving /\ wire' = wire /\ cut' = cut /\ astray' = astray
  BY DEF ChunkTimeout, work, Live
<1> QED BY <1>1, FaultCounted, CloseKeeps

LEMMA GiveUpKeeps ==
  ASSUME IInv, NEW r \in Requests, GiveUp(r)
  PROVE  IInv'
<1>1. /\ Fault /\ Live(r) /\ Release(r, end["client"], FALSE) /\ opened' = opened /\ pool' = pool
      /\ serving' = serving /\ wire' = wire /\ cut' = cut /\ astray' = astray \cup {request[r].socket}
  BY DEF GiveUp, work, Live
<1>2. FALSE \in BOOLEAN /\ astray \subseteq astray' /\ request[r].socket \in astray'
  BY <1>1
<1> QED BY <1>1, <1>2, FaultCounted, CloseKeeps

(* Some of the requests that hold the socket are changed. *)
LEMMA ChangedIs ==
  ASSUME Types, opened' = opened, NEW s \in 1..opened, NEW R \in SUBSET HeldBy(s),
         request' \in [Requests -> States],
         \A q \in Requests \ R : request'[q] = request[q],
         \A q \in R : /\ request'[q].socket = request[q].socket
                      /\ request'[q].st = "streaming" => q \in ChunkRequests
                      /\ Live(q)' /\ q \in HashesRequests => request'[q].left >= 1
  PROVE  RequestTypes' /\ RequestOnly(s) /\ NoNewHolder
<1>1. R \subseteq Requests /\ \A q \in R : Live(q) /\ request[q].socket = s
  BY DEF HeldBy
<1>2. RequestTypes'
  BY <1>1 DEF Types, RequestTypes, Live
<1>3. RequestOnly(s) /\ NoNewHolder
  BY <1>1 DEF RequestOnly, NoNewHolder, Live
<1> QED BY <1>2, <1>3

(* The client has read the head of its wire, and the request stays.        *)
LEMMA HeardStays ==
  ASSUME IInv, NEW s \in Sockets, NEW type, Reads("client", s, type), wire' = Taken("client", s),
         opened' = opened, pool' = pool, serving' = serving, cut' = cut, faults' = faults, astray' = astray,
         RequestTypes', RequestOnly(s), NoNewHolder, EndsMoved("client", s),
         s \notin astray => HeldBy(s)' = HeldBy(s) /\ HoldOK(s)' /\ RequestsOK(s)'
  PROVE  IInv'
<1>1. /\ "client" \in Sides /\ "server" \in Sides \ {"client"}
      /\ s \in 1..opened /\ end["client"][s].listening /\ wire["client"][s] # <<>> /\ Types
  BY ClientHears
<1>2. /\ Wired(s, "client", "server", Tail(wire["client"][s]))
      /\ Len(Tail(wire["client"][s])) = Len(wire["client"][s]) - 1 /\ Len(wire["client"][s]) \in Nat
      /\ \A i \in 1..Len(wire["client"][s]) - 1 : Tail(wire["client"][s])[i] = wire["client"][s][i + 1]
  BY <1>1, TakenIs
<1>3. faults' \in 0..MaxFaults
  BY <1>1 DEF Types
<1>4. Local(s) /\ (Broken(s) => Broken(s)') /\ EndKept("server", s)
  BY <1>1, <1>2, <1>3, ClientLocal DEF EndsMoved, Wired
<1>5. ASSUME s \notin astray PROVE SocketOK(s)'
  <2>1. SocketOK(s) /\ Used(s)
    BY <1>1, <1>5 DEF IInv, SocketsOK, Used
  <2>2. ServerOK(s)'
    BY <1>1, <1>2, <1>4, <2>1, ServerKept DEF SocketOK, Wired
  <2>3. /\ \A i \in 1..Len(wire["client"][s]) : wire["client"][s][i].r \in HeldBy(s)
        /\ ~Broken(s) =>
             /\ serving[s].entries \in HeldBy(s) \cup {NoRequest}
             /\ \A i \in 1..Len(serving[s].hashes) : serving[s].hashes[i] \in HeldBy(s)
             /\ Unwritten(s) => serving[s].upload \in HeldBy(s)
             /\ wire["server"][s] = <<>> /\ serving[s].entries = NoRequest
             /\ serving[s].upload # NoRequest /\ HeldBy(s) # {} => serving[s].upload \in HeldBy(s)
    BY <1>1, <2>1 DEF SocketOK, AwaitedOK
  <2>4. wire'["client"][s] = Tail(wire["client"][s]) /\ wire'["server"][s] = wire["server"][s]
    BY <1>2 DEF Wired
  <2>5. \A i \in 1..Len(wire'["client"][s]) : wire'["client"][s][i].r \in HeldBy(s)
    <3> TAKE i \in 1..Len(wire'["client"][s])
    <3>1. Len(wire'["client"][s]) = Len(wire["client"][s]) - 1
      BY <1>2, <2>4
    <3>2. i \in 1..Len(wire["client"][s]) - 1
      BY <3>1
    <3>3. i + 1 \in 1..Len(wire["client"][s])
      BY <1>2, <3>2
    <3> QED BY <1>2, <2>3, <2>4, <3>2, <3>3
  <2>6. Unwritten(s)' = Unwritten(s) /\ HeldBy(s)' = HeldBy(s)
    BY <1>5 DEF Unwritten
  <2>7. AwaitedOK(s)'
    BY <1>4, <2>3, <2>4, <2>5, <2>6 DEF AwaitedOK
  <2> QED BY <1>5, <2>2, <2>7 DEF SocketOK
<1> QED BY <1>4, <1>5, StepKeeps

LEMMA SameRequests ==
  ASSUME Types, opened' = opened, request' = request, NEW s
  PROVE  /\ RequestTypes' /\ RequestOnly(s) /\ NoNewHolder
         /\ HeldBy(s)' = HeldBy(s)
<1>1. RequestTypes
  BY DEF Types
<1> QED BY <1>1 DEF RequestTypes, RequestOnly, NoNewHolder, Live, HeldBy

LEMMA ReadHashesKeeps ==
  ASSUME IInv, NEW s \in Sockets, ReadHashes(s)
  PROVE  IInv'
<1> DEFINE m == wire["client"][s][1]
           e == Counts(Woken("client", s), s, NbHash)
           w == wire["client"][s]
<1>1. /\ Reads("client", s, "HASHES") /\ Becomes("client", e, {}) /\ wire' = Taken("client", s)
      /\ request' = request /\ opened' = opened /\ pool' = pool /\ serving' = serving /\ cut' = cut
      /\ faults' = faults /\ astray' = astray
  BY DEF ReadHashes, history
<1>2. But(e, "client", s) /\ NoMoreReusable("client", s, e) /\ Is(e[s], TRUE, TRUE, NbHash)
  <2>1. e = Counts(Woken("client", s), s, NbHash) /\ NbHash \in Int
    BY BoundsAssumption
  <2> HIDE DEF e
  <2> QED BY <1>1, <2>1, CountedIs
<1>3. /\ "client" \in Sides /\ "server" \in Sides \ {"client"}
      /\ s \in 1..opened /\ end["client"][s].listening /\ w # <<>> /\ m.type = "HASHES" /\ Types /\ Pools
  <2>1. m = wire["client"][s][1]
    OBVIOUS
  <2> HIDE DEF e, m
  <2> QED BY <1>1, <2>1, ClientHears
<1> HIDE DEF e
<1>4. EndsMoved("client", s) /\ end'["client"][s] = e[s]
  BY <1>1, <1>2, <1>3, BecomesOnly
<1>5. RequestTypes' /\ RequestOnly(s) /\ NoNewHolder /\ HeldBy(s)' = HeldBy(s)
  BY <1>1, <1>3, SameRequests
<1>6. /\ wire'["client"][s] = Tail(w) /\ wire'["server"][s] = wire["server"][s]
      /\ Len(Tail(w)) = Len(w) - 1 /\ Len(w) \in Nat \ {0}
      /\ \A i \in 1..Len(w) - 1 : Tail(w)[i] = w[i + 1]
  BY <1>1, <1>3, TakenIs DEF Wired
<1>7. ASSUME s \notin astray PROVE HoldOK(s)' /\ RequestsOK(s)'
  <2>1. SocketOK(s)
    BY <1>3, <1>7 DEF IInv, SocketsOK
  <2> PICK r : r = m.r
    OBVIOUS
  <2>2. /\ HeldBy(s) = {r} /\ request[r].st = "asked" /\ r \in HashesRequests /\ ~Refused(s, r)
        /\ r \in Requests
    BY <1>3, <2>1, HeardKind
  <2>3. HashesOK(s, r) /\ Begins(s) /\ request[r].left = NbHash
    BY <1>3, <2>1, <2>2, HolderOK DEF Begins, HashesOK
  <2>4. Broken(s) => Broken(s)'
    <3>1. \A side \in Sides : Pooled(side)' \subseteq Pooled(side)
      BY <1>1 DEF Pooled
    <3> QED BY <1>1, <1>3, <1>5, <3>1, BreaksOn DEF Breaks
  <2> HIDE DEF m, w
  <2>5. \A i \in 1..Len(Tail(w)) : Tail(w)[i].type = "HASH"
    <3> TAKE i \in 1..Len(Tail(w))
    <3>1. i \in 1..Len(w) - 1 /\ i + 1 \in 1..Len(w) /\ i + 1 # 1
      BY <1>6
    <3> QED BY <1>6, <2>2, <2>3, <3>1 DEF HashesOK, w
  <2>6. ~Begins(s)' /\ ~Refused(s, r)' /\ Listed(s)' = Listed(s) /\ Listed(s) = Len(w) - 1
    <3>1. Tail(w) # <<>> => 1 \in 1..Len(Tail(w))
      <4>1. w \in Seq(Messages)
        BY <1>3, SocketTypes DEF w
      <4>2. Tail(w) \in Seq(Messages)
        BY <1>3, <4>1
      <4> QED BY <4>2
    <3>2. ~Begins(s)'
      BY <1>6, <2>5, <3>1 DEF Begins
    <3>3. ~Refused(s, r)'
      <4>1. Tail(w) # <<Message("NO_HASHES", r)>>
        BY <2>5, OnlyHashes
      <4> QED BY <1>6, <4>1 DEF Refused
    <3>4. Listed(s) = Len(w) - 1
      BY <2>3 DEF Listed, w
    <3>5. Listed(s)' = Len(w) - 1
      BY <1>6, <3>2 DEF Listed
    <3> QED BY <3>2, <3>3, <3>4, <3>5
  <2>7. HashesOK(s, r)'
    <3>1. end'["client"][s].nbHash = NbHash /\ serving'[s] = serving[s] /\ request'[r] = request[r]
      BY <1>1, <1>2, <1>4 DEF Is
    <3>2. end'["server"][s].listening => end["server"][s].listening
      BY <1>3, <1>4 DEF EndsMoved, Others
    <3>3. ~Broken(s) => wire["server"][s] = <<>>
      BY <1>3, <2>1, <2>2, ServedFor DEF Used, w
    <3>4. wire'["server"][s] = wire["server"][s] /\ request[r].left \in Nat
      BY <1>3, <1>6, <2>2 DEF Types, RequestTypes, States
    <3>5. /\ Listed(s) <= request[r].left
          /\ ~Broken(s) => Listed(s) + Len(serving[s].hashes) <= request[r].left
          /\ ~Broken(s) /\ end["server"][s].listening /\ wire["server"][s] = <<>>
               => Listed(s) + Len(serving[s].hashes) = request[r].left
      BY <2>2, <2>3 DEF HashesOK
    <3>6. \A i \in 1..Len(wire'["client"][s]) : wire'["client"][s][i].type = "HASH"
      BY <1>6, <2>5
    <3> QED BY <2>3, <2>4, <2>6, <3>1, <3>2, <3>3, <3>4, <3>5, <3>6 DEF HashesOK
  <2>8. RequestsOK(s)'
    BY <1>5, <2>2, <2>7, KindsApart DEF RequestsOK
  <2>9. HoldOK(s)'
    BY <1>1, <1>2, <1>4, <1>5, <2>2 DEF HoldOK, Is
  <2> QED BY <2>8, <2>9
<1> QED BY <1>1, <1>4, <1>5, <1>7, HeardStays

LEMMA ReadChunkKeeps ==
  ASSUME IInv, NEW s \in Sockets, ReadChunk(s)
  PROVE  IInv'
<1> DEFINE m == wire["client"][s][1]
           R == Waiting(s, ChunkRequests)
           e == IF R = {} THEN Woken("client", s) ELSE Deaf(Woken("client", s), s)
           w == wire["client"][s]
<1>1. /\ Reads("client", s, "CHUNK") /\ Becomes("client", e, {}) /\ wire' = Taken("client", s)
      /\ request' = [q \in Requests |-> IF q \notin R THEN request[q]
           ELSE [request[q] EXCEPT !.st = "streaming", !.answer = Head(w).r]]
      /\ opened' = opened /\ pool' = pool /\ serving' = serving /\ cut' = cut
      /\ faults' = faults /\ astray' = astray
  BY DEF ReadChunk, history
<1>2. /\ "client" \in Sides /\ "server" \in Sides \ {"client"}
      /\ s \in 1..opened /\ end["client"][s].listening /\ w # <<>> /\ m.type = "CHUNK" /\ m \in Messages
      /\ Head(w) = m /\ Types /\ Pools
      /\ But(Woken("client", s), "client", s) /\ NoMoreReusable("client", s, Woken("client", s))
      /\ Is(Woken("client", s)[s], TRUE, TRUE, end["client"][s].nbHash)
  <2>1. "client" \in Sides /\ "server" \in Sides \ {"client"}
    BY DEF Sides
  <2>2. /\ s \in 1..opened /\ end["client"][s].listening /\ w # <<>> /\ m.type = "CHUNK" /\ m \in Messages
        /\ Head(w) = m /\ Types /\ Pools
    BY <1>1, <2>1, ReadsIs
  <2>3. /\ But(Woken("client", s), "client", s) /\ NoMoreReusable("client", s, Woken("client", s))
        /\ Is(Woken("client", s)[s], TRUE, TRUE, end["client"][s].nbHash)
    BY <1>1, ClientHears
  <2> QED BY <2>1, <2>2, <2>3
<1>3. /\ But(e, "client", s) /\ NoMoreReusable("client", s, e)
      /\ R # {} => Is(e[s], TRUE, FALSE, end["client"][s].nbHash)
  <2>1. CASE R = {}
    BY <1>2, <2>1
  <2>2. CASE R # {}
    <3>1. e = Deaf(Woken("client", s), s)
      BY <2>2
    <3> HIDE DEF e, R
    <3>2. But(e, "client", s) /\ Is(e[s], Woken("client", s)[s].active, FALSE, Woken("client", s)[s].nbHash)
      BY <1>2, <3>1, DeafIs
    <3> QED BY <1>2, <3>2 DEF Is, NoMoreReusable
  <2> QED BY <2>1, <2>2
<1> HIDE DEF e
<1>4. EndsMoved("client", s) /\ end'["client"][s] = e[s]
  BY <1>1, <1>2, <1>3, BecomesOnly
<1>5. R \in SUBSET HeldBy(s) /\ R = {q \in HeldBy(s) : q \in ChunkRequests /\ request[q].st = "asked"}
  BY WaitingHold
<1> HIDE DEF R
<1>6. /\ request' \in [Requests -> States] /\ \A q \in Requests \ R : request'[q] = request[q]
      /\ \A q \in R : /\ request'[q].socket = request[q].socket /\ request'[q].st = "streaming"
                      /\ request'[q].left = request[q].left
  <2>1. request \in [Requests -> States] /\ R \subseteq Requests
    BY <1>2, <1>5 DEF Types, RequestTypes, HeldBy
  <2>2. Head(w).r \in Requests
    BY <1>2, MessageFor
  <2> HIDE DEF m, w
  <2> QED BY <1>1, <2>1, <2>2 DEF States
<1>7. RequestTypes' /\ RequestOnly(s) /\ NoNewHolder
  <2>1. \A q \in R : q \in ChunkRequests /\ q \in Requests /\ q \notin HashesRequests
    BY <1>5, KindsApart DEF HeldBy
  <2>2. \A q \in R : /\ request'[q].socket = request[q].socket
                     /\ request'[q].st = "streaming" => q \in ChunkRequests
                     /\ Live(q)' /\ q \in HashesRequests => request'[q].left >= 1
    BY <1>6, <2>1
  <2>3. opened' = opened
    BY <1>1
  <2> QED BY <1>2, <1>5, <1>6, <2>2, <2>3, ChangedIs
<1>8. /\ wire'["client"][s] = Tail(w) /\ wire'["server"][s] = wire["server"][s]
  <2>1. wire' = Taken("client", s)
    BY <1>1
  <2> QED BY <1>2, <2>1, TakenIs DEF Wired
<1>9. ASSUME s \notin astray PROVE HeldBy(s)' = HeldBy(s) /\ HoldOK(s)' /\ RequestsOK(s)'
  <2>1. SocketOK(s)
    BY <1>2, <1>9 DEF IInv, SocketsOK
  <2> PICK r : r = m.r
    OBVIOUS
  <2>2. /\ HeldBy(s) = {r} /\ request[r].st = "asked" /\ r \in ChunkRequests /\ r \in Requests
        /\ w \in {<<Message("CHUNK", r)>>, <<Message("CHUNK", r), Message("DATA", r)>>}
    BY <1>2, <2>1, HeardKind
  <2>3. ChunkOK(s, r)
    BY <1>2, <2>1, <2>2, HolderOK
  <2>4. Broken(s) => Broken(s)'
    <3>1. \A side \in Sides : Pooled(side)' \subseteq Pooled(side)
      BY <1>1 DEF Pooled
    <3> QED BY <1>1, <1>2, <1>7, <3>1, BreaksOn DEF Breaks
  <2>5. ~Broken(s) => wire["server"][s] = <<>>
    BY <1>2, <2>1, <2>2, ServedFor DEF Used
  <2>6. R = {r}
    BY <1>5, <2>2
  <2>7. /\ request'[r].st = "streaming" /\ request'[r].socket = s
        /\ \A q \in Requests \ {r} : request'[q] = request[q]
    BY <1>6, <2>2, <2>6 DEF HeldBy
  <2>8. HeldBy(s)' = {r}
    <3>1. \A q \in Requests : q \in HeldBy(s)' <=> q = r
      BY <2>2, <2>7 DEF HeldBy, Live
    <3> QED BY <2>2, <3>1 DEF HeldBy
  <2>9. Tail(w) \in {<<>>, <<Message("DATA", r)>>} /\ (w = <<Message("CHUNK", r)>> => Tail(w) = <<>>)
    <3>1. w = <<Message("CHUNK", r)>> => Tail(w) = <<>>
      BY DEF Message
    <3>2. w = <<Message("CHUNK", r), Message("DATA", r)>> => Tail(w) = <<Message("DATA", r)>>
      BY DEF Message
    <3> QED BY <2>2, <3>1, <3>2
  <2>10. ChunkOK(s, r)'
    <3>1. Unwritten(s)' = Unwritten(s)
      BY <1>1 DEF Unwritten
    <3>2. ~Broken(s) /\ Unwritten(s) => w = <<Message("CHUNK", r)>>
      BY <2>2, <2>3, <2>5 DEF ChunkOK
    <3> HIDE DEF w
    <3> QED BY <1>8, <2>4, <2>5, <2>7, <2>9, <3>1, <3>2 DEF ChunkOK
  <2>11. RequestsOK(s)'
    BY <2>2, <2>8, <2>10, KindsApart DEF RequestsOK
  <2>12. HoldOK(s)'
    BY <1>3, <1>4, <2>6, <2>8 DEF HoldOK, Is
  <2> QED BY <2>2, <2>8, <2>11, <2>12
<1> QED BY <1>1, <1>4, <1>7, <1>9, HeardStays

LEMMA ReadHashKeeps ==
  ASSUME IInv, NEW s \in Sockets, ReadHash(s)
  PROVE  IInv'
<1> DEFINE m == wire["client"][s][1]
           w == wire["client"][s]
           R == Waiting(s, HashesRequests)
           last == {q \in R : request[q].left = 1}
           n == end["client"][s].nbHash - 1
           e == Counts(Woken("client", s), s, n)
<1>1. /\ Reads("client", s, "HASH") /\ wire' = Taken("client", s)
      /\ request' = [q \in Requests |->
           IF q \notin R THEN request[q]
           ELSE [request[q] EXCEPT !.left = @ - 1, !.answer = Head(w).r,
                                   !.st = IF q \in last THEN "done" ELSE @]]
      /\ IF e[s].nbHash = 0 \/ last # {} THEN Finish("client", e, s, FALSE) ELSE Becomes("client", e, {})
      /\ opened' = opened /\ pool' = pool /\ serving' = serving /\ cut' = cut
      /\ faults' = faults /\ astray' = astray
  BY DEF ReadHash, history
<1>2. /\ "client" \in Sides /\ "server" \in Sides \ {"client"}
      /\ s \in 1..opened /\ end["client"][s].listening /\ w # <<>> /\ m.type = "HASH" /\ m \in Messages
      /\ Head(w) = m /\ Types /\ Pools /\ n \in Int
  <2>1. "client" \in Sides /\ "server" \in Sides \ {"client"}
    BY DEF Sides
  <2>2. /\ s \in 1..opened /\ end["client"][s].listening /\ w # <<>> /\ m.type = "HASH" /\ m \in Messages
        /\ Head(w) = m /\ Types /\ Pools
    BY <1>1, <2>1, ReadsIs
  <2>3. n \in Int
    <3>1. end["client"][s].nbHash \in Int
      BY <2>1, <2>2, SocketTypes
    <3> QED BY <3>1
  <2> QED BY <2>1, <2>2, <2>3
<1>3. But(e, "client", s) /\ NoMoreReusable("client", s, e) /\ Is(e[s], TRUE, TRUE, n)
  <2>1. e = Counts(Woken("client", s), s, n)
    OBVIOUS
  <2> HIDE DEF e, n
  <2> QED BY <1>1, <1>2, <2>1, CountedIs
<1> HIDE DEF e
<1>4. EndsMoved("client", s)
  BY <1>1, <1>2, <1>3, FinishMoves, BecomesOnly
<1>5. /\ R \in SUBSET HeldBy(s) /\ R = {q \in HeldBy(s) : q \in HashesRequests /\ request[q].st = "asked"}
      /\ R \subseteq Requests /\ \A q \in R : Live(q) /\ request[q].left \in 1..NbHash
  <2>1. R \in SUBSET HeldBy(s) /\ R = {q \in HeldBy(s) : q \in HashesRequests /\ request[q].st = "asked"}
    BY WaitingHold
  <2> HIDE DEF R
  <2>2. R \subseteq Requests
    BY <2>1 DEF HeldBy
  <2>3. ASSUME NEW q \in R PROVE Live(q) /\ request[q].left \in 1..NbHash
    <3>1. Live(q) /\ q \in HashesRequests /\ q \in Requests
      BY <2>1 DEF HeldBy
    <3>2. request[q].left >= 1 /\ request[q].left \in 0..NbHash
      BY <1>2, <3>1 DEF Types, RequestTypes, States
    <3> QED BY <3>1, <3>2, BoundsAssumption
  <2> QED BY <2>1, <2>2, <2>3
<1> HIDE DEF R
<1>6. /\ request' \in [Requests -> States] /\ \A q \in Requests \ R : request'[q] = request[q]
      /\ \A q \in R : /\ request'[q].socket = request[q].socket /\ request'[q].left = request[q].left - 1
                      /\ request'[q].st = IF request[q].left = 1 THEN "done" ELSE "asked"
  <2>1. request \in [Requests -> States]
    BY <1>2 DEF Types, RequestTypes
  <2>2. Head(w).r \in Requests
    BY <1>2, MessageFor
  <2> DEFINE x(q) == [request[q] EXCEPT !.left = @ - 1, !.answer = Head(w).r,
                                        !.st = IF q \in last THEN "done" ELSE @]
  <2>3. ASSUME NEW q \in R
        PROVE  /\ x(q) \in States /\ x(q).socket = request[q].socket /\ x(q).left = request[q].left - 1
               /\ x(q).st = IF request[q].left = 1 THEN "done" ELSE "asked"
    <3>1. request[q] \in States /\ request[q].left \in 1..NbHash /\ request[q].st = "asked"
      BY <1>5, <2>1
    <3>2. request[q].left - 1 \in 0..NbHash
      BY <3>1, BoundsAssumption
    <3>3. q \in last <=> request[q].left = 1
      OBVIOUS
    <3> HIDE DEF last, m, w
    <3> QED BY <2>2, <3>1, <3>2, <3>3 DEF States
  <2>4. request' = [q \in Requests |-> IF q \notin R THEN request[q] ELSE x(q)]
    BY <1>1
  <2> HIDE DEF x
  <2> QED BY <1>5, <2>1, <2>3, <2>4
<1>7. RequestTypes' /\ RequestOnly(s) /\ NoNewHolder
  <2>1. ASSUME NEW q \in R
        PROVE  request'[q].st # "streaming" /\ (Live(q)' => request'[q].left >= 1)
    <3>1. request[q].left \in 1..NbHash
      BY <1>5
    <3> QED BY <1>6, <3>1, BoundsAssumption DEF Live
  <2> QED BY <1>1, <1>2, <1>5, <1>6, <2>1, ChangedIs
<1>8. /\ wire'["client"][s] = Tail(w) /\ wire'["server"][s] = wire["server"][s]
      /\ Len(Tail(w)) = Len(w) - 1 /\ Len(w) \in Nat \ {0} /\ Tail(w) \in Seq(Messages)
      /\ \A i \in 1..Len(w) - 1 : Tail(w)[i] = w[i + 1]
      /\ wire' \in [Sides -> [Sockets -> Seq(Messages)]]
      /\ \A t \in Sockets \ {s}, any \in Sides : wire'[any][t] = wire[any][t]
  <2>1. wire' = Taken("client", s)
    BY <1>1
  <2> QED BY <1>2, <2>1, TakenIs DEF Wired
<1>9. CASE s \in astray
  BY <1>1, <1>4, <1>7, <1>9, HeardStays
<1>10. ASSUME s \notin astray PROVE IInv'
  <2>1. SocketOK(s)
    BY <1>2, <1>10 DEF IInv, SocketsOK
  <2> PICK r : r = m.r
    OBVIOUS
  <2>2. /\ HeldBy(s) = {r} /\ request[r].st = "asked" /\ r \in HashesRequests /\ ~Refused(s, r)
        /\ r \in Requests
    BY <1>2, <2>1, HeardKind
  <2>3. HashesOK(s, r) /\ R = {r} /\ request[r].left \in 1..NbHash /\ request[r].left \in Nat
    BY <1>2, <1>5, <2>1, <2>2, HolderOK
  <2>4. ~Begins(s) /\ Listed(s) = Len(w)
    BY <1>2, <1>8 DEF Begins, Listed
  <2>5. /\ Len(w) <= request[r].left
        /\ ~Broken(s) => Len(w) + Len(serving[s].hashes) <= request[r].left
        /\ end["client"][s].nbHash = request[r].left
        /\ ~Broken(s) /\ end["server"][s].listening /\ wire["server"][s] = <<>>
             => Len(w) + Len(serving[s].hashes) = request[r].left
        /\ \A i \in 1..Len(w) : w[i].type = "HASH"
    BY <1>2, <2>2, <2>3, <2>4 DEF HashesOK
  <2>6. ~Broken(s) => /\ serving[s].entries = NoRequest /\ wire["server"][s] = <<>>
                      /\ Unwritten(s) => serving[s].upload = r
    BY <1>2, <2>1, <2>2, ServedFor DEF Used
  <2>7. serving[s].hashes \in Seq(HashesRequests)
    BY <1>2, SocketTypes
  <2>8. ~Broken(s) => ~Unwritten(s)
    <3>1. serving[s].upload \in ChunkRequests \cup {NoRequest} /\ r \notin ChunkRequests
      BY <1>2, <2>2, SocketTypes, KindsApart
    <3> QED BY <2>6, <3>1 DEF Unwritten
  <2> HIDE DEF m, w, n
  <2>9. CASE request[r].left = 1
    <3>1. Ended({r}, s)
      <4>1. {r} \in SUBSET HeldBy(s) /\ \A q \in {r} : request'[q].st = "done" /\ request'[q].socket = request[q].socket
        BY <1>6, <2>2, <2>3, <2>9
      <4>2. \A q \in Requests \ {r} : request'[q] = request[q]
        BY <1>6, <2>3
      <4> QED BY <1>1, <1>2, <1>6, <4>1, <4>2, EndedIs
    <3>2. Tail(w) = <<>>
      <4>1. Len(Tail(w)) = 0
        BY <1>8, <2>5, <2>9
      <4> QED BY <1>8, <4>1, NoneLeft
    <3>3. Broken(s) \/ Silent(s)
      <4>1. ~Broken(s) => Len(serving[s].hashes) = 0
        BY <1>8, <2>5, <2>7, <2>9
      <4>2. ~Broken(s) => serving[s].hashes = <<>>
        BY <2>7, <4>1, NoneLeft
      <4> QED BY <2>6, <2>8, <4>2 DEF Silent
    <3>4. faults' \in 0..MaxFaults
      BY <1>1, <1>2 DEF Types
    <3> QED BY <1>1, <1>2, <1>4, <1>8, <2>2, <3>1, <3>2, <3>3, <3>4, ClientRests
  <2>10. CASE request[r].left # 1
    <3>1. /\ request'[r].st = "asked" /\ request'[r].socket = s /\ request'[r].left = request[r].left - 1
          /\ \A q \in Requests \ {r} : request'[q] = request[q]
      BY <1>6, <2>2, <2>3, <2>10 DEF HeldBy
    <3>2. HeldBy(s)' = {r}
      <4>1. \A q \in Requests : q \in HeldBy(s)' <=> q = r
        BY <2>2, <3>1 DEF HeldBy, Live
      <4> QED BY <2>2, <4>1 DEF HeldBy
    <3>3. end'["client"][s] = e[s] /\ Is(e[s], TRUE, TRUE, request[r].left - 1)
      <4>1. n = request[r].left - 1 /\ last = {}
        BY <2>3, <2>5, <2>10 DEF n
      <4>2. e[s].nbHash # 0
        BY <1>3, <2>3, <2>10, <4>1 DEF Is
      <4>3. Becomes("client", e, {})
        BY <1>1, <4>1, <4>2
      <4> QED BY <1>1, <1>2, <1>3, <4>1, <4>3, BecomesOnly
    <3>4. Broken(s) => Broken(s)'
      <4>1. \A side \in Sides : Pooled(side)' \subseteq Pooled(side)
        BY <1>1 DEF Pooled
      <4> QED BY <1>1, <1>2, <1>7, <4>1, BreaksOn DEF Breaks
    <3>5. \A i \in 1..Len(Tail(w)) : Tail(w)[i].type = "HASH"
      <4> TAKE i \in 1..Len(Tail(w))
      <4>1. i \in 1..Len(w) - 1 /\ i + 1 \in 1..Len(w)
        BY <1>8
      <4> QED BY <1>8, <2>5, <4>1
    <3>6. ~Begins(s)' /\ ~Refused(s, r)' /\ Listed(s)' = Len(w) - 1
      <4>1. Tail(w) # <<>> => 1 \in 1..Len(Tail(w))
        BY <1>8
      <4>2. ~Begins(s)'
        BY <1>8, <3>5, <4>1 DEF Begins
      <4>3. ~Refused(s, r)'
        <5>1. Tail(w) # <<Message("NO_HASHES", r)>>
          BY <3>5, OnlyHashes
        <5> QED BY <1>8, <5>1 DEF Refused
      <4>4. Listed(s)' = Len(w) - 1
        BY <1>8, <4>2 DEF Listed
      <4> QED BY <4>2, <4>3, <4>4
    <3>7. HashesOK(s, r)'
      <4>1. end'["client"][s].nbHash = request[r].left - 1 /\ serving'[s] = serving[s]
        BY <1>1, <3>3 DEF Is
      <4>2. end'["server"][s].listening => end["server"][s].listening
        BY <1>2, <1>4 DEF EndsMoved, Others
      <4>3. \A i \in 1..Len(wire'["client"][s]) : wire'["client"][s][i].type = "HASH"
        BY <1>8, <3>5
      <4>4. Len(serving[s].hashes) \in Nat /\ Len(w) \in Nat
        BY <1>8, <2>7
      <4>5. Listed(s)' = Len(w) - 1 /\ request'[r].left = request[r].left - 1 /\ request[r].left \in Nat
        BY <2>3, <3>1, <3>6
      <4>6. Listed(s)' <= request'[r].left
        BY <2>5, <4>4, <4>5
      <4>7. ~Broken(s) => Listed(s)' + Len(serving[s].hashes) <= request'[r].left
        BY <2>5, <4>4, <4>5
      <4>8. ~Broken(s) /\ end["server"][s].listening /\ wire["server"][s] = <<>>
              => Listed(s)' + Len(serving[s].hashes) = request'[r].left
        BY <2>5, <4>4, <4>5
      <4> QED BY <1>8, <2>6, <3>1, <3>4, <3>6, <4>1, <4>2, <4>3, <4>6, <4>7, <4>8 DEF HashesOK
    <3>8. RequestsOK(s)'
      BY <2>2, <3>2, <3>7, KindsApart DEF RequestsOK
    <3>9. HoldOK(s)'
      BY <3>1, <3>2, <3>3 DEF HoldOK, Is
    <3> QED BY <1>1, <1>4, <1>7, <2>2, <3>2, <3>8, <3>9, HeardStays
  <2> QED BY <2>9, <2>10
<1> QED BY <1>9, <1>10


-----------------------------------------------------------------------------
(* The steps that change no request.                                       *)

LEMMA EndsStay ==
  ASSUME Types, Pools, pool' = pool, opened' = opened, end' = end, closing' = closing,
         NEW side \in Sides, NEW s \in Sockets
  PROVE  EndsMoved(side, s)
<1>1. Others(side, s)
  BY DEF Types, Others
<1>2. closing' \in [Sides -> SUBSET Sockets]
  BY DEF Types
<1>3. \A any \in Sides : Pooled(any)' = Pooled(any) /\ Reusable(any)' = Reusable(any)
  BY DEF Pooled, Reusable
<1>4. Pools'
  BY <1>3 DEF Pools
<1> QED BY <1>1, <1>2, <1>4 DEF EndsMoved

Idles(t) == t \notin Pooled("server") /\ serving[t].upload = NoRequest /\ serving[t].kept = {}

LEMMA LocalIs ==
  ASSUME IInv, NEW s \in 1..opened, request' = request, opened' = opened, pool' = pool,
         cut \subseteq cut', cut' \subseteq 1..opened,
         NEW side \in Sides, EndsMoved(side, s),
         serving' \in [Sockets -> Works], \A t \in Sockets \ {s} : serving'[t] = serving[t],
         Idles(s) => serving'[s].upload = NoRequest /\ serving'[s].kept = {},
         wire' \in [Sides -> [Sockets -> Seq(Messages)]],
         \A t \in Sockets \ {s}, any \in Sides : wire'[any][t] = wire[any][t],
         astray' = astray, faults' \in 0..MaxFaults
  PROVE  Local(s) /\ (Broken(s) => Broken(s)') /\ HeldBy(s)' = HeldBy(s) /\ s \in Sockets
<1>1. Types
  BY DEF IInv
<1>2. RequestTypes' /\ RequestOnly(s) /\ NoNewHolder /\ HeldBy(s)' = HeldBy(s)
  BY <1>1, SameRequests
<1>3. \A any \in Sides : Pooled(any)' \subseteq Pooled(any)
  BY DEF Pooled
<1>4. s \in Sockets
  BY <1>1, OpenedSocket
<1>5. Breaks
  BY <1>1, <1>2, <1>3, BreaksOn DEF Idles
<1>6. pool' \in [Sides -> Seq(Sockets)] /\ astray' \subseteq 1..opened
  BY <1>1 DEF Types
<1> QED BY <1>2, <1>4, <1>5, <1>6 DEF Local, Breaks, EndsMoved

LEMMA EmptiedIs ==
  ASSUME Types, NEW s \in Sockets, wire' = [side \in Sides |-> [wire[side] EXCEPT ![s] = <<>>]]
  PROVE  /\ wire' \in [Sides -> [Sockets -> Seq(Messages)]]
         /\ \A t \in Sockets \ {s}, any \in Sides : wire'[any][t] = wire[any][t]
         /\ \A any \in Sides : wire'[any][s] = <<>>
<1>1. wire \in [Sides -> [Sockets -> Seq(Messages)]] /\ <<>> \in Seq(Messages)
  BY DEF Types
<1> QED BY <1>1

LEMMA ReadGarbageKeeps ==
  ASSUME IInv, NEW s \in Sockets, ReadGarbage(s)
  PROVE  IInv'
<1> DEFINE m == wire["client"][s][1]
           e == Woken("client", s)
<1>1. /\ Reads("client", s, "DATA") /\ cut' = cut \cup {s}
      /\ wire' = [side \in Sides |-> [wire[side] EXCEPT ![s] = <<>>]]
      /\ Becomes("client", e, {s}) /\ request' = request /\ opened' = opened /\ pool' = pool
      /\ serving' = serving /\ faults' = faults /\ astray' = astray
  BY DEF ReadGarbage, history
<1>2. /\ "client" \in Sides /\ s \in 1..opened /\ end["client"][s].listening /\ wire["client"][s] # <<>>
      /\ m.type = "DATA" /\ Types /\ Pools
      /\ But(e, "client", s) /\ NoMoreReusable("client", s, e)
  <2>1. m = wire["client"][s][1] /\ Reads("client", s, "DATA")
    BY <1>1
  <2> HIDE DEF m
  <2> QED BY <2>1, ClientHears
<1>3. s \in astray
  <2>1. SUFFICES ASSUME s \notin astray PROVE FALSE
    OBVIOUS
  <2>2. SocketOK(s)
    BY <1>2, <2>1 DEF IInv, SocketsOK
  <2> QED BY <1>2, <2>2, HeardKind
<1>4. EndsMoved("client", s)
  <2>1. {s} \in SUBSET Sockets
    OBVIOUS
  <2> HIDE DEF e
  <2> QED BY <1>1, <1>2, <2>1, BecomesMoves
<1>5. /\ wire' \in [Sides -> [Sockets -> Seq(Messages)]]
      /\ \A t \in Sockets \ {s}, any \in Sides : wire'[any][t] = wire[any][t]
  BY <1>1, <1>2, EmptiedIs
<1>6. /\ serving' \in [Sockets -> Works] /\ cut \subseteq cut' /\ cut' \subseteq 1..opened
      /\ faults' \in 0..MaxFaults
      /\ Idles(s) => serving'[s].upload = NoRequest /\ serving'[s].kept = {}
  BY <1>1, <1>2 DEF Types, Idles
<1>7. Local(s)
  BY <1>1, <1>2, <1>4, <1>5, <1>6, LocalIs
<1> QED BY <1>1, <1>3, <1>7, StepKeeps

LEMMA NetworkBreaksKeeps ==
  ASSUME IInv, NEW s \in Sockets, NetworkBreaks(s)
  PROVE  IInv'
<1>1. /\ s <= opened /\ cut' = cut \cup {s}
      /\ wire' = [side \in Sides |-> [wire[side] EXCEPT ![s] = <<>>]]
      /\ request' = request /\ opened' = opened /\ pool' = pool /\ end' = end /\ closing' = closing
      /\ serving' = serving /\ astray' = astray
  BY DEF NetworkBreaks, ends
<1>2. Types /\ Pools /\ s \in 1..opened /\ faults' \in 0..MaxFaults
  BY <1>1, OpenedSocket, FaultCounted DEF IInv, Sockets, NetworkBreaks
<1>3. "client" \in Sides /\ "server" \in Sides
  BY DEF Sides
<1>4. EndsMoved("client", s)
  BY <1>1, <1>2, <1>3, EndsStay
<1>5. /\ wire' \in [Sides -> [Sockets -> Seq(Messages)]]
      /\ \A t \in Sockets \ {s}, any \in Sides : wire'[any][t] = wire[any][t]
      /\ wire'["client"][s] = <<>> /\ wire'["server"][s] = <<>>
  BY <1>1, <1>2, <1>3, EmptiedIs
<1>6. /\ serving' \in [Sockets -> Works] /\ cut \subseteq cut' /\ cut' \subseteq 1..opened
      /\ Idles(s) => serving'[s].upload = NoRequest /\ serving'[s].kept = {}
  BY <1>1, <1>2 DEF Types, Idles
<1>7. Local(s) /\ HeldBy(s)' = HeldBy(s)
  BY <1>1, <1>2, <1>3, <1>4, <1>5, <1>6, LocalIs
<1>8. ASSUME s \notin astray PROVE SocketOK(s)'
  <2>1. SocketOK(s)
    BY <1>2, <1>8 DEF IInv, SocketsOK
  <2>2. Broken(s)'
    BY <1>1 DEF Broken
  <2>3. ServerOK(s)'
    BY <1>1, <1>5, <2>1 DEF SocketOK, ServerOK, Answering
  <2>4. HoldOK(s)'
    BY <1>1, <1>7, <2>1 DEF SocketOK, HoldOK
  <2>5. AwaitedOK(s)'
    BY <1>5, <2>2 DEF AwaitedOK
  <2>6. ~Begins(s)' /\ Listed(s)' = 0
    BY <1>5 DEF Begins, Listed
  <2>7. ASSUME NEW r \in HeldBy(s) PROVE EntriesOK(s, r)' /\ ChunkOK(s, r)' /\ HashesOK(s, r)'
    <3>1. r \in Requests /\ request[r].left \in Nat
      BY <1>2, BoundsAssumption DEF HeldBy, Types, RequestTypes, States
    <3>2. ~Refused(s, r)'
      <4>1. <<Message("NO_HASHES", r)>> # <<>>
        BY OneMessage
      <4> QED BY <1>5, <4>1 DEF Refused
    <3>3. HashesOK(s, r)'
      <4>1. wire'["client"][s] = <<>> /\ wire'["server"][s] = <<>> /\ Len(wire'["client"][s]) = 0
        BY <1>5
      <4>2. Listed(s)' = 0 /\ request'[r].left \in Nat
        BY <1>1, <2>6, <3>1
      <4>3. Listed(s)' <= request'[r].left
        BY <4>2
      <4> QED BY <2>2, <2>6, <3>2, <4>1, <4>3 DEF HashesOK
    <3> QED BY <1>5, <2>2, <3>3 DEF EntriesOK, ChunkOK
  <2>8. RequestsOK(s)'
    BY <1>7, <2>7 DEF RequestsOK
  <2> QED BY <2>3, <2>4, <2>5, <2>8 DEF SocketOK
<1> QED BY <1>1, <1>7, <1>8, StepKeeps

(* Some ends are closed. *)
LEMMA ClosesKeep ==
  ASSUME IInv, NEW side \in Sides, NEW S \in SUBSET Sockets, NEW s \in 1..opened, Becomes(side, end[side], S),
         request' = request, opened' = opened, pool' = pool, serving' = serving, wire' = wire, cut' = cut,
         astray' = astray, faults' \in 0..MaxFaults
  PROVE  IInv'
<1>1. Types /\ Pools /\ s \in Sockets
  BY OpenedSocket DEF IInv
<1>2. But(end[side], side, s) /\ NoMoreReusable(side, s, end[side])
  BY <1>1, EndIs
<1>3. EndsMoved(side, s) /\ Became(side, end[side], S)
  BY <1>1, <1>2, BecomesMoves
<1>4. /\ wire' \in [Sides -> [Sockets -> Seq(Messages)]] /\ serving' \in [Sockets -> Works]
      /\ cut \subseteq cut' /\ cut' \subseteq 1..opened
      /\ Idles(s) => serving'[s].upload = NoRequest /\ serving'[s].kept = {}
  BY <1>1 DEF Types, Idles
<1>5. Local(s) /\ (Broken(s) => Broken(s)') /\ HeldBy(s)' = HeldBy(s)
  BY <1>1, <1>3, <1>4, LocalIs
<1>6. \A any \in Sides : EndKept(any, s)
  BY <1>1, <1>3 DEF EndsMoved, Others, Became, EndKept
<1>7. Kept(s)
  BY <1>5, <1>6 DEF Kept
<1>8. s \notin astray => SocketOK(s)
  BY <1>1 DEF IInv, SocketsOK
<1> QED BY <1>1, <1>5, <1>7, <1>8, Untouched, StepKeeps

LEMMA InactiveKeeps ==
  ASSUME IInv, NEW s \in Sockets, NEW side \in Sides, Inactive(side, s)
  PROVE  IInv'
<1>1. /\ Fault /\ s \in Pooled(side) /\ Becomes(side, end[side], {s})
      /\ request' = request /\ opened' = opened /\ pool' = pool /\ serving' = serving /\ wire' = wire
      /\ cut' = cut /\ astray' = astray
  BY DEF Inactive, work
<1>2. s \in 1..opened /\ faults' \in 0..MaxFaults /\ {s} \in SUBSET Sockets
  BY <1>1, FaultCounted DEF IInv, Pools
<1> QED BY <1>1, <1>2, ClosesKeep

LEMMA DisconnectedKeeps ==
  ASSUME IInv, NEW s \in Sockets, NEW side \in Sides, Disconnected(side, s)
  PROVE  IInv'
<1>1. /\ s <= opened /\ Becomes(side, end[side], {s})
      /\ request' = request /\ opened' = opened /\ pool' = pool /\ serving' = serving /\ wire' = wire
      /\ cut' = cut /\ astray' = astray /\ faults' = faults
  BY DEF Disconnected, work, history
<1>2. s \in 1..opened /\ faults' \in 0..MaxFaults /\ {s} \in SUBSET Sockets
  BY <1>1, OpenedSocket DEF IInv, Types, Sockets
<1> QED BY <1>1, <1>2, ClosesKeep

LEMMA PeerTimeoutKeeps ==
  ASSUME IInv, PeerTimeout
  PROVE  IInv'
<1>1. /\ Fault /\ pool["client"] # <<>> /\ Becomes("client", end["client"], Pooled("client"))
      /\ request' = request /\ opened' = opened /\ pool' = pool /\ serving' = serving /\ wire' = wire
      /\ cut' = cut /\ astray' = astray
  BY DEF PeerTimeout, work
<1>2. "client" \in Sides /\ Types /\ Pools /\ faults' \in 0..MaxFaults
  BY <1>1, FaultCounted DEF Sides, IInv
<1>3. pool["client"] \in Seq(Sockets) /\ Pooled("client") \in SUBSET Sockets
  BY <1>2, PooledSockets DEF Types
<1>4. 1 \in 1..Len(pool["client"])
  BY <1>1, <1>3
<1>5. pool["client"][1] \in 1..opened
  BY <1>2, <1>4 DEF Pools, Pooled
<1> QED BY <1>1, <1>2, <1>3, <1>5, ClosesKeep


LEMMA LeavesPoolKeeps ==
  ASSUME IInv, NEW s \in Sockets, NEW side \in Sides, LeavesPool(side, s)
  PROVE  IInv'
<1> DEFINE K == Sockets \ {s}
           q == Only(pool[side], K)
<1>1. /\ s \in closing[side] /\ closing' = [closing EXCEPT ![side] = closing[side] \ {s}]
      /\ pool' = [pool EXCEPT ![side] = q]
      /\ request' = request /\ opened' = opened /\ end' = end /\ serving' = serving /\ wire' = wire
      /\ cut' = cut /\ astray' = astray /\ faults' = faults
  BY DEF LeavesPool, work, history
<1>2. Types /\ Pools
  BY DEF IInv
<1>3. s \in 1..opened
  BY <1>1, <1>2 DEF Pools
<1>4. pool \in [Sides -> Seq(Sockets)] /\ closing \in [Sides -> SUBSET Sockets] /\ pool[side] \in Seq(Sockets)
  BY <1>2 DEF Types
<1>5. /\ q \in Seq(Sockets)
      /\ \A a \in 1..Len(q) : q[a] \in K /\ \E i \in 1..Len(pool[side]) : q[a] = pool[side][i]
      /\ \A i \in 1..Len(pool[side]) : pool[side][i] \in K => \E a \in 1..Len(q) : q[a] = pool[side][i]
      /\ (\A i, j \in 1..Len(pool[side]) : pool[side][i] = pool[side][j] => i = j) =>
           \A i, j \in 1..Len(q) : q[i] = q[j] => i = j
  <2> HIDE DEF K
  <2> QED BY <1>4, OnlyProperties
<1> HIDE DEF q, K
<1>6. /\ pool' \in [Sides -> Seq(Sockets)] /\ closing' \in [Sides -> SUBSET Sockets]
      /\ pool'[side] = q /\ closing'[side] = closing[side] \ {s}
      /\ \A any \in Sides \ {side} : pool'[any] = pool[any] /\ closing'[any] = closing[any]
  BY <1>1, <1>4, <1>5
<1>7. Pooled(side)' = Pooled(side) \ {s}
  <2>1. Pooled(side) \subseteq Sockets
    BY <1>4, PooledSockets
  <2>2. Pooled(side)' \subseteq Pooled(side)
    <3> SUFFICES ASSUME NEW a \in 1..Len(q) PROVE q[a] \in Pooled(side)
      BY <1>6 DEF Pooled
    <3>1. PICK i \in 1..Len(pool[side]) : q[a] = pool[side][i]
      BY <1>5
    <3> QED BY <3>1 DEF Pooled
  <2>3. Pooled(side) \cap K \subseteq Pooled(side)'
    <3> SUFFICES ASSUME NEW i \in 1..Len(pool[side]), pool[side][i] \in K
                 PROVE  pool[side][i] \in Pooled(side)'
      BY DEF Pooled
    <3> QED BY <1>5, <1>6 DEF Pooled
  <2>4. Pooled(side)' \subseteq K
    BY <1>5, <1>6 DEF Pooled
  <2> QED BY <2>1, <2>2, <2>3, <2>4 DEF K
<1>8. \A any \in Sides \ {side} : Pooled(any)' = Pooled(any)
  BY <1>6 DEF Pooled
<1>9. \A any \in Sides : Pooled(any)' \subseteq Pooled(any)
  BY <1>7, <1>8
<1>10. Pools'
  <2> SUFFICES ASSUME NEW any \in Sides
               PROVE  /\ closing'[any] \subseteq Pooled(any)' /\ Pooled(any)' \subseteq 1..opened'
                      /\ \A i, j \in 1..Len(pool'[any]) : pool'[any][i] = pool'[any][j] => i = j
                      /\ Cardinality(Reusable(any)') <= MaxIdle
    BY DEF Pools
  <2>1. closing'[any] \subseteq Pooled(any)' /\ Pooled(any)' \subseteq 1..opened'
    BY <1>1, <1>2, <1>6, <1>7, <1>8 DEF Pools
  <2>2. \A i, j \in 1..Len(pool'[any]) : pool'[any][i] = pool'[any][j] => i = j
    <3>1. CASE any = side
      BY <1>2, <1>5, <1>6, <3>1 DEF Pools
    <3>2. CASE any # side
      BY <1>2, <1>6, <3>2 DEF Pools
    <3> QED BY <3>1, <3>2
  <2>3. Reusable(any)' \subseteq Reusable(any)
    BY <1>1, <1>9 DEF Reusable
  <2>4. Reusable(any) \subseteq Sockets /\ Cardinality(Reusable(any)) <= MaxIdle
    BY <1>2, <1>4, PooledSockets DEF Reusable, Pools
  <2>5. Cardinality(Reusable(any)') <= MaxIdle
    BY <2>3, <2>4, FewerAreFew
  <2> QED BY <2>1, <2>2, <2>5
<1>11. RequestTypes' /\ RequestOnly(s) /\ NoNewHolder /\ HeldBy(s)' = HeldBy(s)
  BY <1>1, <1>2, SameRequests
<1>12. Breaks
  BY <1>1, <1>2, <1>9, <1>11, BreaksOn
<1>13. Local(s)
  <2>1. /\ serving' \in [Sockets -> Works] /\ wire' \in [Sides -> [Sockets -> Seq(Messages)]]
        /\ cut' \subseteq 1..opened /\ astray' \subseteq 1..opened /\ faults' \in 0..MaxFaults
    BY <1>1, <1>2 DEF Types
  <2> QED BY <1>1, <1>3, <1>6, <1>10, <1>11, <1>12, <2>1 DEF Local
<1>14. Kept(s)
  BY <1>1, <1>11, <1>12 DEF Kept, EndKept, Breaks
<1>15. s \notin astray => SocketOK(s)
  BY <1>2, <1>3 DEF IInv, SocketsOK
<1> QED BY <1>1, <1>2, <1>13, <1>14, <1>15, Untouched, StepKeeps

-----------------------------------------------------------------------------
(* The client asks.                                                        *)

LEMMA AskedIs ==
  ASSUME Types, NEW r \in Requests, request[r].st = "new", NEW s \in Sockets,
         request' = [request EXCEPT ![r] = Asked(s, r)]
  PROVE  /\ request' \in [Requests -> States] /\ request'[r] = Asked(s, r)
         /\ \A q \in Requests \ {r} : request'[q] = request[q]
         /\ Asked(s, r).st = "asked" /\ Asked(s, r).socket = s /\ Asked(s, r).left = NbHash
         /\ RequestOnly(s) /\ HeldBy(s)' = HeldBy(s) \cup {r} /\ Message(Type(r), r) \in Messages
         /\ Message(Type(r), r).r = r /\ Message(Type(r), r).type = Type(r)
<1>1. request \in [Requests -> States] /\ s \in Nat
  BY BoundsAssumption DEF Types, RequestTypes, Sockets
<1>2. Asked(s, r) \in States /\ Asked(s, r).st = "asked" /\ Asked(s, r).socket = s /\ Asked(s, r).left = NbHash
  BY <1>1, BoundsAssumption DEF Asked, States
<1>3. /\ request' \in [Requests -> States] /\ request'[r] = Asked(s, r)
      /\ \A q \in Requests \ {r} : request'[q] = request[q]
  <2> DEFINE x == Asked(s, r)
  <2>1. x \in States /\ request' = [request EXCEPT ![r] = x]
    BY <1>2
  <2> HIDE DEF x
  <2>2. /\ request' \in [Requests -> States] /\ request'[r] = x
        /\ \A q \in Requests \ {r} : request'[q] = request[q]
    BY <1>1, <2>1
  <2> QED BY <2>2 DEF x
<1>4. ~Live(r)
  BY DEF Live
<1>5. RequestOnly(s)
  BY <1>2, <1>3, <1>4 DEF RequestOnly
<1>6. HeldBy(s)' = HeldBy(s) \cup {r}
  <2>1. \A q \in Requests \ {r} : q \in HeldBy(s)' <=> q \in HeldBy(s)
    BY <1>3 DEF HeldBy, Live
  <2>2. r \in HeldBy(s)'
    BY <1>2, <1>3 DEF HeldBy, Live
  <2>3. HeldBy(s)' \subseteq Requests /\ HeldBy(s) \subseteq Requests
    BY DEF HeldBy
  <2> QED BY <2>1, <2>2, <2>3
<1>7. /\ r \in EntriesRequests => Type(r) = "GET_ENTRIES"
      /\ r \in HashesRequests => Type(r) = "GET_HASHES"
      /\ r \in ChunkRequests => Type(r) = "GET_CHUNK"
  BY KindsApart DEF Type
<1>8. Message(Type(r), r) \in Messages
  BY <1>7, KindsApart DEF Message, Messages
<1>9. Message(Type(r), r).r = r /\ Message(Type(r), r).type = Type(r)
  BY DEF Message
<1> QED BY <1>2, <1>3, <1>5, <1>6, <1>8, <1>9

(* A socket that a request takes, where nothing was under way.             *)
Free(s) == serving[s].entries = NoRequest /\ serving[s].hashes = <<>> /\ ~Unwritten(s)

LEMMA AskedServerOK ==
  ASSUME NEW s, NEW r, Free(s), serving'[s] = serving[s], wire'["server"][s] = <<Message(Type(r), r)>>,
         serving[s].upload # NoRequest => ~end'["server"][s].listening
  PROVE  ServerOK(s)'
<1>1. /\ Len(wire'["server"][s]) = 1 /\ wire'["server"][s] # <<>>
      /\ wire'["server"][s][1].r = r /\ wire'["server"][s][1].type = Type(r)
  BY DEF Message
<1>2. ~Answering(s)'
  BY DEF Answering, Free
<1>3. serving'[s].hashes = <<>>
  BY DEF Free
<1> QED BY <1>1, <1>2, <1>3 DEF ServerOK

LEMMA AskedOK ==
  ASSUME NEW s, NEW r \in Requests, HeldBy(s)' = {r}, request'[r] = Asked(s, r),
         end'["client"][s].active, serving'[s] = serving[s], wire'["client"][s] = <<>>,
         ServerOK(s)',
         Broken(s)' \/ (Free(s) /\ wire'["server"][s] = <<Message(Type(r), r)>>)
  PROVE  SocketOK(s)'
<1>1. request'[r].st = "asked" /\ request'[r].left = NbHash
  BY DEF Asked
<1>2. ~Broken(s)' => /\ serving'[s].entries = NoRequest /\ serving'[s].hashes = <<>> /\ ~Unwritten(s)'
                     /\ wire'["server"][s] # <<>> /\ wire'["server"][s][1].r = r
  <2>1. Free(s) => serving'[s].entries = NoRequest /\ serving'[s].hashes = <<>> /\ ~Unwritten(s)'
    BY DEF Unwritten, Free
  <2>2. wire'["server"][s] = <<Message(Type(r), r)>> => wire'["server"][s] # <<>> /\ wire'["server"][s][1].r = r
    BY DEF Message
  <2> QED BY <2>1, <2>2
<1>3. HoldOK(s)'
  BY <1>1 DEF HoldOK
<1>4. AwaitedOK(s)'
  BY <1>2 DEF AwaitedOK
<1>5. EntriesOK(s, r)' /\ ChunkOK(s, r)'
  BY <1>1, <1>2 DEF EntriesOK, ChunkOK
<1>6. HashesOK(s, r)'
  <2>1. ~Begins(s)' /\ Listed(s)' = 0
    BY DEF Begins, Listed
  <2>2. ~Refused(s, r)'
    <3>1. <<Message("NO_HASHES", r)>> # <<>>
      BY OneMessage
    <3> QED BY <3>1 DEF Refused
  <2>3. Len(wire'["client"][s]) = 0
    OBVIOUS
  <2>4. ~Broken(s)' => Len(serving'[s].hashes) = 0
    BY <1>2
  <2>5. /\ Listed(s)' <= request'[r].left
        /\ ~Broken(s)' => Listed(s)' + Len(serving'[s].hashes) <= request'[r].left
    BY <1>1, <2>1, <2>4, BoundsAssumption
  <2> QED BY <1>1, <1>2, <2>1, <2>2, <2>3, <2>5 DEF HashesOK
<1>7. RequestsOK(s)'
  BY <1>5, <1>6 DEF RequestsOK
<1> QED BY <1>3, <1>4, <1>7 DEF SocketOK


LEMMA IdleHead ==
  ASSUME Types, Pools, NEW side \in Sides, Idle(side, end[side]) # <<>>,
         NEW s, s = Head(Idle(side, end[side]))
  PROVE  s \in Pooled(side) /\ s \in Sockets /\ s \in 1..opened /\ ~end[side][s].active
<1> DEFINE K == {t \in Sockets : ~end[side][t].active}
           q == Only(pool[side], K)
<1>1. pool[side] \in Seq(Sockets)
  BY DEF Types
<1>2. q = Idle(side, end[side])
  BY DEF Idle
<1>3. q \in Seq(Sockets) /\ \A a \in 1..Len(q) : q[a] \in K /\ \E i \in 1..Len(pool[side]) : q[a] = pool[side][i]
  <2> HIDE DEF K
  <2> QED BY <1>1, OnlyProperties
<1> HIDE DEF q
<1>4. 1 \in 1..Len(q) /\ s = q[1]
  BY <1>2, <1>3
<1>5. s \in K /\ s \in Pooled(side)
  BY <1>3, <1>4 DEF Pooled
<1> QED BY <1>5 DEF Pools

LEMMA WokenMoves ==
  ASSUME Types, Pools, pool' = pool, opened' = opened, closing' = closing,
         NEW side \in Sides, NEW s \in Sockets, end' = [end EXCEPT ![side] = Woken(side, s)]
  PROVE  EndsMoved(side, s) /\ end'[side][s].active
<1> DEFINE e == Woken(side, s)
<1>1. end \in [Sides -> [Sockets -> Ends]] /\ closing \in [Sides -> SUBSET Sockets]
  BY DEF Types
<1>2. But(e, side, s) /\ Is(e[s], TRUE, end[side][s].listening, end[side][s].nbHash)
  BY <1>1, WokenIs
<1>3. NoMoreReusable(side, s, e) /\ e \in [Sockets -> Ends]
  BY <1>2 DEF NoMoreReusable, Is, But
<1> HIDE DEF e
<1>4. Becomes(side, e, {})
  <2>1. e = [t \in Sockets |-> e[t]]
    BY <1>3
  <2>2. end' = [end EXCEPT ![side] = [t \in Sockets |-> IF t \in {} THEN ClosedEnd(e[t]) ELSE e[t]]]
    BY <2>1 DEF e
  <2>3. closing' = [closing EXCEPT ![side] = closing[side] \cup ({} \cap Pooled(side))]
    BY <1>1
  <2> QED BY <2>2, <2>3 DEF Becomes
<1>5. EndsMoved(side, s) /\ end'[side][s] = e[s]
  BY <1>2, <1>3, <1>4, BecomesOnly
<1> QED BY <1>2, <1>5 DEF Is, e

LEMMA SentIs ==
  ASSUME Types, NEW s \in Sockets, NEW to \in Sides, NEW other \in Sides \ {to}, NEW listening,
         NEW m \in Messages, wire' = Sent(to, listening, s, m)
  PROVE  /\ listening /\ ~Broken(s) => Wired(s, to, other, Append(wire[to][s], m))
         /\ ~listening \/ Broken(s) => Wired(s, to, other, wire[to][s])
<1>1. wire[to][s] \in Seq(Messages)
  BY SocketTypes
<1>2. CASE listening /\ ~Broken(s)
  <2> DEFINE q == Append(wire[to][s], m)
  <2>1. q \in Seq(Messages) /\ wire' = Puts(wire, to, s, q)
    BY <1>1, <1>2 DEF Sent
  <2> HIDE DEF q
  <2>2. Wired(s, to, other, q)
    BY <2>1, WiredIs
  <2> QED BY <1>2, <2>2 DEF q
<1>3. CASE ~(listening /\ ~Broken(s))
  <2>1. wire' = wire
    BY <1>3 DEF Sent
  <2> QED BY <1>3, <2>1 DEF Wired, Types
<1> QED BY <1>2, <1>3

(* A socket that could be used: nothing is under way on it. *)
LEMMA ReusedIsFree ==
  ASSUME Types, NEW s \in Sockets, SocketOK(s), end["client"][s].listening, ~end["client"][s].active
  PROVE  /\ HeldBy(s) = {} /\ wire["client"][s] = <<>>
         /\ ~Broken(s) => Free(s) /\ wire["server"][s] = <<>>
<1>1. HeldBy(s) = {}
  BY DEF SocketOK, HoldOK
<1>2. Used(s)
  BY DEF Used
<1>3. /\ \A i \in 1..Len(wire["client"][s]) : wire["client"][s][i].r \in {}
      /\ ~Broken(s) =>
           /\ serving[s].entries \in {NoRequest}
           /\ \A i \in 1..Len(serving[s].hashes) : serving[s].hashes[i] \in {}
           /\ Unwritten(s) => serving[s].upload \in {}
           /\ wire["server"][s] # <<>> => wire["server"][s][1].r \in {}
  BY <1>1, <1>2 DEF SocketOK, AwaitedOK
<1>4. wire["client"][s] = <<>>
  <2>1. wire["client"][s] \in Seq(Messages)
    BY SocketTypes
  <2>2. Len(wire["client"][s]) = 0
    BY <1>3, <2>1
  <2> QED BY <2>1, <2>2, NoneLeft
<1>5. ~Broken(s) => serving[s].hashes = <<>>
  <2>1. serving[s].hashes \in Seq(HashesRequests)
    BY SocketTypes
  <2>2. ~Broken(s) => Len(serving[s].hashes) = 0
    BY <1>3, <2>1
  <2> QED BY <2>1, <2>2, NoneLeft
<1> QED BY <1>1, <1>3, <1>4, <1>5 DEF Free

LEMMA AskReusesKeeps ==
  ASSUME IInv, NEW r \in Requests, AskReuses(r)
  PROVE  IInv'
<1> PICK s : s = Head(Idle("client", end["client"]))
  OBVIOUS
<1> DEFINE msg == Message(Type(r), r)
<1>1. /\ request[r].st = "new" /\ Idle("client", end["client"]) # <<>>
      /\ request' = [request EXCEPT ![r] = Asked(s, r)]
      /\ end' = [end EXCEPT !["client"] = Woken("client", s)]
      /\ wire' = Sent("server", end["client"][s].listening, s, msg)
      /\ astray' = IF end["client"][s].listening THEN astray ELSE astray \cup {s}
      /\ opened' = opened /\ pool' = pool /\ closing' = closing /\ serving' = serving
      /\ cut' = cut /\ faults' = faults
  BY DEF AskReuses, MayAsk
<1>2. /\ Types /\ Pools /\ SocketsOK /\ "client" \in Sides /\ "server" \in Sides
      /\ "server" \in Sides \ {"client"} /\ "client" \in Sides \ {"server"}
  BY DEF IInv, Sides
<1>3. s \in Pooled("client") /\ s \in Sockets /\ s \in 1..opened /\ ~end["client"][s].active
  BY <1>1, <1>2, IdleHead
<1>4. EndsMoved("client", s) /\ end'["client"][s].active
  BY <1>1, <1>2, <1>3, WokenMoves
<1>5. /\ request' \in [Requests -> States] /\ request'[r] = Asked(s, r)
      /\ \A q \in Requests \ {r} : request'[q] = request[q]
      /\ Asked(s, r).st = "asked" /\ Asked(s, r).socket = s /\ Asked(s, r).left = NbHash
      /\ RequestOnly(s) /\ HeldBy(s)' = HeldBy(s) \cup {r} /\ msg \in Messages
  <2>1. request' = [request EXCEPT ![r] = Asked(s, r)] /\ request[r].st = "new"
    BY <1>1
  <2>2. msg = Message(Type(r), r)
    OBVIOUS
  <2> HIDE DEF msg
  <2>3. request' \in [Requests -> States] /\ request'[r] = Asked(s, r)
    BY <1>2, <1>3, <2>1, AskedIs
  <2>4. \A q \in Requests \ {r} : request'[q] = request[q]
    BY <1>2, <1>3, <2>1, AskedIs
  <2>5. Asked(s, r).st = "asked" /\ Asked(s, r).socket = s /\ Asked(s, r).left = NbHash
    BY DEF Asked
  <2>6. RequestOnly(s) /\ HeldBy(s)' = HeldBy(s) \cup {r}
    BY <1>2, <1>3, <2>1, AskedIs
  <2>7. msg \in Messages
    BY <1>2, <1>3, <2>1, <2>2, AskedIs
  <2> QED BY <2>3, <2>4, <2>5, <2>6, <2>7
<1> HIDE DEF msg
<1>6. RequestTypes'
  BY <1>1, <1>2, <1>3, <1>5, BoundsAssumption DEF Types, RequestTypes, Live
<1>7. /\ end["client"][s].listening /\ ~Broken(s) => Wired(s, "server", "client", Append(wire["server"][s], msg))
      /\ ~end["client"][s].listening \/ Broken(s) => Wired(s, "server", "client", wire["server"][s])
  BY <1>1, <1>2, <1>3, <1>5, SentIs
<1>8. /\ wire' \in [Sides -> [Sockets -> Seq(Messages)]] /\ wire'["client"][s] = wire["client"][s]
      /\ \A t \in Sockets \ {s}, any \in Sides : wire'[any][t] = wire[any][t]
  BY <1>7 DEF Wired
<1>9. Breaks
  <2> SUFFICES ASSUME NEW t \in Sockets, Broken(t) PROVE Broken(t)'
    BY DEF Breaks
  <2>1. \A any \in Sides : Pooled(any)' = Pooled(any)
    BY <1>1 DEF Pooled
  <2>2. CASE t \in cut
    BY <1>1, <2>2 DEF Broken
  <2>3. CASE Gone("client", t)
    <3>1. t \in Sockets \ {s}
      BY <1>3, <2>3 DEF Gone
    <3>2. HeldBy(t)' = HeldBy(t)
      BY <1>2, <1>5, <3>1, HoldersKept
    <3>3. Gone("client", t)'
      BY <1>1, <1>2, <2>1, <2>3, <3>2 DEF Gone
    <3> QED BY <1>2, <3>3 DEF Broken
  <2>4. CASE Gone("server", t)
    <3>1. Gone("server", t)'
      BY <1>1, <1>2, <2>1, <2>4 DEF Gone
    <3> QED BY <1>2, <3>1 DEF Broken
  <2> QED BY <2>2, <2>3, <2>4 DEF Broken, Sides
<1>10. Local(s)
  <2>1. /\ serving' \in [Sockets -> Works] /\ pool' \in [Sides -> Seq(Sockets)] /\ faults' \in 0..MaxFaults
        /\ cut' \subseteq 1..opened /\ astray \subseteq astray' /\ astray' \subseteq 1..opened
    BY <1>1, <1>2, <1>3 DEF Types
  <2> QED BY <1>1, <1>2, <1>3, <1>4, <1>5, <1>6, <1>8, <1>9, <2>1 DEF Local, EndsMoved
<1>11. ASSUME s \notin astray' PROVE SocketOK(s)'
  <2>1. s \notin astray /\ end["client"][s].listening
    BY <1>1, <1>11
  <2>2. SocketOK(s)
    BY <1>2, <1>3, <2>1 DEF SocketsOK
  <2>3. /\ HeldBy(s) = {} /\ wire["client"][s] = <<>>
        /\ ~Broken(s) => Free(s) /\ wire["server"][s] = <<>>
    BY <1>2, <1>3, <2>1, <2>2, ReusedIsFree
  <2>4. end'["server"] = end["server"]
    BY <1>2, <1>4 DEF EndsMoved, Others
  <2>5. CASE Broken(s)
    <3>1. Broken(s)'
      BY <1>3, <1>9, <2>5 DEF Breaks
    <3>2. wire'["server"][s] = wire["server"][s]
      BY <1>7, <2>5 DEF Wired
    <3>3. ServerOK(s)'
      BY <1>1, <1>2, <1>3, <2>2, <2>4, <3>2, ServerKept DEF SocketOK, EndKept
    <3>4. HeldBy(s)' = {r} /\ wire'["client"][s] = <<>> /\ serving'[s] = serving[s]
      BY <1>1, <1>5, <1>8, <2>3
    <3> QED BY <1>4, <1>5, <3>1, <3>3, <3>4, AskedOK
  <2>6. CASE ~Broken(s)
    <3>1. wire'["server"][s] = <<msg>>
      BY <1>7, <2>1, <2>3, <2>6 DEF Wired
    <3>2. ServerOK(s)'
      <4>1. serving[s].upload # NoRequest => ~end'["server"][s].listening
        BY <2>2, <2>4 DEF SocketOK, ServerOK
      <4> QED BY <1>1, <2>3, <2>6, <3>1, <4>1, AskedServerOK DEF msg
    <3>3. HeldBy(s)' = {r} /\ wire'["client"][s] = <<>> /\ serving'[s] = serving[s] /\ Free(s)
      BY <1>1, <1>5, <1>8, <2>3, <2>6
    <3> QED BY <1>4, <1>5, <3>1, <3>2, <3>3, AskedOK DEF msg
  <2> QED BY <2>5, <2>6
<1> QED BY <1>10, <1>11, StepKeeps


(* The pools take a new socket, that is active. *)
LEMMA JoinedPools ==
  ASSUME Types, Pools, NEW s \in Sockets, opened' = s, s = opened + 1, closing' = closing,
         pool' = [side \in Sides |-> Append(pool[side], s)],
         end' = [side \in Sides |-> [end[side] EXCEPT ![s] = NewEnd]]
  PROVE  /\ Pools' /\ pool' \in [Sides -> Seq(Sockets)]
         /\ \A side \in Sides : Pooled(side)' = Pooled(side) \cup {s} /\ s \notin Pooled(side)
<1>1. pool \in [Sides -> Seq(Sockets)] /\ opened \in Nat /\ end \in [Sides -> [Sockets -> Ends]]
  BY OpenedSocket DEF Types
<1>2. pool' \in [Sides -> Seq(Sockets)]
  BY <1>1
<1>3. ASSUME NEW side \in Sides
      PROVE  /\ closing'[side] \subseteq Pooled(side)' /\ Pooled(side)' \subseteq 1..opened'
             /\ \A i, j \in 1..Len(pool'[side]) : pool'[side][i] = pool'[side][j] => i = j
             /\ Cardinality(Reusable(side)') <= MaxIdle
             /\ Pooled(side)' = Pooled(side) \cup {s} /\ s \notin Pooled(side)
  <2>1. PICK q \in Seq(Sockets) : q = pool[side]
    BY <1>1
  <2>2. pool'[side] = Append(q, s)
    BY <2>1
  <2>3. /\ Len(Append(q, s)) = Len(q) + 1 /\ Len(q) \in Nat /\ Append(q, s)[Len(q) + 1] = s
        /\ \A i \in 1..Len(q) : Append(q, s)[i] = q[i]
    BY <2>1
  <2>4. \A i \in 1..Len(q) + 1 : i \in 1..Len(q) \/ i = Len(q) + 1
    BY <2>3
  <2>5. Pooled(side) \subseteq 1..opened /\ Pooled(side) = {q[i] : i \in 1..Len(q)}
    BY <2>1 DEF Pools, Pooled
  <2>6. s \notin Pooled(side)
    <3>1. s \notin 1..opened
      BY <1>1
    <3>2. Pooled(side) \subseteq 1..opened
      BY DEF Pools
    <3> QED BY <3>1, <3>2
  <2>7. Pooled(side)' = Pooled(side) \cup {s}
    <3>1. Pooled(side)' = {Append(q, s)[i] : i \in 1..Len(q) + 1}
      BY <2>2, <2>3 DEF Pooled
    <3>2. Len(q) + 1 \in 1..Len(q) + 1 /\ \A i \in 1..Len(q) : i \in 1..Len(q) + 1
      BY <2>3
    <3>3. {Append(q, s)[i] : i \in 1..Len(q) + 1} \subseteq {q[i] : i \in 1..Len(q)} \cup {s}
      BY <2>3, <2>4
    <3>4. {q[i] : i \in 1..Len(q)} \subseteq {Append(q, s)[i] : i \in 1..Len(q) + 1}
      <4> SUFFICES ASSUME NEW i \in 1..Len(q) PROVE q[i] \in {Append(q, s)[j] : j \in 1..Len(q) + 1}
        OBVIOUS
      <4>1. q[i] = Append(q, s)[i] /\ i \in 1..Len(q) + 1
        BY <2>3, <3>2
      <4> QED BY <4>1
    <3>5. s \in {Append(q, s)[i] : i \in 1..Len(q) + 1}
      BY <2>3, <3>2
    <3> QED BY <2>5, <3>1, <3>3, <3>4, <3>5
  <2>8. \A i, j \in 1..Len(pool'[side]) : pool'[side][i] = pool'[side][j] => i = j
    <3>1. \A i \in 1..Len(q) : q[i] # s
      BY <2>5, <2>6
    <3>2. \A i, j \in 1..Len(q) : q[i] = q[j] => i = j
      BY <2>1 DEF Pools
    <3>3. Len(pool'[side]) = Len(q) + 1
      BY <2>2, <2>3
    <3>4. ASSUME NEW i \in 1..Len(q) + 1, NEW j \in 1..Len(q) + 1, Append(q, s)[i] = Append(q, s)[j]
          PROVE  i = j
      <4>1. CASE i \in 1..Len(q) /\ j \in 1..Len(q)
        BY <2>3, <3>2, <3>4, <4>1
      <4>2. CASE i = Len(q) + 1 /\ j \in 1..Len(q)
        BY <2>3, <3>1, <3>4, <4>2
      <4>3. CASE j = Len(q) + 1 /\ i \in 1..Len(q)
        BY <2>3, <3>1, <3>4, <4>3
      <4> QED BY <2>4, <4>1, <4>2, <4>3
    <3> TAKE i, j \in 1..Len(pool'[side])
    <3>5. i \in 1..Len(q) + 1 /\ j \in 1..Len(q) + 1
      BY <3>3
    <3> QED BY <2>2, <3>4, <3>5
  <2>9. 1..opened \subseteq 1..opened' /\ s \in 1..opened'
    BY <1>1
  <2>10. Reusable(side)' \subseteq Reusable(side)
    <3>1. end'[side][s].active /\ \A t \in Sockets \ {s} : end'[side][t] = end[side][t]
      BY <1>1 DEF NewEnd
    <3>2. Pooled(side) \subseteq Sockets
      BY <1>1, PooledSockets
    <3> QED BY <2>7, <3>1, <3>2 DEF Reusable
  <2>11. Reusable(side) \subseteq Sockets /\ Cardinality(Reusable(side)) <= MaxIdle
    BY <1>1, PooledSockets DEF Reusable, Pools
  <2>12. Cardinality(Reusable(side)') <= MaxIdle
    BY <2>10, <2>11, FewerAreFew
  <2>13. closing'[side] \subseteq Pooled(side)'
    BY <2>7 DEF Pools
  <2> QED BY <2>5, <2>6, <2>7, <2>8, <2>9, <2>12, <2>13
<1>4. Pools'
  BY <1>3 DEF Pools
<1> QED BY <1>2, <1>3, <1>4

LEMMA AskConnectsKeeps ==
  ASSUME IInv, NEW r \in Requests, AskConnects(r)
  PROVE  IInv'
<1> PICK s : s = opened + 1
  OBVIOUS
<1> DEFINE msg == Message(Type(r), r)
<1>1. /\ request[r].st = "new" /\ opened < MaxSockets /\ opened' = s
      /\ request' = [request EXCEPT ![r] = Asked(s, r)]
      /\ end' = [side \in Sides |-> [end[side] EXCEPT ![s] = NewEnd]]
      /\ pool' = [side \in Sides |-> Append(pool[side], s)]
      /\ wire' = Puts(wire, "server", s, <<msg>>)
      /\ closing' = closing /\ serving' = serving /\ cut' = cut /\ faults' = faults /\ astray' = astray
  BY DEF AskConnects, MayAsk, history
<1>2. /\ Types /\ Pools /\ SocketsOK /\ Fresh /\ "client" \in Sides /\ "server" \in Sides
      /\ "server" \in Sides \ {"client"} /\ "client" \in Sides \ {"server"}
  BY DEF IInv, Sides
<1>3. /\ s \in Sockets /\ s \in 1..opened' /\ s \notin 1..opened /\ opened \in Nat /\ opened' \in 0..MaxSockets
      /\ 1..opened \subseteq 1..opened' /\ s > opened
      /\ \A t \in 1..opened' : t = s \/ t \in 1..opened
      /\ \A t \in Sockets : t > opened' => t > opened /\ t # s
  <2>1. opened \in Nat /\ MaxSockets \in Nat
    BY <1>2, OpenedSocket, BoundsAssumption
  <2> QED BY <1>1, <2>1 DEF Sockets
<1>4. /\ Pools' /\ pool' \in [Sides -> Seq(Sockets)]
      /\ \A side \in Sides : Pooled(side)' = Pooled(side) \cup {s} /\ s \notin Pooled(side)
  BY <1>1, <1>2, <1>3, JoinedPools
<1>5. /\ end' \in [Sides -> [Sockets -> Ends]] /\ \A side \in Sides : end'[side][s] = NewEnd
      /\ \A side \in Sides, t \in Sockets \ {s} : end'[side][t] = end[side][t]
  <2>1. NewEnd \in Ends
    BY DEF NewEnd, Ends
  <2>2. \A side \in Sides : end[side] \in [Sockets -> Ends]
    BY <1>2 DEF Types
  <2> HIDE DEF msg
  <2> QED BY <1>1, <1>3, <2>1, <2>2
<1>6. request' = [request EXCEPT ![r] = Asked(s, r)] /\ request[r].st = "new"
  BY <1>1
<1>7. request' \in [Requests -> States] /\ request'[r] = Asked(s, r)
  BY <1>2, <1>3, <1>6, AskedIs
<1>8. \A q \in Requests \ {r} : request'[q] = request[q]
  BY <1>2, <1>3, <1>6, AskedIs
<1>9. Asked(s, r).st = "asked" /\ Asked(s, r).socket = s /\ Asked(s, r).left = NbHash
  BY DEF Asked
<1>10. RequestOnly(s) /\ HeldBy(s)' = HeldBy(s) \cup {r}
  BY <1>2, <1>3, <1>6, AskedIs
<1>11. Message(Type(r), r) \in Messages
  BY <1>2, <1>3, <1>6, AskedIs
<1>12. Wired(s, "server", "client", <<msg>>)
  <2>1. <<msg>> \in Seq(Messages)
    BY <1>11
  <2> HIDE DEF msg
  <2> QED BY <1>1, <1>2, <1>3, <2>1, WiredIs
<1> HIDE DEF msg
<1>13. HeldBy(s) = {} /\ serving[s] = NoWork /\ wire["client"][s] = <<>>
  <2>1. \A q \in Requests : Live(q) => request[q].socket \in 1..opened
    BY <1>2 DEF Types, RequestTypes
  <2> QED BY <1>2, <1>3, <2>1 DEF HeldBy, Fresh
<1>14. RequestTypes'
  <2>1. \A q \in Requests \ {r} : /\ request'[q].socket <= opened'
                                  /\ Live(q)' => request'[q].socket \in 1..opened'
                                  /\ request'[q].st = "streaming" => q \in ChunkRequests
                                  /\ Live(q)' /\ q \in HashesRequests => request'[q].left >= 1
    <3> TAKE q \in Requests \ {r}
    <3>1. request[q] \in States /\ request[q].socket \in Nat
      BY <1>2 DEF Types, RequestTypes, States
    <3>2. request'[q].socket <= opened'
      BY <1>1, <1>2, <1>3, <1>8, <3>1 DEF Types, RequestTypes
    <3> QED BY <1>2, <1>3, <1>8, <3>2 DEF Types, RequestTypes, Live
  <2>2. request'[r].socket = s /\ request'[r].st = "asked" /\ request'[r].left = NbHash
    BY <1>7, <1>9
  <2>3. s <= opened' /\ NbHash >= 1
    BY <1>1, <1>3, BoundsAssumption
  <2> QED BY <1>3, <1>7, <2>1, <2>2, <2>3 DEF RequestTypes
<1>15. Types'
  <2>1. /\ cut' \subseteq 1..opened' /\ astray' \subseteq 1..opened' /\ faults' \in 0..MaxFaults
        /\ serving' \in [Sockets -> Works] /\ closing' \in [Sides -> SUBSET Sockets]
    BY <1>1, <1>2, <1>3 DEF Types
  <2> QED BY <1>3, <1>4, <1>5, <1>12, <1>14, <2>1 DEF Types, Wired
<1>16. Fresh'
  <2> SUFFICES ASSUME NEW t \in Sockets, t > opened'
               PROVE  serving'[t] = NoWork /\ \A side \in Sides : wire'[side][t] = <<>>
    BY DEF Fresh
  <2>1. t > opened /\ t \in Sockets \ {s}
    BY <1>3
  <2> QED BY <1>1, <1>2, <1>12, <2>1 DEF Fresh, Wired
<1>17. ASSUME NEW t \in 1..opened, t \notin astray PROVE SocketOK(t)'
  <2>1. t \in Sockets \ {s}
    BY <1>2, <1>3, OpenedSocket
  <2>2. HeldBy(t)' = HeldBy(t) /\ \A q \in HeldBy(t) : request'[q] = request[q]
    BY <1>2, <1>10, <2>1, HoldersKept
  <2>3. ASSUME NEW side \in Sides, Gone(side, t) PROVE Gone(side, t)'
    <3>1. t \notin Pooled(side)' /\ t <= opened'
      BY <1>3, <1>4, <2>1, <2>3 DEF Gone
    <3> QED BY <1>1, <2>2, <2>3, <3>1 DEF Gone
  <2>4. Broken(t) => Broken(t)'
    BY <1>1, <2>3 DEF Broken
  <2>5. Kept(t)
    BY <1>1, <1>5, <1>12, <2>1, <2>2, <2>4 DEF Kept, EndKept, Wired
  <2> QED BY <1>2, <1>17, <2>1, <2>5, Untouched DEF SocketsOK
<1>18. SocketOK(s)'
  <2>1. Free(s) /\ serving[s].upload = NoRequest /\ serving'[s] = serving[s]
    BY <1>1, <1>13 DEF Free, NoWork, Unwritten
  <2>2. /\ HeldBy(s)' = {r} /\ wire'["client"][s] = <<>> /\ wire'["server"][s] = <<Message(Type(r), r)>>
        /\ end'["client"][s].active
    BY <1>2, <1>5, <1>10, <1>12, <1>13 DEF Wired, NewEnd, msg
  <2>3. ServerOK(s)'
    BY <2>1, <2>2, AskedServerOK
  <2> QED BY <1>7, <2>1, <2>2, <2>3, AskedOK
<1>19. SocketsOK'
  <2> SUFFICES ASSUME NEW t \in (1..opened') \ astray' PROVE SocketOK(t)'
    BY DEF SocketsOK
  <2>1. CASE t = s
    BY <1>18, <2>1
  <2>2. CASE t \in 1..opened
    BY <1>1, <1>17, <2>2
  <2> QED BY <1>3, <2>1, <2>2
<1> QED BY <1>4, <1>15, <1>16, <1>19 DEF IInv


-----------------------------------------------------------------------------
(* The server.                                                             *)

LEMMA BrokenRequests ==
  ASSUME Types, NEW s \in Sockets, SocketOK(s), Broken(s)', Broken(s), request' = request,
         end'["client"] = end["client"], HeldBy(s)' = HeldBy(s), wire'["client"][s] = wire["client"][s]
  PROVE  AwaitedOK(s)' /\ RequestsOK(s)'
<1>1. (Used(s)' <=> Used(s)) /\ (Begins(s)' <=> Begins(s)) /\ Listed(s)' = Listed(s)
  BY DEF Used, Begins, Listed
<1>2. AwaitedOK(s)'
  BY <1>1 DEF AwaitedOK, SocketOK
<1>3. ASSUME NEW r \in HeldBy(s)
      PROVE  /\ r \in EntriesRequests => EntriesOK(s, r)'
             /\ r \in ChunkRequests => ChunkOK(s, r)'
             /\ r \in HashesRequests => HashesOK(s, r)'
  <2>1. /\ r \in EntriesRequests => EntriesOK(s, r)
        /\ r \in ChunkRequests => ChunkOK(s, r)
        /\ r \in HashesRequests => HashesOK(s, r)
    BY HolderOK
  <2>2. EntriesOK(s, r) => EntriesOK(s, r)'
    BY DEF EntriesOK
  <2>3. ChunkOK(s, r) => ChunkOK(s, r)'
    BY DEF ChunkOK
  <2>4. Refused(s, r)' <=> Refused(s, r)
    BY DEF Refused
  <2>5. HashesOK(s, r) => HashesOK(s, r)'
    BY <1>1, <2>4 DEF HashesOK
  <2> QED BY <2>1, <2>2, <2>3, <2>5
<1>4. RequestsOK(s)'
  BY <1>3 DEF RequestsOK
<1> QED BY <1>2, <1>4

(* What a step of the server leaves alone. *)
ServerOnly(s) ==
  /\ s \in 1..opened /\ request' = request /\ opened' = opened /\ pool' = pool /\ cut' = cut
  /\ astray' = astray /\ faults' = faults
Frame(s) ==
  /\ ServerOnly(s) /\ EndsMoved("server", s)
  /\ serving' \in [Sockets -> Works] /\ \A t \in Sockets \ {s} : serving'[t] = serving[t]
  /\ Idles(s) => serving'[s].upload = NoRequest /\ serving'[s].kept = {}
  /\ wire' \in [Sides -> [Sockets -> Seq(Messages)]]
  /\ \A t \in Sockets \ {s}, any \in Sides : wire'[any][t] = wire[any][t]
  /\ Broken(s) => wire'["client"][s] = wire["client"][s]

(* The request r waits for what the server does. *)
Awaits(s, r) ==
  /\ s \notin astray /\ SocketOK(s) /\ Used(s) /\ ~Broken(s)
  /\ r \in Requests /\ HeldBy(s)' = {r} /\ HeldBy(s) = {r} /\ end'["client"] = end["client"]

LEMMA FrameIs ==
  ASSUME IInv, NEW s, Frame(s)
  PROVE  /\ Local(s) /\ (Broken(s) => Broken(s)') /\ HeldBy(s)' = HeldBy(s) /\ s \in Sockets
         /\ end'["client"] = end["client"] /\ request' = request
         /\ "client" \in Sides /\ "server" \in Sides /\ Types
<1>1. Types /\ "client" \in Sides \ {"server"} /\ "server" \in Sides
  BY DEF IInv, Sides
<1>2. cut \subseteq cut' /\ cut' \subseteq 1..opened /\ faults' \in 0..MaxFaults
  BY <1>1 DEF Types, Frame, ServerOnly
<1>3. end'["client"] = end["client"]
  BY <1>1 DEF Frame, EndsMoved, Others
<1>4. Local(s) /\ (Broken(s) => Broken(s)') /\ HeldBy(s)' = HeldBy(s) /\ s \in Sockets
  BY <1>1, <1>2, LocalIs DEF Frame, ServerOnly
<1> QED BY <1>1, <1>3, <1>4 DEF Frame, ServerOnly

LEMMA ServerKeeps ==
  ASSUME IInv, NEW s, Frame(s), s \notin astray => ServerOK(s)',
         s \notin astray /\ Used(s) /\ ~Broken(s) => AwaitedOK(s)' /\ RequestsOK(s)'
  PROVE  IInv'
<1>1. /\ Local(s) /\ (Broken(s) => Broken(s)') /\ HeldBy(s)' = HeldBy(s) /\ s \in Sockets
      /\ end'["client"] = end["client"] /\ request' = request /\ Types
  BY FrameIs
<1>2. ASSUME s \notin astray PROVE SocketOK(s)'
  <2>1. SocketOK(s)
    BY <1>2 DEF IInv, SocketsOK, Frame, ServerOnly
  <2>2. HoldOK(s)'
    BY <1>1, <2>1 DEF SocketOK, HoldOK
  <2>3. AwaitedOK(s)' /\ RequestsOK(s)'
    <3>1. CASE Used(s) /\ ~Broken(s)
      BY <1>2, <3>1
    <3>2. CASE ~Used(s)
      <4>1. HeldBy(s)' = {} /\ ~Used(s)'
        BY <1>1, <3>2 DEF Used
      <4> QED BY <4>1 DEF AwaitedOK, RequestsOK
    <3>3. CASE Broken(s)
      BY <1>1, <2>1, <3>3, BrokenRequests DEF Frame
    <3> QED BY <3>1, <3>2, <3>3
  <2> QED BY <1>2, <2>2, <2>3 DEF SocketOK
<1>3. astray' = astray
  BY DEF Frame, ServerOnly
<1> QED BY <1>1, <1>2, <1>3, StepKeeps

LEMMA AwaitsOne ==
  ASSUME NEW s, NEW r, HeldBy(s)' = {r},
         \A i \in 1..Len(wire'["client"][s]) : wire'["client"][s][i].r = r,
         wire'["server"][s] = <<>>,
         serving'[s].entries = NoRequest \/ (serving'[s].entries = r /\ wire'["client"][s] = <<>>),
         \A i \in 1..Len(serving'[s].hashes) : serving'[s].hashes[i] = r,
         serving'[s].upload \in {NoRequest, r}
  PROVE  AwaitedOK(s)'
BY DEF AwaitedOK, Unwritten

LEMMA RequestsOne ==
  ASSUME NEW s, NEW r \in Requests, HeldBy(s)' = {r},
         r \in EntriesRequests => EntriesOK(s, r)',
         r \in ChunkRequests => ChunkOK(s, r)',
         r \in HashesRequests => HashesOK(s, r)'
  PROVE  RequestsOK(s)'
BY DEF RequestsOK

(* The server reads a message of the client. *)
LEMMA ServerHears ==
  ASSUME IInv, NEW s \in Sockets, NEW type, Reads("server", s, type), NEW m, m = wire["server"][s][1]
  PROVE  /\ "client" \in Sides \ {"server"} /\ "server" \in Sides \ {"client"} /\ "server" \in Sides
         /\ s \in 1..opened /\ end["server"][s].listening /\ wire["server"][s] # <<>>
         /\ m \in Messages /\ m.type = type /\ Head(wire["server"][s]) = m
         /\ Types /\ Pools
         /\ But(Woken("server", s), "server", s) /\ NoMoreReusable("server", s, Woken("server", s))
         /\ Is(Woken("server", s)[s], TRUE, TRUE, end["server"][s].nbHash)
<1>1. "client" \in Sides \ {"server"} /\ "server" \in Sides \ {"client"} /\ "server" \in Sides
  BY DEF Sides
<1>2. /\ s \in 1..opened /\ end["server"][s].listening /\ wire["server"][s] # <<>>
      /\ m \in Messages /\ m.type = type /\ Head(wire["server"][s]) = m
      /\ Types /\ Pools
  BY <1>1, ReadsIs
<1>3. end \in [Sides -> [Sockets -> Ends]]
  BY <1>2 DEF Types
<1>4. /\ But(Woken("server", s), "server", s)
      /\ Is(Woken("server", s)[s], TRUE, end["server"][s].listening, end["server"][s].nbHash)
  BY <1>1, <1>3, WokenIs
<1>5. end["server"][s].listening = TRUE
  BY <1>1, <1>2, <1>3, EndsTyped
<1> QED BY <1>1, <1>2, <1>4, <1>5 DEF NoMoreReusable, Is

LEMMA AskedFor ==
  ASSUME IInv, NEW s \in Sockets, NEW type, Reads("server", s, type), s \notin astray,
         NEW r, r = wire["server"][s][1].r
  PROVE  /\ SocketOK(s) /\ Len(wire["server"][s]) = 1
         /\ serving[s].entries = NoRequest /\ serving[s].hashes = <<>> /\ serving[s].upload = NoRequest
         /\ r \in Requests
         /\ Used(s) /\ ~Broken(s) =>
              HeldBy(s) = {r} /\ wire["client"][s] = <<>> /\ request[r].st = "asked"
<1>1. /\ s \in 1..opened /\ end["server"][s].listening /\ wire["server"][s] # <<>>
      /\ wire["server"][s][1] \in Messages /\ Types /\ SocketOK(s) /\ "server" \in Sides
  <2>1. "server" \in Sides
    BY DEF Sides
  <2> QED BY <2>1, ReadsIs
<1>2. /\ ~Answering(s) /\ Len(wire["server"][s]) = 1 /\ serving[s].upload = NoRequest
  BY <1>1 DEF SocketOK, ServerOK
<1>3. serving[s].entries = NoRequest /\ serving[s].hashes = <<>>
  BY <1>2 DEF Answering
<1>4. r \in Requests
  BY <1>1, MessageFor
<1>5. ASSUME Used(s), ~Broken(s)
      PROVE  HeldBy(s) = {r} /\ wire["client"][s] = <<>> /\ request[r].st = "asked"
  <2>1. r \in HeldBy(s) /\ wire["client"][s] = <<>>
    BY <1>1, <1>5 DEF SocketOK, AwaitedOK
  <2>2. /\ HeldBy(s) = {r} /\ request[r].st \in {"asked", "streaming"}
        /\ r \in ChunkRequests => ChunkOK(s, r)
        /\ request[r].st = "streaming" => r \in ChunkRequests
    BY <1>1, <2>1, HolderOK
  <2>3. request[r].st # "streaming"
    BY <1>1, <1>5, <2>2 DEF ChunkOK
  <2> QED BY <2>1, <2>2, <2>3
<1> QED BY <1>1, <1>2, <1>3, <1>4, <1>5

LEMMA AnsweredIs ==
  ASSUME Types, NEW s \in Sockets, wire["server"][s] # <<>>, NEW m \in Messages, wire' = Answered(s, m)
  PROVE  /\ wire' \in [Sides -> [Sockets -> Seq(Messages)]]
         /\ \A t \in Sockets \ {s}, any \in Sides : wire'[any][t] = wire[any][t]
         /\ Broken(s) => wire'["client"][s] = wire["client"][s]
         /\ ~Broken(s) => wire'["client"][s] = Append(wire["client"][s], m)
         /\ Len(wire["server"][s]) = 1 => wire'["server"][s] = <<>>
<1>1. /\ wire \in [Sides -> [Sockets -> Seq(Messages)]] /\ "client" \in Sides /\ "server" \in Sides
      /\ wire["server"][s] \in Seq(Messages) /\ wire["client"][s] \in Seq(Messages)
  BY SocketTypes DEF Types
<1> PICK w : w = wire["server"][s]
  OBVIOUS
<1> PICK q : q = IF Broken(s) THEN wire["client"][s] ELSE Append(wire["client"][s], m)
  OBVIOUS
<1>2. /\ q \in Seq(Messages) /\ (Broken(s) => q = wire["client"][s])
      /\ ~Broken(s) => q = Append(wire["client"][s], m)
  BY <1>1
<1>3. Tail(w) \in Seq(Messages) /\ Len(Tail(w)) = Len(w) - 1
  BY <1>1
<1>4. ASSUME Len(w) = 1 PROVE Tail(w) = <<>>
  <2>1. Len(Tail(w)) = 0
    BY <1>3, <1>4
  <2> QED BY <1>3, <2>1, NoneLeft
<1> DEFINE p == Taken("server", s)
<1>5. /\ p \in [Sides -> [Sockets -> Seq(Messages)]] /\ p["server"][s] = Tail(w)
      /\ \A any \in Sides, t \in Sockets \ {s} : p[any][t] = wire[any][t]
  <2>1. p = [wire EXCEPT !["server"] = [wire["server"] EXCEPT ![s] = Tail(w)]]
    BY DEF Taken, Puts
  <2> HIDE DEF p
  <2> QED BY <1>1, <1>3, <2>1
<1>6. wire' = [p EXCEPT !["client"] = [p["client"] EXCEPT ![s] = q]]
  BY DEF Answered, Puts
<1> HIDE DEF p
<1>7. /\ wire' \in [Sides -> [Sockets -> Seq(Messages)]] /\ wire'["client"][s] = q
      /\ wire'["server"][s] = Tail(w)
      /\ \A any \in Sides, t \in Sockets \ {s} : wire'[any][t] = wire[any][t]
  BY <1>1, <1>2, <1>5, <1>6
<1> QED BY <1>2, <1>4, <1>7

LEMMA FinishedIs ==
  ASSUME NEW x \in Ends, NEW close \in BOOLEAN, NEW after, Finished(x, close, after)
  PROVE  after \in Ends /\ ~after.active /\ after.nbHash = x.nbHash /\ (~x.active => after = x)
<1>1. Resting(x) \in Ends /\ ~Resting(x).active /\ Resting(x).nbHash = x.nbHash
  BY DEF Resting, Ends
<1> QED BY <1>1, ClosedIs DEF Finished

(* The message read is answered or only taken, and the work goes on. *)
WorksOn(s, work2) ==
  /\ work2 \in Works /\ serving' = [serving EXCEPT ![s] = work2]
  /\ Idles(s) => work2.upload = NoRequest /\ work2.kept = {}

LEMMA WorksOnIs ==
  ASSUME Types, NEW s \in Sockets, NEW w, WorksOn(s, w)
  PROVE  /\ serving' \in [Sockets -> Works] /\ \A t \in Sockets \ {s} : serving'[t] = serving[t]
         /\ Idles(s) => serving'[s].upload = NoRequest /\ serving'[s].kept = {}
         /\ serving'[s] = w
BY DEF WorksOn, Types

LEMMA AnswerFrame ==
  ASSUME IInv, NEW s \in Sockets, NEW type, Reads("server", s, type), NEW m \in Messages,
         wire' = Answered(s, m), ServerOnly(s), EndsMoved("server", s), NEW w, WorksOn(s, w)
  PROVE  /\ Frame(s) /\ serving'[s] = w
         /\ ~Broken(s) => wire'["client"][s] = Append(wire["client"][s], m)
         /\ Len(wire["server"][s]) = 1 => wire'["server"][s] = <<>>
<1>1. Types /\ wire["server"][s] # <<>>
  BY ServerHears
<1>2. /\ serving' \in [Sockets -> Works] /\ \A t \in Sockets \ {s} : serving'[t] = serving[t]
      /\ Idles(s) => serving'[s].upload = NoRequest /\ serving'[s].kept = {}
      /\ serving'[s] = w
  BY <1>1, WorksOnIs
<1>3. /\ wire' \in [Sides -> [Sockets -> Seq(Messages)]]
      /\ \A t \in Sockets \ {s}, any \in Sides : wire'[any][t] = wire[any][t]
      /\ Broken(s) => wire'["client"][s] = wire["client"][s]
      /\ ~Broken(s) => wire'["client"][s] = Append(wire["client"][s], m)
      /\ Len(wire["server"][s]) = 1 => wire'["server"][s] = <<>>
  BY <1>1, AnsweredIs
<1> QED BY <1>2, <1>3 DEF Frame

(* What is awaited, once the only message is answered. *)
LEMMA AnswerAwaited ==
  ASSUME IInv, NEW s \in Sockets, NEW type, Reads("server", s, type), s \notin astray, Used(s), ~Broken(s),
         NEW r, r = wire["server"][s][1].r, NEW m \in Messages, m.r = r, Frame(s),
         wire'["client"][s] = Append(wire["client"][s], m), wire'["server"][s] = <<>>,
         serving'[s].entries = NoRequest,
         \A i \in 1..Len(serving'[s].hashes) : serving'[s].hashes[i] = r,
         serving'[s].upload \in {NoRequest, r}
  PROVE  /\ AwaitedOK(s)' /\ Awaits(s, r) /\ wire'["client"][s] = <<m>>
         /\ request'[r] = request[r] /\ request[r].st = "asked" /\ end'["client"] = end["client"]
<1>1. SocketOK(s) /\ r \in Requests /\ HeldBy(s) = {r} /\ wire["client"][s] = <<>> /\ request[r].st = "asked"
  BY AskedFor
<1>2. HeldBy(s)' = HeldBy(s) /\ end'["client"] = end["client"] /\ request' = request
  BY FrameIs
<1>3. wire'["client"][s] = <<m>>
  BY <1>1
<1>4. AwaitedOK(s)'
  <2>1. \A i \in 1..Len(wire'["client"][s]) : wire'["client"][s][i].r = r
    BY <1>3
  <2> QED BY <1>1, <1>2, <2>1, AwaitsOne
<1> QED BY <1>1, <1>2, <1>3, <1>4 DEF Awaits

LEMMA RefusesChunkKeeps ==
  ASSUME IInv, NEW s \in Sockets, RefusesChunk(s)
  PROVE  IInv'
<1> PICK r : r = wire["server"][s][1].r
  OBVIOUS
<1> PICK m : m = Message("NO_CHUNK", r)
  OBVIOUS
<1> PICK e : e = Woken("server", s)
  OBVIOUS
<1>1. /\ Reads("server", s, "GET_CHUNK") /\ Finish("server", e, s, FALSE)
      /\ wire' = Answered(s, Message("NO_CHUNK", Head(wire["server"][s]).r))
      /\ request' = request /\ opened' = opened /\ pool' = pool /\ serving' = serving /\ cut' = cut
      /\ faults' = faults /\ astray' = astray
  BY DEF RefusesChunk, history
<1>2. PICK asked : asked = wire["server"][s][1]
  OBVIOUS
<1>3. /\ "server" \in Sides /\ s \in 1..opened /\ Head(wire["server"][s]) = asked
      /\ asked \in Messages /\ asked.type = "GET_CHUNK" /\ Types /\ Pools
  <2>1. "server" \in Sides
    BY DEF Sides
  <2> QED BY <1>1, <1>2, <2>1, ReadsIs
<1>4. But(e, "server", s) /\ NoMoreReusable("server", s, e) /\ Is(e[s], TRUE, TRUE, end["server"][s].nbHash)
  BY <1>1, ServerHears
<1>5. r \in ChunkRequests /\ m \in Messages /\ m.r = r /\ wire' = Answered(s, m)
  <2>1. r \in ChunkRequests
    BY <1>2, <1>3, MessageFor
  <2> QED BY <1>1, <1>2, <1>3, <2>1 DEF Message, Messages
<1>6. EndsMoved("server", s) /\ Finished(e[s], FALSE, end'["server"][s])
  BY <1>1, <1>3, <1>4, FinishMoves
<1>7. WorksOn(s, serving[s])
  <2>1. serving[s] \in Works /\ serving' = [serving EXCEPT ![s] = serving[s]]
    BY <1>1, <1>3 DEF Types
  <2> QED BY <2>1 DEF WorksOn, Idles
<1>8. /\ Frame(s) /\ serving'[s] = serving[s]
      /\ ~Broken(s) => wire'["client"][s] = Append(wire["client"][s], m)
      /\ Len(wire["server"][s]) = 1 => wire'["server"][s] = <<>>
  <2>1. ServerOnly(s)
    BY <1>1, <1>3 DEF ServerOnly
  <2> QED BY <1>1, <1>5, <1>6, <1>7, <2>1, AnswerFrame
<1>9. ASSUME s \notin astray
      PROVE  /\ ServerOK(s)'
             /\ Used(s) /\ ~Broken(s) => AwaitedOK(s)' /\ RequestsOK(s)'
  <2>1. /\ wire'["server"][s] = <<>> /\ serving'[s].entries = NoRequest
        /\ serving'[s].hashes = <<>> /\ serving'[s].upload = NoRequest /\ r \in Requests
    BY <1>1, <1>8, <1>9, AskedFor
  <2>2. ServerOK(s)'
    BY <2>1 DEF ServerOK, Answering
  <2>3. ASSUME Used(s), ~Broken(s) PROVE AwaitedOK(s)' /\ RequestsOK(s)'
    <3>1. /\ AwaitedOK(s)' /\ Awaits(s, r) /\ wire'["client"][s] = <<m>>
          /\ request'[r] = request[r] /\ request[r].st = "asked"
      <4>1. Reads("server", s, "GET_CHUNK") /\ wire'["client"][s] = Append(wire["client"][s], m)
        BY <1>1, <1>8, <2>3
      <4>2. \A i \in 1..Len(serving'[s].hashes) : serving'[s].hashes[i] = r
        BY <2>1
      <4>3. serving'[s].upload \in {NoRequest, r} /\ Frame(s)
        BY <1>8, <2>1
      <4> QED BY <1>5, <1>9, <2>1, <2>3, <4>1, <4>2, <4>3, AnswerAwaited
    <3>2. ChunkOK(s, r)'
      BY <2>1, <3>1 DEF ChunkOK, Unwritten
    <3>3. RequestsOK(s)'
      BY <1>5, <3>1, <3>2, KindsApart, RequestsOne DEF Awaits
    <3> QED BY <3>1, <3>3
  <2> QED BY <2>2, <2>3
<1> QED BY <1>8, <1>9, ServerKeeps


LEMMA ServerCounts ==
  ASSUME IInv, NEW s \in Sockets, NEW type, Reads("server", s, type), NEW n \in Int,
         NEW e, e = Counts(Woken("server", s), s, n)
  PROVE  But(e, "server", s) /\ NoMoreReusable("server", s, e) /\ Is(e[s], TRUE, TRUE, n)
<1>1. /\ "server" \in Sides /\ But(Woken("server", s), "server", s)
      /\ Is(Woken("server", s)[s], TRUE, TRUE, end["server"][s].nbHash)
  BY ServerHears
<1>2. But(e, "server", s) /\ Is(e[s], Woken("server", s)[s].active, Woken("server", s)[s].listening, n)
  BY <1>1, CountsIs
<1> QED BY <1>1, <1>2 DEF Is, NoMoreReusable

LEMMA PostedIs ==
  ASSUME Types, NEW s \in Sockets, NEW h \in Seq(HashesRequests), Posted(s, h),
         NEW w, w = [serving[s] EXCEPT !.hashes = h]
  PROVE  /\ WorksOn(s, w) /\ w.hashes = h /\ w.entries = serving[s].entries
         /\ w.upload = serving[s].upload /\ w.written = serving[s].written
<1>1. serving[s] \in Works
  BY SocketTypes
<1>2. w \in Works /\ w.hashes = h /\ w.entries = serving[s].entries /\ w.kept = serving[s].kept
      /\ w.upload = serving[s].upload /\ w.written = serving[s].written
  BY <1>1 DEF Works
<1>3. serving' = [serving EXCEPT ![s] = w]
  BY DEF Posted
<1> QED BY <1>2, <1>3 DEF WorksOn, Idles

LEMMA PrefixIs ==
  ASSUME NEW S, NEW q \in Seq(S), NEW k \in 0..Len(q)
  PROVE  SubSeq(q, 1, k) \in Seq(S) /\ (q = <<>> => SubSeq(q, 1, k) = <<>>)
<1>1. SubSeq(q, 1, k) \in Seq(S) /\ Len(SubSeq(q, 1, k)) = k
  OBVIOUS
<1>2. ASSUME q = <<>> PROVE SubSeq(q, 1, k) = <<>>
  <2>1. k = 0
    BY <1>2
  <2> QED BY <1>1, <2>1, NoneLeft
<1> QED BY <1>1, <1>2

LEMMA RefusesHashesKeeps ==
  ASSUME IInv, NEW s \in Sockets, RefusesHashes(s)
  PROVE  IInv'
<1> PICK asked : asked = wire["server"][s][1]
  OBVIOUS
<1> PICK r : r = wire["server"][s][1].r
  OBVIOUS
<1> PICK m : m = Message("NO_HASHES", r)
  OBVIOUS
<1> PICK e : e = Counts(Woken("server", s), s, 0)
  OBVIOUS
<1>1. /\ Reads("server", s, "GET_HASHES") /\ Finish("server", e, s, FALSE)
      /\ \E k \in 0..Len(serving[s].hashes) : Posted(s, SubSeq(serving[s].hashes, 1, k))
      /\ wire' = Answered(s, Message("NO_HASHES", Head(wire["server"][s]).r))
      /\ request' = request /\ opened' = opened /\ pool' = pool /\ cut' = cut
      /\ faults' = faults /\ astray' = astray
  BY DEF RefusesHashes, history
<1>2. /\ "server" \in Sides /\ s \in 1..opened /\ Head(wire["server"][s]) = asked
      /\ asked \in Messages /\ asked.type = "GET_HASHES" /\ Types /\ Pools
  <2>1. "server" \in Sides
    BY DEF Sides
  <2> QED BY <1>1, <2>1, ReadsIs
<1>3. But(e, "server", s) /\ NoMoreReusable("server", s, e) /\ Is(e[s], TRUE, TRUE, 0)
  <2>1. 0 \in Int /\ Reads("server", s, "GET_HASHES")
    BY <1>1
  <2> QED BY <2>1, ServerCounts
<1>4. r \in HashesRequests /\ m \in Messages /\ m.r = r /\ wire' = Answered(s, m)
  <2>1. r \in HashesRequests
    BY <1>2, MessageFor
  <2> QED BY <1>1, <1>2, <2>1 DEF Message, Messages
<1>5. EndsMoved("server", s) /\ Finished(e[s], FALSE, end'["server"][s])
  BY <1>1, <1>2, <1>3, FinishMoves
<1>6. PICK h \in Seq(HashesRequests) : Posted(s, h) /\ (serving[s].hashes = <<>> => h = <<>>)
  <2>1. serving[s].hashes \in Seq(HashesRequests)
    BY <1>2, SocketTypes
  <2>2. PICK k \in 0..Len(serving[s].hashes) : Posted(s, SubSeq(serving[s].hashes, 1, k))
    BY <1>1
  <2> QED BY <2>1, <2>2, PrefixIs
<1> PICK w : w = [serving[s] EXCEPT !.hashes = h]
  OBVIOUS
<1>7. WorksOn(s, w) /\ w.hashes = h /\ w.entries = serving[s].entries /\ w.upload = serving[s].upload
  BY <1>2, <1>6, PostedIs
<1>8. /\ Frame(s) /\ serving'[s] = w
      /\ ~Broken(s) => wire'["client"][s] = Append(wire["client"][s], m)
      /\ Len(wire["server"][s]) = 1 => wire'["server"][s] = <<>>
  <2>1. ServerOnly(s)
    BY <1>1, <1>2 DEF ServerOnly
  <2> QED BY <1>1, <1>4, <1>5, <1>7, <2>1, AnswerFrame
<1>9. ASSUME s \notin astray
      PROVE  /\ ServerOK(s)'
             /\ Used(s) /\ ~Broken(s) => AwaitedOK(s)' /\ RequestsOK(s)'
  <2>1. /\ wire'["server"][s] = <<>> /\ serving'[s].entries = NoRequest
        /\ serving'[s].hashes = <<>> /\ serving'[s].upload = NoRequest /\ r \in Requests
    BY <1>1, <1>6, <1>7, <1>8, <1>9, AskedFor
  <2>2. ServerOK(s)'
    BY <2>1 DEF ServerOK, Answering
  <2>3. ASSUME Used(s), ~Broken(s) PROVE AwaitedOK(s)' /\ RequestsOK(s)'
    <3>1. /\ AwaitedOK(s)' /\ Awaits(s, r) /\ wire'["client"][s] = <<m>>
          /\ request'[r] = request[r] /\ request[r].st = "asked"
      <4>1. Reads("server", s, "GET_HASHES") /\ wire'["client"][s] = Append(wire["client"][s], m)
        BY <1>1, <1>8, <2>3
      <4>2. \A i \in 1..Len(serving'[s].hashes) : serving'[s].hashes[i] = r
        BY <2>1
      <4>3. serving'[s].upload \in {NoRequest, r} /\ Frame(s)
        BY <1>8, <2>1
      <4> QED BY <1>4, <1>9, <2>1, <2>3, <4>1, <4>2, <4>3, AnswerAwaited
    <3>2. HashesOK(s, r)'
      <4>1. Refused(s, r)' /\ ~Begins(s)'
        BY <3>1 DEF Refused, Begins, Message
      <4> QED BY <2>1, <4>1 DEF HashesOK
    <3>3. RequestsOK(s)'
      BY <1>4, <3>1, <3>2, KindsApart, RequestsOne DEF Awaits
    <3> QED BY <3>1, <3>3
  <2> QED BY <2>2, <2>3
<1> QED BY <1>8, <1>9, ServerKeeps

Repeated(r) == [i \in 1..NbHash |-> r]
Repeats(h, r) == Len(h) = NbHash /\ \A i \in 1..Len(h) : h[i] = r

LEMMA RepeatIs ==
  ASSUME NEW r \in HashesRequests, NEW q \in Seq(HashesRequests), NEW k \in 0..Len(q),
         NEW h, h = SubSeq(q, 1, k) \o Repeated(r)
  PROVE  /\ h \in Seq(HashesRequests)
         /\ q = <<>> => Repeats(h, r)
<1> PICK rest : rest = Repeated(r)
  OBVIOUS
<1>1. rest \in Seq(HashesRequests) /\ Len(rest) = NbHash /\ \A i \in 1..NbHash : rest[i] = r
  BY BoundsAssumption DEF Repeated
<1> PICK first : first = SubSeq(q, 1, k)
  OBVIOUS
<1>2. first \in Seq(HashesRequests) /\ (q = <<>> => first = <<>>)
  BY PrefixIs
<1>3. h = first \o rest
  OBVIOUS
<1>4. h \in Seq(HashesRequests)
  BY <1>1, <1>2, <1>3, ConcatProperties
<1>5. ASSUME q = <<>> PROVE h = rest
  <2>1. <<>> \o rest = rest
    BY <1>1, ConcatEmptySeq
  <2> QED BY <1>2, <1>3, <1>5, <2>1
<1> QED BY <1>1, <1>4, <1>5 DEF Repeats

LEMMA ServesHashesKeeps ==
  ASSUME IInv, NEW s \in Sockets, ServesHashes(s)
  PROVE  IInv'
<1> PICK asked : asked = wire["server"][s][1]
  OBVIOUS
<1> PICK r : r = wire["server"][s][1].r
  OBVIOUS
<1> PICK m : m = Message("HASHES", r)
  OBVIOUS
<1> PICK e : e = Counts(Woken("server", s), s, NbHash)
  OBVIOUS
<1>1. /\ Reads("server", s, "GET_HASHES") /\ Becomes("server", e, {})
      /\ \E k \in 0..Len(serving[s].hashes) :
           Posted(s, SubSeq(serving[s].hashes, 1, k) \o [i \in 1..NbHash |-> Head(wire["server"][s]).r])
      /\ wire' = Answered(s, Message("HASHES", Head(wire["server"][s]).r))
      /\ request' = request /\ opened' = opened /\ pool' = pool /\ cut' = cut
      /\ faults' = faults /\ astray' = astray
  BY DEF ServesHashes, history
<1>2. /\ "server" \in Sides /\ s \in 1..opened /\ Head(wire["server"][s]) = asked
      /\ asked \in Messages /\ asked.type = "GET_HASHES" /\ Types /\ Pools
  <2>1. "server" \in Sides
    BY DEF Sides
  <2> QED BY <1>1, <2>1, ReadsIs
<1>3. But(e, "server", s) /\ NoMoreReusable("server", s, e) /\ Is(e[s], TRUE, TRUE, NbHash)
  <2>1. NbHash \in Int /\ Reads("server", s, "GET_HASHES")
    BY <1>1, BoundsAssumption
  <2> QED BY <2>1, ServerCounts
<1>4. r \in HashesRequests /\ m \in Messages /\ m.r = r /\ m.type = "HASHES" /\ wire' = Answered(s, m)
  <2>1. r \in HashesRequests
    BY <1>2, MessageFor
  <2> QED BY <1>1, <1>2, <2>1 DEF Message, Messages
<1>5. EndsMoved("server", s) /\ end'["server"][s] = e[s]
  BY <1>1, <1>2, <1>3, BecomesOnly
<1>6. PICK h \in Seq(HashesRequests) :
        /\ Posted(s, h)
        /\ serving[s].hashes = <<>> => Len(h) = NbHash /\ \A i \in 1..Len(h) : h[i] = r
  <2> PICK q : q = serving[s].hashes
    OBVIOUS
  <2>1. q \in Seq(HashesRequests)
    BY <1>2, SocketTypes
  <2>2. r = Head(wire["server"][s]).r
    BY <1>2
  <2>3. PICK k \in 0..Len(q) : Posted(s, SubSeq(q, 1, k) \o Repeated(r))
    BY <1>1, <2>2 DEF Repeated
  <2> PICK h : h = SubSeq(q, 1, k) \o Repeated(r)
    OBVIOUS
  <2>4. /\ h \in Seq(HashesRequests)
        /\ q = <<>> => Len(h) = NbHash /\ \A i \in 1..Len(h) : h[i] = r
    <3>1. r \in HashesRequests /\ k \in 0..Len(q)
      BY <1>4, <2>3
    <3>2. h \in Seq(HashesRequests) /\ (q = <<>> => Repeats(h, r))
      BY <2>1, <3>1, RepeatIs, Zenon
    <3> QED BY <3>2 DEF Repeats
  <2> QED BY <2>3, <2>4
<1> PICK w : w = [serving[s] EXCEPT !.hashes = h]
  OBVIOUS
<1>7. WorksOn(s, w) /\ w.hashes = h /\ w.entries = serving[s].entries /\ w.upload = serving[s].upload
  BY <1>2, <1>6, PostedIs
<1>8. /\ Frame(s) /\ serving'[s] = w
      /\ ~Broken(s) => wire'["client"][s] = Append(wire["client"][s], m)
      /\ Len(wire["server"][s]) = 1 => wire'["server"][s] = <<>>
  <2>1. ServerOnly(s)
    BY <1>1, <1>2 DEF ServerOnly
  <2> QED BY <1>1, <1>4, <1>5, <1>7, <2>1, AnswerFrame
<1>9. ASSUME s \notin astray
      PROVE  /\ ServerOK(s)'
             /\ Used(s) /\ ~Broken(s) => AwaitedOK(s)' /\ RequestsOK(s)'
  <2>1. /\ wire'["server"][s] = <<>> /\ serving'[s].entries = NoRequest
        /\ serving[s].hashes = <<>> /\ serving'[s].hashes = h
        /\ serving'[s].upload = NoRequest /\ r \in Requests /\ SocketOK(s)
    BY <1>1, <1>7, <1>8, <1>9, AskedFor
  <2>2. Len(h) = NbHash /\ \A i \in 1..Len(h) : h[i] = r
    BY <1>6, <2>1
  <2>3. ServerOK(s)'
    BY <1>3, <1>5, <2>1, <2>2 DEF ServerOK, Is
  <2>4. ASSUME Used(s), ~Broken(s) PROVE AwaitedOK(s)' /\ RequestsOK(s)'
    <3>1. /\ AwaitedOK(s)' /\ Awaits(s, r) /\ wire'["client"][s] = <<m>>
          /\ request'[r] = request[r] /\ request[r].st = "asked"
      <4>1. Reads("server", s, "GET_HASHES") /\ wire'["client"][s] = Append(wire["client"][s], m)
        BY <1>1, <1>8, <2>4
      <4>2. \A i \in 1..Len(serving'[s].hashes) : serving'[s].hashes[i] = r
        BY <2>1, <2>2
      <4>3. serving'[s].upload \in {NoRequest, r} /\ Frame(s)
        BY <1>8, <2>1
      <4> QED BY <1>4, <1>9, <2>1, <2>4, <4>1, <4>2, <4>3, AnswerAwaited
    <3>2. HashesOK(s, r)'
      <4>1. wire'["client"][s][1].type = "HASHES" /\ Len(wire'["client"][s]) = 1 /\ wire'["client"][s] # <<>>
        <5>1. <<m>>[1] = m /\ Len(<<m>>) = 1 /\ <<m>> # <<>>
          OBVIOUS
        <5> QED BY <1>4, <3>1, <5>1
      <4>2. Begins(s)' /\ Listed(s)' = 0
        BY <4>1 DEF Begins, Listed
      <4>3. ~Refused(s, r)'
        <5>1. <<Message("NO_HASHES", r)>>[1].type = "NO_HASHES"
          BY DEF Message
        <5> QED BY <4>1, <5>1 DEF Refused
      <4>4. request[r].left = NbHash
        <5>1. wire["server"][s] # <<>> /\ HashesOK(s, r)
          <6>1. r \in HeldBy(s)
            BY <3>1 DEF Awaits
          <6>2. wire["server"][s] # <<>>
            BY <1>1, ServerHears
          <6> QED BY <1>2, <1>4, <2>1, <6>1, <6>2, HolderOK
        <5> QED BY <2>4, <5>1 DEF HashesOK
      <4>5. Listed(s)' + Len(serving'[s].hashes) = request'[r].left /\ Listed(s)' <= request'[r].left
        BY <2>1, <2>2, <3>1, <4>2, <4>4, BoundsAssumption
      <4>6. \A i \in 1..Len(wire'["client"][s]) : i = 1
        BY <4>1
      <4>7. Listed(s)' + Len(serving'[s].hashes) <= request'[r].left
        BY <2>1, <2>2, <3>1, <4>2, <4>4, BoundsAssumption
      <4> QED BY <2>1, <3>1, <4>2, <4>3, <4>4, <4>5, <4>6, <4>7 DEF HashesOK
    <3>3. RequestsOK(s)'
      BY <1>4, <3>1, <3>2, KindsApart, RequestsOne DEF Awaits
    <3> QED BY <3>1, <3>3
  <2> QED BY <2>3, <2>4
<1> QED BY <1>8, <1>9, ServerKeeps


LEMMA ServesChunkKeeps ==
  ASSUME IInv, NEW s \in Sockets, ServesChunk(s)
  PROVE  IInv'
<1> PICK asked : asked = wire["server"][s][1]
  OBVIOUS
<1> PICK r : r = wire["server"][s][1].r
  OBVIOUS
<1> PICK m : m = Message("CHUNK", r)
  OBVIOUS
<1> PICK e : e = Deaf(Woken("server", s), s)
  OBVIOUS
<1> PICK w : w = IF s \notin Pooled("server") THEN serving[s]
                 ELSE [serving[s] EXCEPT !.upload = r, !.written = FALSE]
  OBVIOUS
<1>1. /\ Reads("server", s, "GET_CHUNK") /\ Becomes("server", e, {})
      /\ serving' = IF s \notin Pooled("server") THEN serving
            ELSE [serving EXCEPT ![s] = [serving[s] EXCEPT !.upload = Head(wire["server"][s]).r, !.written = FALSE]]
      /\ wire' = Answered(s, Message("CHUNK", Head(wire["server"][s]).r))
      /\ request' = request /\ opened' = opened /\ pool' = pool /\ cut' = cut
      /\ faults' = faults /\ astray' = astray
  BY DEF ServesChunk, history
<1>2. /\ "server" \in Sides /\ s \in 1..opened /\ Head(wire["server"][s]) = asked
      /\ asked \in Messages /\ asked.type = "GET_CHUNK" /\ Types /\ Pools
  <2>1. "server" \in Sides
    BY DEF Sides
  <2> QED BY <1>1, <2>1, ReadsIs
<1>3. But(e, "server", s) /\ NoMoreReusable("server", s, e) /\ Is(e[s], TRUE, FALSE, end["server"][s].nbHash)
  <2>1. /\ But(Woken("server", s), "server", s)
        /\ Is(Woken("server", s)[s], TRUE, TRUE, end["server"][s].nbHash)
    BY <1>1, ServerHears
  <2>2. /\ But(e, "server", s)
        /\ Is(e[s], Woken("server", s)[s].active, FALSE, Woken("server", s)[s].nbHash)
    BY <1>2, <2>1, DeafIs
  <2> QED BY <2>1, <2>2 DEF Is, NoMoreReusable
<1>4. r \in ChunkRequests /\ m \in Messages /\ m.r = r /\ wire' = Answered(s, m)
  <2>1. r \in ChunkRequests
    BY <1>2, MessageFor
  <2> QED BY <1>1, <1>2, <2>1 DEF Message, Messages
<1>5. EndsMoved("server", s) /\ end'["server"][s] = e[s]
  BY <1>1, <1>2, <1>3, BecomesOnly
<1>6. /\ WorksOn(s, w) /\ w.hashes = serving[s].hashes /\ w.entries = serving[s].entries
      /\ w.upload \in {serving[s].upload, r}
  <2>1. serving[s] \in Works /\ serving \in [Sockets -> Works] /\ r = Head(wire["server"][s]).r
    BY <1>2 DEF Types
  <2>2. CASE s \notin Pooled("server")
    <3>1. w = serving[s] /\ serving' = [serving EXCEPT ![s] = w]
      BY <1>1, <2>1, <2>2
    <3> QED BY <2>1, <3>1 DEF WorksOn, Idles
  <2>3. CASE s \in Pooled("server")
    <3>1. w = [serving[s] EXCEPT !.upload = r, !.written = FALSE]
      BY <2>3
    <3>2. /\ w \in Works /\ w.hashes = serving[s].hashes /\ w.entries = serving[s].entries
          /\ w.upload = r
      BY <1>4, <2>1, <3>1 DEF Works
    <3>3. serving' = [serving EXCEPT ![s] = w]
      BY <1>1, <2>1, <2>3, <3>1
    <3> QED BY <2>3, <3>2, <3>3 DEF WorksOn, Idles
  <2> QED BY <2>2, <2>3
<1>7. /\ Frame(s) /\ serving'[s] = w
      /\ ~Broken(s) => wire'["client"][s] = Append(wire["client"][s], m)
      /\ Len(wire["server"][s]) = 1 => wire'["server"][s] = <<>>
  <2>1. ServerOnly(s)
    BY <1>1, <1>2 DEF ServerOnly
  <2>2. Reads("server", s, "GET_CHUNK") /\ wire' = Answered(s, m) /\ WorksOn(s, w)
    BY <1>1, <1>4, <1>6
  <2> QED BY <1>4, <1>5, <2>1, <2>2, AnswerFrame
<1>8. ASSUME s \notin astray
      PROVE  /\ ServerOK(s)'
             /\ Used(s) /\ ~Broken(s) => AwaitedOK(s)' /\ RequestsOK(s)'
  <2>1. /\ wire'["server"][s] = <<>> /\ serving'[s].entries = NoRequest
        /\ serving'[s].hashes = <<>> /\ serving'[s].upload \in {NoRequest, r} /\ r \in Requests
    BY <1>1, <1>6, <1>7, <1>8, AskedFor
  <2>2. ServerOK(s)'
    BY <1>3, <1>5, <2>1 DEF ServerOK, Answering, Is
  <2>3. ASSUME Used(s), ~Broken(s) PROVE AwaitedOK(s)' /\ RequestsOK(s)'
    <3>1. /\ AwaitedOK(s)' /\ Awaits(s, r) /\ wire'["client"][s] = <<m>>
          /\ request'[r] = request[r] /\ request[r].st = "asked"
      <4>1. Reads("server", s, "GET_CHUNK") /\ wire'["client"][s] = Append(wire["client"][s], m)
        BY <1>1, <1>7, <2>3
      <4>2. \A i \in 1..Len(serving'[s].hashes) : serving'[s].hashes[i] = r
        BY <2>1
      <4>3. Frame(s)
        BY <1>7
      <4> QED BY <1>4, <1>8, <2>1, <2>3, <4>1, <4>2, <4>3, AnswerAwaited
    <3>2. ChunkOK(s, r)'
      BY <2>1, <3>1 DEF ChunkOK
    <3>3. RequestsOK(s)'
      BY <1>4, <3>1, <3>2, KindsApart, RequestsOne DEF Awaits
    <3> QED BY <3>1, <3>3
  <2> QED BY <2>2, <2>3
<1> QED BY <1>7, <1>8, ServerKeeps

LEMMA ServesEntriesKeeps ==
  ASSUME IInv, NEW s \in Sockets, ServesEntries(s)
  PROVE  IInv'
<1> PICK asked : asked = wire["server"][s][1]
  OBVIOUS
<1> PICK r : r = wire["server"][s][1].r
  OBVIOUS
<1> PICK e : e = Woken("server", s)
  OBVIOUS
<1> PICK w : w = IF serving[s].entries # NoRequest THEN serving[s] ELSE [serving[s] EXCEPT !.entries = r]
  OBVIOUS
<1>1. /\ Reads("server", s, "GET_ENTRIES") /\ Becomes("server", e, {})
      /\ serving' = IF serving[s].entries # NoRequest THEN serving
            ELSE [serving EXCEPT ![s] = [serving[s] EXCEPT !.entries = Head(wire["server"][s]).r]]
      /\ wire' = Taken("server", s)
      /\ request' = request /\ opened' = opened /\ pool' = pool /\ cut' = cut
      /\ faults' = faults /\ astray' = astray
  BY DEF ServesEntries, history
<1>2. /\ "server" \in Sides /\ s \in 1..opened /\ Head(wire["server"][s]) = asked
      /\ asked \in Messages /\ asked.type = "GET_ENTRIES" /\ Types /\ Pools /\ wire["server"][s] # <<>>
  <2>1. "server" \in Sides
    BY DEF Sides
  <2> QED BY <1>1, <2>1, ReadsIs
<1>3. But(e, "server", s) /\ NoMoreReusable("server", s, e) /\ Is(e[s], TRUE, TRUE, end["server"][s].nbHash)
  BY <1>1, ServerHears
<1>4. r \in EntriesRequests
  BY <1>2, MessageFor
<1>5. EndsMoved("server", s) /\ end'["server"][s] = e[s]
  BY <1>1, <1>2, <1>3, BecomesOnly
<1>6. /\ WorksOn(s, w) /\ w.hashes = serving[s].hashes /\ w.upload = serving[s].upload
      /\ serving[s].entries = NoRequest => w.entries = r
  <2>1. serving[s] \in Works /\ serving \in [Sockets -> Works] /\ r = Head(wire["server"][s]).r
    BY <1>2 DEF Types
  <2>2. CASE serving[s].entries # NoRequest
    <3>1. w = serving[s] /\ serving' = [serving EXCEPT ![s] = w]
      BY <1>1, <2>1, <2>2
    <3> QED BY <2>1, <2>2, <3>1 DEF WorksOn, Idles
  <2>3. CASE serving[s].entries = NoRequest
    <3>1. w = [serving[s] EXCEPT !.entries = r]
      BY <2>3
    <3>2. /\ w \in Works /\ w.hashes = serving[s].hashes /\ w.upload = serving[s].upload
          /\ w.entries = r /\ w.kept = serving[s].kept
      BY <1>4, <2>1, <3>1 DEF Works
    <3>3. serving' = [serving EXCEPT ![s] = w]
      BY <1>1, <2>1, <2>3, <3>1
    <3> QED BY <3>2, <3>3 DEF WorksOn, Idles
  <2> QED BY <2>2, <2>3
<1>7. Wired(s, "server", "client", Tail(wire["server"][s])) /\ Len(Tail(wire["server"][s])) = Len(wire["server"][s]) - 1
      /\ Tail(wire["server"][s]) \in Seq(Messages)
  <2>1. "client" \in Sides \ {"server"}
    BY DEF Sides
  <2> QED BY <1>1, <1>2, <2>1, TakenIs
<1>8. Frame(s) /\ serving'[s] = w /\ wire'["client"][s] = wire["client"][s]
  <2>1. ServerOnly(s)
    BY <1>1, <1>2 DEF ServerOnly
  <2>2. /\ serving' \in [Sockets -> Works] /\ \A t \in Sockets \ {s} : serving'[t] = serving[t]
        /\ Idles(s) => serving'[s].upload = NoRequest /\ serving'[s].kept = {}
        /\ serving'[s] = w
    BY <1>2, <1>6, WorksOnIs
  <2> QED BY <1>5, <1>7, <2>1, <2>2 DEF Frame, Wired
<1>9. ASSUME s \notin astray
      PROVE  /\ ServerOK(s)'
             /\ Used(s) /\ ~Broken(s) => AwaitedOK(s)' /\ RequestsOK(s)'
  <2>1. /\ SocketOK(s) /\ Len(wire["server"][s]) = 1 /\ r \in Requests
        /\ serving'[s].entries = r /\ serving'[s].hashes = <<>> /\ serving'[s].upload = NoRequest
        /\ Used(s) /\ ~Broken(s) =>
              HeldBy(s) = {r} /\ wire["client"][s] = <<>>
    BY <1>1, <1>6, <1>8, <1>9, AskedFor
  <2>2. wire'["server"][s] = <<>>
    <3>1. Len(Tail(wire["server"][s])) = 0
      BY <1>7, <2>1
    <3> QED BY <1>7, <3>1, NoneLeft DEF Wired
  <2>3. ServerOK(s)'
    BY <1>3, <1>5, <2>1, <2>2 DEF ServerOK, Is
  <2>4. ASSUME Used(s), ~Broken(s) PROVE AwaitedOK(s)' /\ RequestsOK(s)'
    <3>1. HeldBy(s)' = {r} /\ wire'["client"][s] = <<>>
      BY <1>8, <2>1, <2>4, FrameIs
    <3>2. \A i \in 1..Len(wire'["client"][s]) : wire'["client"][s][i].r = r
      BY <3>1
    <3>3. \A i \in 1..Len(serving'[s].hashes) : serving'[s].hashes[i] = r
      BY <2>1
    <3>4. AwaitedOK(s)'
      BY <2>1, <2>2, <3>1, <3>2, <3>3, AwaitsOne
    <3>5. EntriesOK(s, r)'
      BY <3>1 DEF EntriesOK
    <3>6. RequestsOK(s)'
      BY <1>4, <2>1, <3>1, <3>5, KindsApart, RequestsOne
    <3> QED BY <3>4, <3>6
  <2> QED BY <2>3, <2>4
<1> QED BY <1>8, <1>9, ServerKeeps

(* A message the server sends by itself. *)
LEMMA ActiveKeeps ==
  ASSUME IInv, NEW s \in Sockets, NEW e, e = Active(end["server"], s)
  PROVE  /\ But(e, "server", s) /\ NoMoreReusable("server", s, e)
         /\ Is(e[s], end["server"][s].active \/ end["server"][s].listening,
               end["server"][s].listening, end["server"][s].nbHash)
<1>1. end \in [Sides -> [Sockets -> Ends]] /\ "server" \in Sides
  BY DEF IInv, Types, Sides
<1>2. /\ But(e, "server", s)
      /\ Is(e[s], end["server"][s].active \/ end["server"][s].listening,
            end["server"][s].listening, end["server"][s].nbHash)
  BY <1>1, ActiveIs
<1>3. NoMoreReusable("server", s, e)
  BY <1>2 DEF NoMoreReusable, Is
<1> QED BY <1>2, <1>3

Sends(s, listening, m, w) ==
  /\ wire' = Sent("client", listening, s, m) /\ m \in Messages
  /\ ServerOnly(s) /\ EndsMoved("server", s) /\ WorksOn(s, w)
Sending(s, listening, m, w) ==
  /\ Frame(s) /\ serving'[s] = w /\ wire'["server"][s] = wire["server"][s]
  /\ listening /\ ~Broken(s) => wire'["client"][s] = Append(wire["client"][s], m)
  /\ ~listening \/ Broken(s) => wire'["client"][s] = wire["client"][s]

LEMMA SentFrame ==
  ASSUME IInv, NEW s \in Sockets, NEW listening, NEW m, NEW w, Sends(s, listening, m, w)
  PROVE  Sending(s, listening, m, w)
<1> USE DEF Sends
<1>1. Types /\ "client" \in Sides /\ "server" \in Sides \ {"client"}
  BY DEF IInv, Sides
<1>2. /\ serving' \in [Sockets -> Works] /\ \A t \in Sockets \ {s} : serving'[t] = serving[t]
      /\ Idles(s) => serving'[s].upload = NoRequest /\ serving'[s].kept = {}
      /\ serving'[s] = w
  BY <1>1, WorksOnIs
<1>3. /\ listening /\ ~Broken(s) => Wired(s, "client", "server", Append(wire["client"][s], m))
      /\ ~listening \/ Broken(s) => Wired(s, "client", "server", wire["client"][s])
  BY <1>1, SentIs
<1> QED BY <1>2, <1>3 DEF Frame, Wired, Sending


LEMMA WorkOpened ==
  ASSUME IInv, NEW s \in Sockets, serving[s] # NoWork
  PROVE  s \in 1..opened
BY OpenedSocket DEF IInv, Fresh, Sockets

(* The hashes that wait to be sent are for the one who holds the socket.   *)
LEMMA PostedFor ==
  ASSUME Types, NEW s \in Sockets, SocketOK(s), Used(s), ~Broken(s), NEW r, HeldBy(s) = {r}
  PROVE  /\ \A i \in 1..Len(serving[s].hashes) : serving[s].hashes[i] = r
         /\ serving[s].hashes = <<>> \/ r \in HashesRequests
<1> PICK h : h = serving[s].hashes
  OBVIOUS
<1>1. h \in Seq(HashesRequests)
  BY SocketTypes
<1>2. \A i \in 1..Len(h) : h[i] = r
  BY DEF SocketOK, AwaitedOK
<1>3. h # <<>> => 1 \in 1..Len(h) /\ h[1] \in HashesRequests
  BY <1>1
<1> QED BY <1>2, <1>3

LEMMA EntriesReadyKeeps ==
  ASSUME IInv, NEW s \in Sockets, EntriesReady(s)
  PROVE  IInv'
<1> PICK r : r = serving[s].entries
  OBVIOUS
<1> PICK m : m = Message("ENTRIES", r)
  OBVIOUS
<1> PICK e : e = Active(end["server"], s)
  OBVIOUS
<1> PICK w : w = [serving[s] EXCEPT !.entries = NoRequest]
  OBVIOUS
<1>1. /\ r # NoRequest /\ wire' = Sent("client", end["server"][s].listening, s, m)
      /\ serving' = [serving EXCEPT ![s] = w] /\ Finish("server", e, s, FALSE)
      /\ request' = request /\ opened' = opened /\ pool' = pool /\ cut' = cut
      /\ faults' = faults /\ astray' = astray
  BY DEF EntriesReady, history
<1>2. Types /\ Pools /\ "server" \in Sides /\ s \in 1..opened
  <2>1. serving[s] # NoWork
    BY <1>1 DEF NoWork
  <2> QED BY <2>1, WorkOpened DEF IInv, Sides
<1>3. /\ But(e, "server", s) /\ NoMoreReusable("server", s, e)
      /\ Is(e[s], end["server"][s].active \/ end["server"][s].listening,
            end["server"][s].listening, end["server"][s].nbHash)
  BY ActiveKeeps
<1>4. EndsMoved("server", s) /\ Finished(e[s], FALSE, end'["server"][s])
  BY <1>1, <1>2, <1>3, FinishMoves
<1>5. ~end'["server"][s].active /\ end'["server"][s].nbHash = end["server"][s].nbHash
  <2>1. e[s] \in Ends /\ e[s].nbHash = end["server"][s].nbHash
    BY <1>3 DEF Is
  <2>2. ~end'["server"][s].active /\ end'["server"][s].nbHash = e[s].nbHash
    BY <1>4, <2>1, FinishedIs, Zenon
  <2> QED BY <2>1, <2>2
<1>6. r \in EntriesRequests /\ m \in Messages /\ m.r = r
  <2>1. r \in EntriesRequests
    BY <1>1, <1>2, SocketTypes
  <2> QED BY <2>1 DEF Message, Messages
<1>7. /\ WorksOn(s, w) /\ w.hashes = serving[s].hashes /\ w.upload = serving[s].upload
      /\ w.entries = NoRequest
  <2>1. serving[s] \in Works
    BY <1>2, SocketTypes
  <2>2. /\ w \in Works /\ w.hashes = serving[s].hashes /\ w.upload = serving[s].upload
        /\ w.entries = NoRequest /\ w.kept = serving[s].kept
    BY <2>1 DEF Works
  <2> QED BY <1>1, <2>2 DEF WorksOn, Idles
<1>8. /\ Frame(s) /\ serving'[s] = w /\ wire'["server"][s] = wire["server"][s]
      /\ ~Broken(s) => wire'["client"][s] \in {wire["client"][s], Append(wire["client"][s], m)}
  <2>1. ServerOnly(s)
    BY <1>1, <1>2 DEF ServerOnly
  <2> PICK listening : listening = end["server"][s].listening
    OBVIOUS
  <2>2. wire' = Sent("client", listening, s, m) /\ EndsMoved("server", s) /\ m \in Messages /\ WorksOn(s, w)
    BY <1>1, <1>4, <1>6, <1>7
  <2>3. Sends(s, listening, m, w)
    BY <2>1, <2>2 DEF Sends
  <2>4. Sending(s, listening, m, w)
    BY <2>3, SentFrame, Zenon
  <2> QED BY <2>4 DEF Sending
<1>9. ASSUME s \notin astray
      PROVE  /\ ServerOK(s)'
             /\ Used(s) /\ ~Broken(s) => AwaitedOK(s)' /\ RequestsOK(s)'
  <2>1. SocketOK(s) /\ ServerOK(s)
    BY <1>2, <1>9 DEF IInv, SocketsOK, SocketOK
  <2>2. wire["server"][s] = <<>> /\ serving[s].upload = NoRequest
    BY <1>1, <2>1 DEF ServerOK, Answering
  <2>3. ServerOK(s)'
    BY <1>5, <1>7, <1>8, <2>1, <2>2 DEF ServerOK
  <2>4. ASSUME Used(s), ~Broken(s) PROVE AwaitedOK(s)' /\ RequestsOK(s)'
    <3>1. HeldBy(s) = {r} /\ r \in Requests /\ wire["client"][s] = <<>>
      <4>1. r \in HeldBy(s) /\ wire["client"][s] = <<>>
        BY <1>1, <2>1, <2>4 DEF SocketOK, AwaitedOK
      <4> QED BY <1>2, <2>1, <4>1, HolderOK
    <3>2. \A i \in 1..Len(serving'[s].hashes) : serving'[s].hashes[i] = r
      <4>1. \A i \in 1..Len(serving[s].hashes) : serving[s].hashes[i] = r
        BY <1>2, <2>1, <2>4, <3>1, PostedFor
      <4> QED BY <1>7, <1>8, <4>1
    <3>3. HeldBy(s)' = {r}
      BY <1>8, <3>1, FrameIs
    <3>4. wire'["client"][s] \in {<<>>, <<m>>}
      BY <1>8, <2>4, <3>1
    <3>5. \A i \in 1..Len(wire'["client"][s]) : wire'["client"][s][i].r = r
      BY <1>6, <3>4
    <3>6. AwaitedOK(s)'
      <4>1. /\ serving'[s].entries = NoRequest /\ serving'[s].upload \in {NoRequest, r}
            /\ wire'["server"][s] = <<>>
        BY <1>7, <1>8, <2>2
      <4> QED BY <3>2, <3>3, <3>5, <4>1, AwaitsOne
    <3>7. EntriesOK(s, r)'
      BY <3>4 DEF EntriesOK
    <3>8. RequestsOK(s)'
      BY <1>6, <3>1, <3>3, <3>7, KindsApart, RequestsOne
    <3> QED BY <3>6, <3>8
  <2> QED BY <2>3, <2>4
<1> QED BY <1>8, <1>9, ServerKeeps

(* The ends of the server once a hash is sent. *)
LEMMA HashSent ==
  ASSUME IInv, NEW s \in Sockets, NEW e, e = Counts(Active(end["server"], s), s, end["server"][s].nbHash - 1),
         pool' = pool, opened' = opened,
         IF e[s].nbHash = 0 THEN Finish("server", e, s, FALSE) ELSE Becomes("server", e, {})
  PROVE  /\ EndsMoved("server", s) /\ end'["server"][s] \in Ends
         /\ end'["server"][s].nbHash = end["server"][s].nbHash - 1
         /\ e[s].nbHash = end["server"][s].nbHash - 1
         /\ e[s].nbHash = 0 => ~end'["server"][s].active
         /\ e[s].nbHash # 0 /\ (end["server"][s].active => end["server"][s].listening) =>
              (end'["server"][s].active => end'["server"][s].listening)
         /\ ~end["server"][s].listening /\ ~end["server"][s].active => ~end'["server"][s].listening
<1>1. /\ Types /\ Pools /\ "server" \in Sides /\ end["server"][s].nbHash \in Int
      /\ end["server"][s].active \in BOOLEAN /\ end["server"][s].listening \in BOOLEAN
  BY SocketTypes DEF IInv, Sides
<1> PICK x, n : x = Active(end["server"], s) /\ n = end["server"][s].nbHash - 1
  OBVIOUS
<1>2. /\ But(x, "server", s) /\ Is(x[s], end["server"][s].active \/ end["server"][s].listening,
                                     end["server"][s].listening, end["server"][s].nbHash)
  BY ActiveKeeps
<1>3. But(e, "server", s) /\ Is(e[s], x[s].active, x[s].listening, n)
  BY <1>1, <1>2, CountsIs
<1>4. /\ e[s] \in Ends /\ e[s].nbHash = n /\ e[s].listening = end["server"][s].listening
      /\ e[s].active = (end["server"][s].active \/ end["server"][s].listening)
  BY <1>2, <1>3 DEF Is
<1>5. NoMoreReusable("server", s, e)
  BY <1>4 DEF NoMoreReusable
<1>6. CASE e[s].nbHash = 0
  <2>1. EndsMoved("server", s) /\ Finished(e[s], FALSE, end'["server"][s])
    BY <1>1, <1>3, <1>5, <1>6, FinishMoves
  <2>2. /\ end'["server"][s] \in Ends /\ ~end'["server"][s].active /\ end'["server"][s].nbHash = e[s].nbHash
        /\ ~e[s].active => end'["server"][s] = e[s]
    BY <1>4, <2>1, FinishedIs, Zenon
  <2> QED BY <1>4, <1>6, <2>1, <2>2
<1>7. CASE e[s].nbHash # 0
  <2>1. EndsMoved("server", s) /\ end'["server"][s] = e[s]
    BY <1>1, <1>3, <1>5, <1>7, BecomesOnly
  <2> QED BY <1>4, <1>7, <2>1
<1> QED BY <1>6, <1>7

(* A hash is added to what the client has to read. *)
LEMMA HashAdded ==
  ASSUME NEW s, wire["client"][s] \in Seq(Messages), NEW m \in Messages, m.type = "HASH",
         wire'["client"][s] = Append(wire["client"][s], m),
         \A i \in 1..Len(wire["client"][s]) : wire["client"][s][i].type = "HASH" \/ (i = 1 /\ Begins(s))
  PROVE  /\ Begins(s)' <=> Begins(s)
         /\ Listed(s)' = Listed(s) + 1
         /\ \A i \in 1..Len(wire'["client"][s]) : wire'["client"][s][i].type = "HASH" \/ (i = 1 /\ Begins(s)')
         /\ \A r : ~Refused(s, r)'
<1> PICK q, p : q = wire["client"][s] /\ p = wire'["client"][s]
  OBVIOUS
<1>1. q \in Seq(Messages) /\ p = Append(q, m)
  OBVIOUS
<1>2. /\ Len(q) \in Nat /\ Len(p) = Len(q) + 1 /\ p # <<>> /\ p[Len(q) + 1] = m
      /\ \A i \in 1..Len(q) : p[i] = q[i]
      /\ \A i \in 1..Len(p) : i \in 1..Len(q) \/ i = Len(q) + 1
  BY <1>1
<1>3. q # <<>> => 1 \in 1..Len(q)
  BY <1>1
<1>4. q = <<>> => Len(q) = 0
  OBVIOUS
<1>5. Begins(s)' <=> Begins(s)
  BY <1>2, <1>3, <1>4 DEF Begins
<1>6. Listed(s)' = Listed(s) + 1
  <2>1. CASE Begins(s)
    <3>1. Listed(s) = Len(q) - 1 /\ Listed(s)' = Len(p) - 1
      BY <1>5, <2>1 DEF Listed
    <3> QED BY <1>2, <3>1
  <2>2. CASE ~Begins(s)
    <3>1. Listed(s) = Len(q) - 0 /\ Listed(s)' = Len(p) - 0
      BY <1>5, <2>2 DEF Listed
    <3> QED BY <1>2, <3>1
  <2> QED BY <2>1, <2>2
<1>7. \A i \in 1..Len(p) : p[i].type = "HASH" \/ (i = 1 /\ Begins(s)')
  BY <1>2, <1>5
<1>8. ASSUME NEW r, Refused(s, r)' PROVE FALSE
  <2>1. Len(p) = 1 /\ p[1].type = "NO_HASHES"
    BY <1>8, OneMessage DEF Refused
  <2> QED BY <1>2, <2>1
<1> QED BY <1>5, <1>6, <1>7, <1>8

LEMMA RestIs ==
  ASSUME NEW S, NEW q \in Seq(S), NEW k \in 1..Len(q), NEW h, h = SubSeq(q, 2, k)
  PROVE  /\ h \in Seq(S) /\ Len(h) = k - 1 /\ \A i \in 1..Len(h) : h[i] = q[i + 1] /\ i + 1 \in 1..Len(q)
         /\ k = 1 => h = <<>>
<1>1. h \in Seq(S) /\ Len(h) = k - 1 /\ \A i \in 1..Len(h) : h[i] = q[i + 1] /\ i + 1 \in 1..Len(q)
  OBVIOUS
<1> QED BY <1>1, NoneLeft

LEMMA NextAskedHashKeeps ==
  ASSUME IInv, NEW s \in Sockets, NextAskedHash(s)
  PROVE  IInv'
<1> PICK q : q = serving[s].hashes
  OBVIOUS
<1> PICK r : r = q[1]
  OBVIOUS
<1> PICK m : m = Message("HASH", r)
  OBVIOUS
<1>1. PICK e : e = Counts(Active(end["server"], s), s, end["server"][s].nbHash - 1)
  OBVIOUS
<1>2. /\ q # <<>> /\ wire' = Sent("client", end["server"][s].listening, s, Message("HASH", Head(q)))
      /\ IF e[s].nbHash = 0 THEN Finish("server", e, s, FALSE) ELSE Becomes("server", e, {})
      /\ request' = request /\ opened' = opened /\ pool' = pool /\ cut' = cut
      /\ faults' = faults /\ astray' = astray
  BY <1>1 DEF NextAskedHash, history
<1>3. PICK k \in 1..Len(q) : (e[s].nbHash # 0 => k = Len(q)) /\ Posted(s, SubSeq(q, 2, k))
  BY <1>1 DEF NextAskedHash
<1>4. Types /\ Pools /\ s \in 1..opened /\ "server" \in Sides
  <2>1. serving[s] # NoWork
    BY <1>2 DEF NoWork
  <2> QED BY <2>1, WorkOpened DEF IInv, Sides
<1>5. q \in Seq(HashesRequests) /\ Head(q) = r /\ r \in HashesRequests /\ Len(q) \in Nat /\ Len(q) >= 1
  <2>1. q \in Seq(HashesRequests)
    BY <1>4, SocketTypes
  <2> QED BY <1>2, <2>1
<1>6. /\ EndsMoved("server", s) /\ end'["server"][s] \in Ends
      /\ end'["server"][s].nbHash = end["server"][s].nbHash - 1
      /\ e[s].nbHash = end["server"][s].nbHash - 1
      /\ e[s].nbHash = 0 => ~end'["server"][s].active
      /\ e[s].nbHash # 0 /\ (end["server"][s].active => end["server"][s].listening) =>
           (end'["server"][s].active => end'["server"][s].listening)
      /\ ~end["server"][s].listening /\ ~end["server"][s].active => ~end'["server"][s].listening
  BY <1>1, <1>2, HashSent
<1>7. PICK h \in Seq(HashesRequests) :
        /\ Len(h) = k - 1 /\ \A i \in 1..Len(h) : h[i] = q[i + 1] /\ i + 1 \in 1..Len(q)
        /\ k = 1 => h = <<>>
        /\ Posted(s, h)
  <2> PICK h : h = SubSeq(q, 2, k)
    OBVIOUS
  <2>1. /\ h \in Seq(HashesRequests) /\ Len(h) = k - 1
        /\ \A i \in 1..Len(h) : h[i] = q[i + 1] /\ i + 1 \in 1..Len(q)
        /\ k = 1 => h = <<>>
    BY <1>3, <1>5, RestIs
  <2> QED BY <1>3, <2>1
<1>8. PICK w : w = [serving[s] EXCEPT !.hashes = h]
  OBVIOUS
<1>9. WorksOn(s, w) /\ w.hashes = h /\ w.entries = serving[s].entries /\ w.upload = serving[s].upload
  <2>1. h \in Seq(HashesRequests) /\ Posted(s, h)
    BY <1>3, <1>7
  <2> QED BY <1>4, <1>8, <2>1, PostedIs
<1>10. m \in Messages /\ m.r = r /\ m.type = "HASH"
  BY <1>5 DEF Message, Messages
<1> PICK listening : listening = end["server"][s].listening
  OBVIOUS
<1>11. /\ Frame(s) /\ serving'[s] = w /\ wire'["server"][s] = wire["server"][s]
       /\ listening /\ ~Broken(s) => wire'["client"][s] = Append(wire["client"][s], m)
       /\ ~listening \/ Broken(s) => wire'["client"][s] = wire["client"][s]
  <2>1. ServerOnly(s) /\ wire' = Sent("client", listening, s, m)
    BY <1>2, <1>4, <1>5 DEF ServerOnly
  <2>2. EndsMoved("server", s) /\ WorksOn(s, w) /\ m \in Messages
    BY <1>6, <1>9, <1>10
  <2>3. Sends(s, listening, m, w)
    BY <2>1, <2>2 DEF Sends
  <2>4. Sending(s, listening, m, w)
    BY <2>3, SentFrame, Zenon
  <2> QED BY <2>4 DEF Sending
<1>12. ASSUME s \notin astray
      PROVE  /\ ServerOK(s)'
             /\ Used(s) /\ ~Broken(s) => AwaitedOK(s)' /\ RequestsOK(s)'
  <2>1. SocketOK(s) /\ ServerOK(s) /\ Answering(s)
    BY <1>2, <1>4, <1>12 DEF IInv, SocketsOK, SocketOK, Answering
  <2>2. /\ wire["server"][s] = <<>> /\ serving[s].upload = NoRequest
        /\ end["server"][s].nbHash = Len(q)
        /\ end["server"][s].active => end["server"][s].listening
    BY <1>2, <2>1 DEF ServerOK
  <2>3. Len(h) = Len(q) - 1
    <3>1. k \in 1..Len(q) /\ (e[s].nbHash # 0 => k = Len(q)) /\ e[s].nbHash = Len(q) - 1
      BY <1>3, <1>6, <2>2
    <3>2. \A n \in Nat : n - 1 = 0 => \A i \in 1..n : i = n
      OBVIOUS
    <3>3. k = Len(q)
      <4>1. CASE e[s].nbHash = 0
        <5>1. Len(q) - 1 = 0 /\ Len(q) \in Nat
          BY <1>5, <3>1, <4>1
        <5> QED BY <3>1, <3>2, <5>1, Zenon
      <4> QED BY <3>1, <4>1, Zenon
    <3>4. Len(h) = k - 1
      BY <1>7
    <3> QED BY <3>3, <3>4
  <2>4. h # <<>> => end'["server"][s].nbHash = Len(h)
    BY <1>6, <2>2, <2>3
  <2>5. ServerOK(s)'
    BY <1>6, <1>9, <1>11, <2>2, <2>4 DEF ServerOK
  <2>6. ASSUME Used(s), ~Broken(s) PROVE AwaitedOK(s)' /\ RequestsOK(s)'
    <3>1. \A i \in 1..Len(q) : q[i] = r
      <4>1. \A i \in 1..Len(q) : q[i] \in HeldBy(s)
        BY <2>1, <2>6 DEF SocketOK, AwaitedOK
      <4>2. r \in HeldBy(s)
        BY <1>5, <4>1
      <4> QED BY <1>4, <2>1, <4>1, <4>2, HolderOK
    <3>2. HeldBy(s) = {r} /\ r \in Requests /\ HashesOK(s, r)
      <4>1. \A i \in 1..Len(q) : q[i] \in HeldBy(s)
        BY <2>1, <2>6 DEF SocketOK, AwaitedOK
      <4>2. r \in HeldBy(s)
        BY <1>5, <4>1
      <4> QED BY <1>4, <1>5, <2>1, <4>2, HolderOK
    <3>3. HeldBy(s)' = {r} /\ request'[r] = request[r] /\ end'["client"] = end["client"]
      BY <1>11, <3>2, FrameIs
    <3>4. /\ serving[s].entries = NoRequest
          /\ \A i \in 1..Len(wire["client"][s]) : wire["client"][s][i].r = r
      <4>1. /\ serving[s].entries \in {r, NoRequest}
            /\ \A i \in 1..Len(wire["client"][s]) : wire["client"][s][i].r = r
        BY <2>1, <2>6, <3>2 DEF SocketOK, AwaitedOK
      <4>2. serving[s].entries \in EntriesRequests \cup {NoRequest}
        BY <1>4, SocketTypes
      <4>3. r \notin EntriesRequests
        BY <1>5, <3>2, KindsApart
      <4> QED BY <4>1, <4>2, <4>3
    <3>5. wire["client"][s] \in Seq(Messages)
      BY <1>4, SocketTypes
    <3>6. \A i \in 1..Len(wire'["client"][s]) : wire'["client"][s][i].r = r
      <4> PICK p : p = wire["client"][s]
        OBVIOUS
      <4>1. \A i \in 1..Len(Append(p, m)) : Append(p, m)[i].r = r
        BY <1>10, <3>4, <3>5
      <4> QED BY <1>11, <2>6, <3>4, <4>1
    <3>7. \A i \in 1..Len(serving'[s].hashes) : serving'[s].hashes[i] = r
      BY <1>7, <1>9, <1>11, <3>1
    <3>8. AwaitedOK(s)'
      <4>1. /\ serving'[s].entries = NoRequest /\ serving'[s].upload \in {NoRequest, r}
            /\ wire'["server"][s] = <<>>
        BY <1>9, <1>11, <2>2, <3>4
      <4> QED BY <3>3, <3>6, <3>7, <4>1, AwaitsOne
    <3>9. /\ ~Refused(s, r) /\ Listed(s) + Len(q) <= request[r].left
          /\ Begins(s) => request[r].left = NbHash
          /\ ~Begins(s) => end["client"][s].nbHash = request[r].left
          /\ \A i \in 1..Len(wire["client"][s]) : wire["client"][s][i].type = "HASH" \/ (i = 1 /\ Begins(s))
          /\ end["server"][s].listening => Listed(s) + Len(q) = request[r].left
      BY <1>2, <2>2, <2>6, <3>2 DEF HashesOK
    <3>10. Listed(s) \in Int /\ request[r].left \in Int
      <4>1. Len(wire["client"][s]) \in Nat
        BY <3>5
      <4>2. request[r] \in States
        BY <1>4, <3>2 DEF Types, RequestTypes
      <4> QED BY <4>1, <4>2, BoundsAssumption DEF Listed, States
    <3>11. HashesOK(s, r)'
      <4>1. CASE listening
        <5>1. wire'["client"][s] = Append(wire["client"][s], m)
          BY <1>11, <2>6, <4>1
        <5>2. /\ Begins(s)' <=> Begins(s)
              /\ Listed(s)' = Listed(s) + 1
              /\ \A i \in 1..Len(wire'["client"][s]) : wire'["client"][s][i].type = "HASH" \/ (i = 1 /\ Begins(s)')
              /\ ~Refused(s, r)'
          BY <1>10, <3>5, <3>9, <5>1, HashAdded
        <5>3. /\ Listed(s)' <= request'[r].left
              /\ Listed(s)' + Len(h) <= request'[r].left
              /\ Listed(s)' + Len(h) = request'[r].left
          <6> PICK old, new, left, n, c : /\ old = Listed(s) /\ new = Listed(s)' /\ left = request[r].left
                                          /\ n = Len(q) /\ c = Len(h)
            OBVIOUS
          <6>1. /\ old \in Int /\ left \in Int /\ n \in Nat /\ new = old + 1 /\ n >= 1 /\ c = n - 1
                /\ old + n = left /\ request'[r].left = left
            BY <1>5, <2>3, <3>3, <3>9, <3>10, <4>1, <5>2
          <6>2. new <= left /\ new + c = left /\ new + c <= left
            BY ONLY <6>1
          <6> QED BY <6>1, <6>2
        <5> QED BY <1>9, <1>11, <2>2, <3>3, <3>9, <5>2, <5>3 DEF HashesOK
      <4>2. CASE ~listening
        <5>1. wire'["client"][s] = wire["client"][s]
          BY <1>11, <4>2
        <5>2. /\ Begins(s)' <=> Begins(s)
              /\ Listed(s)' = Listed(s)
              /\ ~Refused(s, r)'
          BY <3>9, <5>1 DEF Begins, Listed, Refused
        <5>3. ~end'["server"][s].listening
          BY <1>6, <2>2, <4>2
        <5>4. /\ Listed(s)' <= request'[r].left
              /\ Listed(s)' + Len(h) <= request'[r].left
          <6> PICK old, new, left, n, c : /\ old = Listed(s) /\ new = Listed(s)' /\ left = request[r].left
                                          /\ n = Len(q) /\ c = Len(h)
            OBVIOUS
          <6>1. /\ old \in Int /\ left \in Int /\ n \in Nat /\ new = old /\ n >= 1 /\ c = n - 1
                /\ old + n <= left /\ request'[r].left = left
            BY <1>5, <2>3, <3>3, <3>9, <3>10, <5>2
          <6>2. new <= left /\ new + c <= left
            BY ONLY <6>1
          <6> QED BY <6>1, <6>2
        <5> QED BY <1>9, <1>11, <2>2, <3>3, <3>9, <5>1, <5>2, <5>3, <5>4 DEF HashesOK
      <4> QED BY <4>1, <4>2
    <3>12. RequestsOK(s)'
      BY <1>5, <3>2, <3>3, <3>11, KindsApart, RequestsOne
    <3> QED BY <3>8, <3>12
  <2> QED BY <2>5, <2>6
<1> QED BY <1>11, <1>12, ServerKeeps

LEMMA UploadWritesKeeps ==
  ASSUME IInv, NEW s \in Sockets, UploadWrites(s)
  PROVE  IInv'
<1> PICK r : r = serving[s].upload
  OBVIOUS
<1> PICK m : m = Message("DATA", r)
  OBVIOUS
<1> PICK listening : listening = TRUE
  OBVIOUS
<1>1. PICK w : w = [serving[s] EXCEPT !.written = TRUE]
  OBVIOUS
<1>2. /\ r # NoRequest /\ Unwritten(s) /\ wire' = Sent("client", listening, s, m)
      /\ serving' = [serving EXCEPT ![s] = w] /\ end' = end /\ closing' = closing
      /\ request' = request /\ opened' = opened /\ pool' = pool /\ cut' = cut
      /\ faults' = faults /\ astray' = astray
  BY <1>1 DEF UploadWrites, Unwritten, history, ends
<1>3. Types /\ Pools /\ s \in 1..opened /\ "server" \in Sides
  <2>1. serving[s] # NoWork
    BY <1>2 DEF NoWork
  <2> QED BY <2>1, WorkOpened DEF IInv, Sides
<1>4. r \in ChunkRequests /\ m \in Messages /\ m.r = r
  <2>1. r \in ChunkRequests
    BY <1>2, <1>3, SocketTypes
  <2> QED BY <2>1 DEF Message, Messages
<1>5. EndsMoved("server", s)
  BY <1>2, <1>3, EndsStay
<1>6. /\ WorksOn(s, w) /\ w.hashes = serving[s].hashes /\ w.entries = serving[s].entries
      /\ w.upload = r /\ w.written
  <2>1. serving[s] \in Works
    BY <1>3, SocketTypes
  <2>2. /\ w \in Works /\ w.hashes = serving[s].hashes /\ w.entries = serving[s].entries
        /\ w.upload = r /\ w.written /\ w.kept = serving[s].kept
    BY <1>1, <2>1 DEF Works
  <2> QED BY <1>2, <2>2 DEF WorksOn, Idles
<1>7. /\ Frame(s) /\ serving'[s] = w /\ wire'["server"][s] = wire["server"][s]
      /\ ~Broken(s) => wire'["client"][s] = Append(wire["client"][s], m)
  <2>1. ServerOnly(s)
    BY <1>2, <1>3 DEF ServerOnly
  <2>2. wire' = Sent("client", listening, s, m) /\ EndsMoved("server", s) /\ m \in Messages /\ WorksOn(s, w)
    BY <1>2, <1>4, <1>5, <1>6
  <2>3. Sends(s, listening, m, w)
    BY <2>1, <2>2 DEF Sends
  <2>4. Sending(s, listening, m, w)
    BY <2>3, SentFrame, Zenon
  <2> QED BY <2>4 DEF Sending
<1>8. ASSUME s \notin astray
      PROVE  /\ ServerOK(s)'
             /\ Used(s) /\ ~Broken(s) => AwaitedOK(s)' /\ RequestsOK(s)'
  <2>1. SocketOK(s) /\ ServerOK(s)
    BY <1>3, <1>8 DEF IInv, SocketsOK, SocketOK
  <2>2. serving[s].entries = NoRequest /\ serving[s].hashes = <<>> /\ ~end["server"][s].listening
    BY <1>2, <2>1 DEF ServerOK, Answering
  <2>3. ServerOK(s)'
    BY <1>2, <1>6, <1>7, <2>1, <2>2 DEF ServerOK, Answering
  <2>4. ASSUME Used(s), ~Broken(s) PROVE AwaitedOK(s)' /\ RequestsOK(s)'
    <3>1. r \in HeldBy(s) /\ wire["server"][s] = <<>>
      BY <1>2, <2>1, <2>4 DEF SocketOK, AwaitedOK
    <3>2. HeldBy(s) = {r} /\ ChunkOK(s, r) /\ r \in Requests /\ request[r].st \in {"asked", "streaming"}
      BY <1>3, <1>4, <2>1, <3>1, HolderOK
    <3>3. HeldBy(s)' = {r} /\ request'[r] = request[r]
      BY <1>7, <3>2, FrameIs
    <3>4. /\ request[r].st = "streaming" => wire["client"][s] = <<>>
          /\ request[r].st = "asked" => wire["client"][s] = <<Message("CHUNK", r)>>
      BY <1>2, <2>4, <3>1, <3>2 DEF ChunkOK
    <3>5. /\ request[r].st = "streaming" => wire'["client"][s] = <<Message("DATA", r)>>
          /\ request[r].st = "asked" => wire'["client"][s] = <<Message("CHUNK", r), Message("DATA", r)>>
      BY <1>7, <2>4, <3>4
    <3>6. \A i \in 1..Len(wire'["client"][s]) : wire'["client"][s][i].r = r
      BY <3>2, <3>5 DEF Message
    <3>7. \A i \in 1..Len(serving'[s].hashes) : serving'[s].hashes[i] = r
      BY <1>6, <1>7, <2>2
    <3>8. AwaitedOK(s)'
      <4>1. /\ serving'[s].entries = NoRequest /\ serving'[s].upload \in {NoRequest, r}
            /\ wire'["server"][s] = <<>>
        BY <1>6, <1>7, <2>2, <3>1
      <4> QED BY <3>3, <3>6, <3>7, <4>1, AwaitsOne
    <3>9. ChunkOK(s, r)'
      BY <1>6, <1>7, <3>1, <3>3, <3>5 DEF ChunkOK, Unwritten
    <3>10. RequestsOK(s)'
      BY <1>4, <3>2, <3>3, <3>9, KindsApart, RequestsOne
    <3> QED BY <3>8, <3>10
  <2> QED BY <2>3, <2>4
<1> QED BY <1>7, <1>8, ServerKeeps

(* An upload is over, or no longer kept: nothing is sent. *)
LEMMA UploadLeaves ==
  ASSUME IInv, NEW s, Frame(s), \A side \in Sides : wire'[side][s] = wire[side][s],
         serving'[s].entries = serving[s].entries, serving'[s].hashes = serving[s].hashes,
         serving'[s].upload \in {serving[s].upload, NoRequest}, Unwritten(s)' => Unwritten(s),
         end'["server"][s].listening => end["server"][s].listening \/ serving[s].upload # NoRequest,
         s \notin astray => ServerOK(s)'
  PROVE  IInv'
<1>1. /\ (Broken(s) => Broken(s)') /\ HeldBy(s)' = HeldBy(s) /\ s \in Sockets
      /\ end'["client"] = end["client"] /\ request' = request
      /\ wire'["client"][s] = wire["client"][s] /\ wire'["server"][s] = wire["server"][s] /\ Types
  BY FrameIs
<1>2. ASSUME s \notin astray, Used(s), ~Broken(s) PROVE AwaitedOK(s)' /\ RequestsOK(s)'
  <2>1. SocketOK(s)
    BY <1>2 DEF IInv, SocketsOK, Frame, ServerOnly
  <2>2. Used(s)' = Used(s) /\ Begins(s)' = Begins(s) /\ Listed(s)' = Listed(s)
    BY <1>1 DEF Used, Begins, Listed
  <2>3. AwaitedOK(s)'
    <3>1. /\ \A i \in 1..Len(wire["client"][s]) : wire["client"][s][i].r \in HeldBy(s)
          /\ serving[s].entries \in HeldBy(s) \cup {NoRequest}
          /\ \A i \in 1..Len(serving[s].hashes) : serving[s].hashes[i] \in HeldBy(s)
          /\ wire["server"][s] # <<>> => wire["server"][s][1].r \in HeldBy(s) /\ ~Unwritten(s)
          /\ wire["server"][s] # <<>> \/ serving[s].entries # NoRequest => wire["client"][s] = <<>>
      BY <1>2, <2>1 DEF AwaitedOK, SocketOK
    <3>2. Unwritten(s)' => serving'[s].upload \in HeldBy(s)
      <4>1. Unwritten(s) => serving[s].upload \in HeldBy(s)
        BY <1>2, <2>1 DEF AwaitedOK, SocketOK
      <4> QED BY <4>1 DEF Unwritten
    <3>3. serving'[s].upload # NoRequest /\ wire["server"][s] = <<>> /\ HeldBy(s) # {}
            => serving'[s].upload \in HeldBy(s)
      <4>1. serving[s].upload # NoRequest /\ wire["server"][s] = <<>> /\ HeldBy(s) # {}
              => serving[s].upload \in HeldBy(s)
        BY <1>2, <2>1 DEF AwaitedOK, SocketOK
      <4> QED BY <4>1
    <3> QED BY <1>1, <3>1, <3>2, <3>3 DEF AwaitedOK
  <2>4. ASSUME NEW r \in HeldBy(s)
        PROVE  /\ r \in EntriesRequests => EntriesOK(s, r)'
               /\ r \in ChunkRequests => ChunkOK(s, r)'
               /\ r \in HashesRequests => HashesOK(s, r)'
    <3>1. /\ HeldBy(s) = {r} /\ r \in Requests
          /\ r \in EntriesRequests => EntriesOK(s, r)
          /\ r \in ChunkRequests => ChunkOK(s, r)
          /\ r \in HashesRequests => HashesOK(s, r)
      BY <1>1, <2>1, HolderOK
    <3>2. EntriesOK(s, r) => EntriesOK(s, r)'
      BY <1>1 DEF EntriesOK
    <3>3. ChunkOK(s, r) => ChunkOK(s, r)'
      BY <1>1 DEF ChunkOK
    <3>4. ASSUME r \in HashesRequests, HashesOK(s, r) PROVE HashesOK(s, r)'
      <4>1. Refused(s, r)' = Refused(s, r)
        BY <1>1 DEF Refused
      <4>2. end'["server"][s].listening /\ wire["server"][s] = <<>> => end["server"][s].listening
        <5>1. serving[s].upload # NoRequest /\ wire["server"][s] = <<>> => serving[s].upload = r
          BY <1>2, <2>1, <3>1 DEF SocketOK, AwaitedOK
        <5>2. serving[s].upload \in ChunkRequests \cup {NoRequest}
          BY <1>1, SocketTypes
        <5>3. r \notin ChunkRequests
          BY <3>4, RequestsAssumption
        <5> QED BY <5>1, <5>2, <5>3
      <4> QED BY <1>1, <2>2, <3>4, <4>1, <4>2 DEF HashesOK
    <3> QED BY <3>1, <3>2, <3>3, <3>4
  <2>5. RequestsOK(s)'
    BY <1>1, <2>4 DEF RequestsOK
  <2> QED BY <2>3, <2>5
<1> QED BY <1>2, ServerKeeps

LEMMA UploadEndsKeeps ==
  ASSUME IInv, NEW s \in Sockets, NEW close \in BOOLEAN, UploadEnds(s, close)
  PROVE  IInv'
<1>1. PICK w : w = [serving[s] EXCEPT !.upload = NoRequest, !.kept = serving[s].kept \cup {serving[s].upload}]
  OBVIOUS
<1>2. /\ serving[s].upload # NoRequest
      /\ serving' = [serving EXCEPT ![s] = w] /\ Finish("server", end["server"], s, close)
      /\ request' = request /\ opened' = opened /\ pool' = pool /\ wire' = wire /\ cut' = cut
      /\ faults' = faults /\ astray' = astray
  BY <1>1 DEF UploadEnds, history
<1>3. Types /\ Pools /\ s \in 1..opened /\ "server" \in Sides
  <2>1. serving[s] # NoWork
    BY <1>2 DEF NoWork
  <2> QED BY <2>1, WorkOpened DEF IInv, Sides
<1>4. EndsMoved("server", s)
  <2>1. But(end["server"], "server", s) /\ NoMoreReusable("server", s, end["server"])
    BY <1>3, EndIs
  <2> QED BY <1>2, <1>3, <2>1, FinishMoves
<1>5. /\ WorksOn(s, w) /\ w.hashes = serving[s].hashes /\ w.entries = serving[s].entries
      /\ w.upload = NoRequest
  <2>1. serving[s] \in Works
    BY <1>3, SocketTypes
  <2>2. /\ w \in Works /\ w.hashes = serving[s].hashes /\ w.entries = serving[s].entries
        /\ w.upload = NoRequest
    BY <1>1, <1>2, <2>1 DEF Works
  <2> QED BY <1>2, <2>2 DEF WorksOn, Idles
<1>6. Frame(s) /\ serving'[s] = w
  <2>1. ServerOnly(s)
    BY <1>2, <1>3 DEF ServerOnly
  <2>2. /\ serving' \in [Sockets -> Works] /\ \A t \in Sockets \ {s} : serving'[t] = serving[t]
        /\ Idles(s) => serving'[s].upload = NoRequest /\ serving'[s].kept = {}
        /\ serving'[s] = w
    BY <1>3, <1>5, WorksOnIs
  <2> QED BY <1>2, <1>3, <1>4, <2>1, <2>2 DEF Frame, Types
<1>7. ~Unwritten(s)'
  BY <1>5, <1>6 DEF Unwritten
<1>8. ASSUME s \notin astray PROVE ServerOK(s)'
  <2>1. ServerOK(s)
    BY <1>3, <1>8 DEF IInv, SocketsOK, SocketOK
  <2>2. serving[s].entries = NoRequest /\ serving[s].hashes = <<>>
    BY <1>2, <2>1 DEF ServerOK, Answering
  <2> QED BY <1>2, <1>5, <1>6, <2>1, <2>2 DEF ServerOK, Answering
<1> QED BY <1>2, <1>5, <1>6, <1>7, <1>8, UploadLeaves

LEMMA UploadTimeoutKeeps ==
  ASSUME IInv, NEW s \in Sockets, NEW r \in ChunkRequests, UploadTimeout(s, r)
  PROVE  IInv'
<1>1. PICK w : w = [serving[s] EXCEPT !.kept = serving[s].kept \ {r}]
  OBVIOUS
<1>2. /\ r \in serving[s].kept
      /\ serving' = [serving EXCEPT ![s] = w] /\ end' = end /\ closing' = closing
      /\ request' = request /\ opened' = opened /\ pool' = pool /\ wire' = wire /\ cut' = cut
      /\ faults' = faults /\ astray' = astray
  BY <1>1 DEF UploadTimeout, history, ends
<1>3. Types /\ Pools /\ s \in 1..opened /\ "server" \in Sides
  <2>1. serving[s] # NoWork
    BY <1>2 DEF NoWork
  <2> QED BY <2>1, WorkOpened DEF IInv, Sides
<1>4. EndsMoved("server", s)
  BY <1>2, <1>3, EndsStay
<1>5. /\ WorksOn(s, w) /\ w.hashes = serving[s].hashes /\ w.entries = serving[s].entries
      /\ w.upload = serving[s].upload /\ w.written = serving[s].written
  <2>1. serving[s] \in Works
    BY <1>3, SocketTypes
  <2>2. /\ w \in Works /\ w.hashes = serving[s].hashes /\ w.entries = serving[s].entries
        /\ w.upload = serving[s].upload /\ w.written = serving[s].written
    BY <1>1, <2>1 DEF Works
  <2> QED BY <1>2, <2>2 DEF WorksOn, Idles
<1>6. Frame(s) /\ serving'[s] = w
  <2>1. ServerOnly(s)
    BY <1>2, <1>3 DEF ServerOnly
  <2>2. /\ serving' \in [Sockets -> Works] /\ \A t \in Sockets \ {s} : serving'[t] = serving[t]
        /\ Idles(s) => serving'[s].upload = NoRequest /\ serving'[s].kept = {}
        /\ serving'[s] = w
    BY <1>3, <1>5, WorksOnIs
  <2> QED BY <1>2, <1>3, <1>4, <2>1, <2>2 DEF Frame, Types
<1>7. Unwritten(s)' = Unwritten(s)
  BY <1>5, <1>6 DEF Unwritten
<1>8. ASSUME s \notin astray PROVE ServerOK(s)'
  <2>1. ServerOK(s)
    BY <1>3, <1>8 DEF IInv, SocketsOK, SocketOK
  <2> QED BY <1>2, <1>5, <1>6, <2>1 DEF ServerOK, Answering
<1> QED BY <1>2, <1>5, <1>6, <1>7, <1>8, UploadLeaves

-----------------------------------------------------------------------------
(* The invariant.                                                          *)

LEMMA InitIInv == Init => IInv
<1> SUFFICES ASSUME Init PROVE IInv
  OBVIOUS
<1>1. /\ request = [r \in Requests |-> [st |-> "new", socket |-> 0, left |-> 0, answer |-> NoRequest]]
      /\ opened = 0 /\ faults = 0 /\ cut = {} /\ astray = {}
      /\ end = [side \in Sides |-> [s \in Sockets |-> ClosedEnd(NewEnd)]]
      /\ pool = [side \in Sides |-> <<>>]
      /\ closing = [side \in Sides |-> {}]
      /\ serving = [s \in Sockets |-> NoWork]
      /\ wire = [side \in Sides |-> [s \in Sockets |-> <<>>]]
  BY DEF Init
<1>2. RequestTypes
  <2>1. request \in [Requests -> States]
    BY <1>1, BoundsAssumption DEF States
  <2>2. \A r \in Requests : request[r].socket = 0 /\ request[r].st = "new"
    BY <1>1
  <2> QED BY <1>1, <2>1, <2>2 DEF RequestTypes, Live
<1>3. Types
  <2>1. NoWork \in Works
    <3>1. <<>> \in Seq(HashesRequests) /\ {} \in SUBSET ChunkRequests
      OBVIOUS
    <3> QED BY <3>1 DEF NoWork, Works
  <2>2. NewEnd \in Ends
    BY DEF NewEnd, Ends
  <2>3. ClosedEnd(NewEnd) \in Ends
    BY <2>2, ClosedIs
  <2> QED BY <1>1, <1>2, <2>1, <2>3, BoundsAssumption DEF Types
<1>4. Pools
  <2>1. \A side \in Sides : Pooled(side) = {} /\ Len(pool[side]) = 0 /\ closing[side] = {}
    BY <1>1 DEF Pooled
  <2>2. \A side \in Sides : Reusable(side) = {}
    BY <2>1 DEF Reusable
  <2>3. Cardinality({}) <= MaxIdle
    BY FS_EmptySet, BoundsAssumption
  <2>4. \A side \in Sides : Cardinality(Reusable(side)) <= MaxIdle
    BY <2>2, <2>3
  <2>5. \A side \in Sides : \A i, j \in 1..Len(pool[side]) : pool[side][i] = pool[side][j] => i = j
    BY <2>1
  <2> QED BY <2>1, <2>4, <2>5 DEF Pools
<1>5. Fresh
  BY <1>1 DEF Fresh
<1>6. SocketsOK
  BY <1>1 DEF SocketsOK
<1> QED BY <1>3, <1>4, <1>5, <1>6 DEF IInv

LEMMA IdleIInv ==
  ASSUME IInv, UNCHANGED vars
  PROVE  IInv'
<1>1. /\ request' = request /\ opened' = opened /\ end' = end /\ pool' = pool /\ closing' = closing
      /\ serving' = serving /\ wire' = wire /\ cut' = cut /\ faults' = faults /\ astray' = astray
  BY DEF vars, work, ends, history
<1>2. Types'
  BY <1>1 DEF IInv, Types, RequestTypes, Live
<1>3. \A side \in Sides : Pooled(side)' = Pooled(side) /\ Reusable(side)' = Reusable(side)
  BY <1>1 DEF Pooled, Reusable
<1>4. Pools' /\ Fresh'
  BY <1>1, <1>3 DEF IInv, Pools, Fresh
<1>5. SocketsOK'
  <2> SUFFICES ASSUME NEW t \in (1..opened') \ astray' PROVE SocketOK(t)'
    BY DEF SocketsOK
  <2>1. t \in Sockets /\ Types /\ SocketOK(t)
    BY <1>1, OpenedSocket DEF IInv, SocketsOK
  <2>2. HeldBy(t)' = HeldBy(t)
    BY <1>1 DEF HeldBy, Live
  <2>3. Broken(t) => Broken(t)'
    <3>1. \A side \in Sides : Gone(side, t) => Gone(side, t)'
      BY <1>1, <1>3, <2>2 DEF Gone
    <3> QED BY <1>1, <3>1 DEF Broken
  <2>4. Kept(t)
    BY <1>1, <2>2, <2>3 DEF Kept, EndKept
  <2> QED BY <2>1, <2>4, Untouched
<1> QED BY <1>2, <1>4, <1>5 DEF IInv

(* Every step of a core keeps the invariant. *)
LEMMA NextIInv ==
  ASSUME IInv, [Next]_vars
  PROVE  IInv'
<1>1. ASSUME ClientStep PROVE IInv'
  <2>1. ASSUME NEW r \in Requests,
               \/ AskReuses(r) \/ AskConnects(r) \/ ChunkTimeout(r) \/ GiveUp(r) \/ StreamEnds(r) \/ StreamAborts(r)
        PROVE  IInv'
    BY <2>1, AskReusesKeeps, AskConnectsKeeps, ChunkTimeoutKeeps, GiveUpKeeps, StreamEndsKeeps, StreamAbortsKeeps
  <2>2. ASSUME NEW s \in Sockets,
               \/ ReadEntries(s) \/ ReadHashes(s) \/ ReadNoHashes(s) \/ ReadHash(s)
               \/ ReadChunk(s) \/ ReadNoChunk(s) \/ ReadGarbage(s)
        PROVE  IInv'
    BY <2>2, ReadEntriesKeeps, ReadHashesKeeps, ReadNoHashesKeeps, ReadHashKeeps, ReadChunkKeeps, ReadNoChunkKeeps,
       ReadGarbageKeeps
  <2> QED BY <1>1, <2>1, <2>2, PeerTimeoutKeeps DEF ClientStep
<1>2. ASSUME ServerStep PROVE IInv'
  <2>1. PICK s \in Sockets :
          \/ ServesEntries(s) \/ EntriesReady(s) \/ ServesHashes(s) \/ RefusesHashes(s)
          \/ NextAskedHash(s) \/ ServesChunk(s) \/ RefusesChunk(s) \/ UploadWrites(s)
          \/ \E close \in BOOLEAN : UploadEnds(s, close)
          \/ \E r \in ChunkRequests : UploadTimeout(s, r)
    BY <1>2 DEF ServerStep
  <2>2. CASE ServesEntries(s) \/ EntriesReady(s) \/ ServesHashes(s) \/ RefusesHashes(s)
    BY <2>2, ServesEntriesKeeps, EntriesReadyKeeps, ServesHashesKeeps, RefusesHashesKeeps
  <2>3. CASE NextAskedHash(s) \/ ServesChunk(s) \/ RefusesChunk(s) \/ UploadWrites(s)
    BY <2>3, NextAskedHashKeeps, ServesChunkKeeps, RefusesChunkKeeps, UploadWritesKeeps
  <2>4. CASE \E close \in BOOLEAN : UploadEnds(s, close)
    BY <2>4, UploadEndsKeeps
  <2>5. CASE \E r \in ChunkRequests : UploadTimeout(s, r)
    BY <2>5, UploadTimeoutKeeps
  <2> QED BY <2>1, <2>2, <2>3, <2>4, <2>5
<1>3. ASSUME SocketStep PROVE IInv'
  BY <1>3, NetworkBreaksKeeps, LeavesPoolKeeps, InactiveKeeps, DisconnectedKeeps DEF SocketStep
<1> QED BY <1>1, <1>2, <1>3, IdleIInv DEF Next

(* The invariant is one. *)
THEOREM Invariance == Spec => []IInv
<1>1. Init => IInv
  BY InitIInv
<1>2. IInv /\ [Next]_vars => IInv'
  BY NextIInv
<1> QED BY <1>1, <1>2, PTL DEF Spec

-----------------------------------------------------------------------------
(* What the invariant says of the sockets.                                 *)

LEMMA Unopened ==
  ASSUME IInv, NEW s \in Sockets, s \notin 1..opened
  PROVE  /\ HeldBy(s) = {} /\ serving[s] = NoWork
         /\ wire["client"][s] = <<>> /\ wire["server"][s] = <<>>
<1>1. s > opened
  BY OpenedSocket DEF IInv, Sockets
<1>2. serving[s] = NoWork /\ wire["client"][s] = <<>> /\ wire["server"][s] = <<>>
  BY <1>1 DEF IInv, Fresh, Sides
<1>3. HeldBy(s) = {}
  BY DEF IInv, Types, RequestTypes, HeldBy
<1> QED BY <1>2, <1>3

LEMMA OpenedOK ==
  ASSUME IInv, NEW s \in Sockets \ astray, s \in 1..opened
  PROVE  SocketOK(s) /\ Types
BY DEF IInv, SocketsOK

(* Every variable has its type; a pool holds a socket once, and at most    *)
(* MaxIdle of its sockets could be used again, whatever the number of      *)
(* requests that are done at the same time.                                *)
THEOREM TypeCorrect == Spec => []TypeOK
<1>1. IInv => TypeOK
  <2> SUFFICES ASSUME IInv PROVE TypeOK
    OBVIOUS
  <2>1. Types /\ Pools
    BY DEF IInv
  <2>2. request \in [Requests -> States] /\ \A r \in Requests : request[r].socket <= opened
    BY <2>1 DEF Types, RequestTypes
  <2>3. \A side \in Sides :
          Cardinality({s \in Pooled(side) : ~end[side][s].active /\ end[side][s].listening}) <= MaxIdle
    BY <2>1 DEF Pools, Reusable
  <2> QED BY <2>1, <2>2, <2>3 DEF TypeOK, Types, Pools
<1> QED BY <1>1, Invariance, PTL

(* No socket that was not given back too early carries two requests of the *)
(* client: getASocket() never returns one whose transaction is under way.  *)
THEOREM RequestsApart == Spec => []OneRequestPerSocket
<1>1. IInv => OneRequestPerSocket
  <2> SUFFICES ASSUME IInv, NEW s \in Sockets \ astray PROVE Cardinality(HeldBy(s)) <= 1
    BY DEF OneRequestPerSocket
  <2>1. \A r, q \in HeldBy(s) : r = q
    <3>1. CASE s \in 1..opened
      BY <3>1, OpenedOK DEF SocketOK, HoldOK
    <3>2. CASE s \notin 1..opened
      BY <3>2, Unopened
    <3> QED BY <3>1, <3>2
  <2>2. CASE HeldBy(s) = {}
    BY <2>2, FS_EmptySet
  <2>3. CASE HeldBy(s) # {}
    <3>1. PICK r : r \in HeldBy(s)
      BY <2>3
    <3>2. HeldBy(s) = {r}
      BY <2>1, <3>1
    <3>3. Cardinality({r}) = 1
      BY FS_Singleton
    <3> QED BY <3>2, <3>3
  <2> QED BY <2>2, <2>3
<1> QED BY <1>1, Invariance, PTL

(* What comes to a socket, and what the server still prepares for it, is   *)
(* the answer of the request that holds it: an answer that came too late   *)
(* is never taken for the one of the next request.                         *)
THEOREM AnswersTheHolder == Spec => []AnswersAwaited
<1>1. IInv => AnswersAwaited
  <2> SUFFICES ASSUME IInv, NEW s \in Sockets \ astray, Used(s)
               PROVE  /\ \A i \in 1..Len(wire["client"][s]) : wire["client"][s][i].r \in HeldBy(s)
                      /\ ~Broken(s) => {serving[s].entries} \cup ToSet(serving[s].hashes)
                                          \subseteq HeldBy(s) \cup {NoRequest}
    BY DEF AnswersAwaited, Used
  <2>1. CASE s \in 1..opened
    <3>1. AwaitedOK(s) /\ Types
      BY <2>1, OpenedOK DEF SocketOK
    <3>2. serving[s].hashes \in Seq(HashesRequests)
      BY <3>1, SocketTypes
    <3>3. ASSUME ~Broken(s), NEW q \in ToSet(serving[s].hashes) PROVE q \in HeldBy(s)
      <4>1. PICK i \in 1..Len(serving[s].hashes) : serving[s].hashes[i] = q
        BY <3>2, <3>3 DEF ToSet
      <4> QED BY <3>1, <3>3, <4>1 DEF AwaitedOK
    <3> QED BY <3>1, <3>3 DEF AwaitedOK
  <2>2. CASE s \notin 1..opened
    <3>1. wire["client"][s] = <<>> /\ serving[s].entries = NoRequest /\ serving[s].hashes = <<>>
      BY <2>2, Unopened DEF NoWork
    <3>2. ToSet(<<>>) = {}
      BY DEF ToSet
    <3> QED BY <3>1, <3>2
  <2> QED BY <2>1, <2>2
<1> QED BY <1>1, Invariance, PTL

(* The bytes of a chunk are never read as a message, and the server sends  *)
(* no message on the socket of an upload.                                  *)
THEOREM BytesApart == Spec => []StreamsApart
<1>1. IInv => StreamsApart
  <2> SUFFICES ASSUME IInv, NEW s \in Sockets \ astray
               PROVE  /\ end["client"][s].listening /\ wire["client"][s] # <<>> =>
                           Head(wire["client"][s]).type # "DATA"
                      /\ serving[s].upload # NoRequest => ~end["server"][s].listening
    BY DEF StreamsApart
  <2>1. CASE s \in 1..opened
    <3>1. SocketOK(s) /\ Types
      BY <2>1, OpenedOK
    <3>2. ASSUME end["client"][s].listening, wire["client"][s] # <<>>
          PROVE  Head(wire["client"][s]).type # "DATA"
      <4> PICK r, type : r = wire["client"][s][1].r /\ type = wire["client"][s][1].type
        OBVIOUS
      <4>1. type # "DATA"
        BY <3>1, <3>2, HeardKind
      <4>2. wire["client"][s] \in Seq(Messages)
        BY <3>1, SocketTypes
      <4> QED BY <3>2, <4>1, <4>2
    <3>3. serving[s].upload # NoRequest => ~end["server"][s].listening
      BY <3>1 DEF SocketOK, ServerOK
    <3> QED BY <3>2, <3>3
  <2>2. CASE s \notin 1..opened
    BY <2>2, Unopened DEF NoWork
  <2> QED BY <2>1, <2>2
<1> QED BY <1>1, Invariance, PTL

LEMMA ListedIs ==
  ASSUME NEW s, wire["client"][s] \in Seq(Messages),
         \A i \in 1..Len(wire["client"][s]) : wire["client"][s][i].type = "HASH" \/ (i = 1 /\ Begins(s))
  PROVE  Cardinality({i \in 1..Len(wire["client"][s]) : wire["client"][s][i].type = "HASH"}) = Listed(s)
<1> PICK q, n : q = wire["client"][s] /\ n = Len(q)
  OBVIOUS
<1>1. n \in Nat
  OBVIOUS
<1>2. CASE Begins(s)
  <2>1. q[1].type # "HASH" /\ n >= 1
    <3>1. q # <<>> /\ q[1].type = "HASHES"
      BY <1>2 DEF Begins
    <3> QED BY <1>1, <3>1
  <2>2. {i \in 1..n : q[i].type = "HASH"} = 2..n
    BY <1>1, <2>1
  <2>3. Cardinality(2..n) = n - 1
    <3>1. 2 \in Int /\ n \in Int
      BY <1>1
    <3>2. Cardinality(2..n) = IF 2 > n THEN 0 ELSE n - 2 + 1
      BY <3>1, FS_Interval
    <3> QED BY <1>1, <2>1, <3>2
  <2> QED BY <1>2, <2>2, <2>3 DEF Listed
<1>3. CASE ~Begins(s)
  <2>1. {i \in 1..n : q[i].type = "HASH"} = 1..n
    BY <1>1, <1>3
  <2>2. Cardinality(1..n) = n
    BY <1>1, FS_Interval
  <2>3. Listed(s) = n - 0
    BY <1>3 DEF Listed
  <2>4. n - 0 = n
    BY <1>1
  <2>5. Cardinality({i \in 1..n : q[i].type = "HASH"}) = Listed(s)
    BY <2>1, <2>2, <2>3, <2>4
  <2> QED BY <2>5
<1> QED BY <1>2, <1>3

(* The hashes a request still misses are those under way and those posted: *)
(* no count ends the transaction before the last one.                      *)
THEOREM HashesMissed == Spec => []HashesConserved
<1>1. IInv => HashesConserved
  <2> SUFFICES ASSUME IInv, NEW r \in HashesRequests, Live(r), NEW s, s = request[r].socket, s \notin astray
               PROVE  /\ end["client"][s].listening => end["client"][s].active
                      /\ \/ Broken(s) \/ ~end["server"][s].listening \/ wire["server"][s] # <<>>
                         \/ Message("NO_HASHES", r) \in ToSet(wire["client"][s])
                         \/ Cardinality({i \in 1..Len(wire["client"][s]) : wire["client"][s][i].type = "HASH"})
                              + Len(serving[s].hashes) = request[r].left
    BY DEF HashesConserved
  <2>1. r \in Requests /\ s \in 1..opened /\ s \in Sockets /\ r \in HeldBy(s)
    <3>1. r \in Requests
      BY DEF Requests
    <3> QED BY <3>1, OpenedSocket DEF IInv, Types, RequestTypes, HeldBy
  <2>2. SocketOK(s) /\ Types
    BY <2>1, OpenedOK
  <2>3. HashesOK(s, r)
    BY <2>1, <2>2, HolderOK
  <2>4. end["client"][s].listening => end["client"][s].active
    BY <2>1, <2>2 DEF SocketOK, HoldOK
  <2>5. wire["client"][s] \in Seq(Messages)
    BY <2>1, <2>2, SocketTypes
  <2>6. Refused(s, r) => Message("NO_HASHES", r) \in ToSet(wire["client"][s])
    <3>1. \A m : m \in ToSet(<<m>>)
      BY DEF ToSet
    <3> QED BY <3>1 DEF Refused
  <2>7. ~Refused(s, r) =>
          Cardinality({i \in 1..Len(wire["client"][s]) : wire["client"][s][i].type = "HASH"}) = Listed(s)
    BY <2>3, <2>5, ListedIs DEF HashesOK
  <2> QED BY <2>3, <2>4, <2>6, <2>7 DEF HashesOK
<1> QED BY <1>1, Invariance, PTL
=============================================================================

-------------------------- MODULE FileStatusProofs --------------------------
(***************************************************************************)
(* Proofs about FileStatus, for every number of files, of directories, of  *)
(* chunks and of peers, for every order of the queue and every length of   *)
(* the list of the errors.  The invariants of the run hold together, with  *)
(* two more: nothing is downloaded of a complete file, and a directory     *)
(* that is being deleted has no peer of its own any more.                  *)
(***************************************************************************)
EXTENDS FileStatus, InductionFacts

CompleteIdle == \A f \in Files : status[f] = "COMPLETE" => chunk[f].down = {}

(* The request that the destructor of a directory drops last of all: its   *)
(* peer is free by then, or is busy with another directory.                *)
DropHeld(d) ==
  SourceOf[d] \in occupied.entries \ lost.entries =>
    \E e \in request \cap Dirs : e # d /\ SourceOf[e] = SourceOf[d]
DropOK ==
  \A i \in 1..Len(todo) : todo[i].kind = "drop" =>
    /\ \A j \in 1..Len(todo) : j # i => todo[j].kind \in {"hashes", "entries"}
    /\ status[todo[i].d] = "DELETED" /\ DropHeld(todo[i].d)

(* The invariant, by what it is about. *)
StatusTypes ==
  /\ status \in [Downloads -> Statuses]
  /\ chunk \in [Files -> ChunkSets] /\ \A f \in Files : ChunksOK(f, chunk[f])
  /\ exists \subseteq Files /\ crashed \in BOOLEAN /\ stuck \subseteq Downloads
  /\ erroneous \in Seq(Downloads) /\ Len(erroneous) <= MaxListed
RequestTypes ==
  /\ request \subseteq Downloads
  /\ occupied \in [hashes : SUBSET Peers, entries : SUBSET Peers]
  /\ lost \in [hashes : SUBSET Peers, entries : SUBSET Peers]
HandlerTypes ==
  /\ avail \subseteq Peers /\ retrying \subseteq Dirs
  /\ todo \in Seq(Tasks) /\ at \in 1..Len(Order) + 1

StatusesOK ==
  StatusTypes /\ CompleteHasAll /\ CompleteIdle /\ ErroneousIsRetried /\ GettingIsAsked
RequestsOK == RequestTypes /\ HashRequestsExclusive /\ OccupiedIsHeld

IInv == StatusesOK /\ RequestsOK /\ HandlerTypes /\ DropOK

-----------------------------------------------------------------------------
(* updateStatus().                                                         *)

LEMMA ChunksAre ==
  ASSUME NEW f \in Files
  PROVE  ChunksOf(f) \subseteq Nat
BY ChunksAssumption DEF ChunksOf

(* No chunk decides of the status exactly when all of those seen are done. *)
LEMMA NoneDecides ==
  ASSUME NEW f \in Files, NEW ch, ChunksOK(f, ch), Deciding(ch) = {}
  PROVE  Seen(ch) \subseteq ch.done
<1> DEFINE wanting == Seen(ch) \ (Wrong(ch) \cup ch.done)
<1>1. Wrong(ch) = {} /\ {n \in wanting : \A k \in wanting \cap ch.peered : n <= k} = {}
  BY DEF Deciding
<1>2. wanting \subseteq Nat
  BY ChunksAre DEF ChunksOK, Seen
<1> HIDE DEF wanting
<1>3. wanting = {}
  <2> SUFFICES ASSUME wanting # {} PROVE FALSE
    OBVIOUS
  <2>1. \E n \in wanting : \A k \in wanting : n <= k
    BY <1>2, LeastNatural
  <2> QED BY <1>1, <2>1
<1> QED BY <1>1, <1>3 DEF wanting

LEMMA JudgedOK ==
  ASSUME NEW f \in Files, NEW ch, ChunksOK(f, ch), NEW st \in Statuses, NEW asked \in BOOLEAN
  PROVE  LET new == Judged(f, ch, st, asked)
         IN /\ new \in Statuses
            /\ Frozen(st) => new = st
            /\ new = "COMPLETE" => \/ st = "COMPLETE"
                                   \/ ch.done = ChunksOf(f) /\ ch.down = {} /\ ~Resets(ch, st)
            /\ new = "GETTING_THE_HASHES" =>
                 asked \/ (st = "GETTING_THE_HASHES" /\ ch.known # ChunksOf(f))
<1> DEFINE last == Max(Deciding(ch))
           new == IF Deciding(ch) = {}
                  THEN IF ch.known = ChunksOf(f) THEN "COMPLETE" ELSE st
                  ELSE IF last \in Wrong(ch) THEN "TRANSFER_ERROR"
                  ELSE IF last \in ch.peered THEN "QUEUED" ELSE "NO_SOURCE"
<1>1. Judged(f, ch, st, asked) =
        IF Frozen(st) THEN st
        ELSE IF Seen(ch) \cap ch.absent # {} THEN "FILE_NON_EXISTENT"
        ELSE IF ch.down # {} THEN "DOWNLOADING"
        ELSE IF new # "COMPLETE" /\ asked THEN "GETTING_THE_HASHES" ELSE new
  BY DEF Judged
<1>2. /\ new \in Statuses
      /\ new = "COMPLETE" => st = "COMPLETE" \/ (Deciding(ch) = {} /\ ch.known = ChunksOf(f))
      /\ new = "GETTING_THE_HASHES" => st = "GETTING_THE_HASHES" /\ ch.known # ChunksOf(f)
  BY DEF Statuses, Errors
<1> HIDE DEF new
<1>3. ASSUME ch.down = {}, Deciding(ch) = {}, ch.known = ChunksOf(f)
      PROVE  ch.done = ChunksOf(f)
  <2>1. Seen(ch) = ch.known
    BY <1>3 DEF Seen
  <2> QED BY <1>3, <2>1, NoneDecides DEF ChunksOK
<1>4. ASSUME ~Frozen(st), Judged(f, ch, st, asked) = "COMPLETE"
      PROVE  ch.done = ChunksOf(f) /\ ch.down = {} /\ ~Resets(ch, st)
  <2>1. ch.down = {} /\ new = "COMPLETE" /\ Seen(ch) \cap ch.absent = {} /\ st # "COMPLETE"
    BY <1>1, <1>4 DEF Frozen
  <2> QED BY <1>2, <1>3, <2>1 DEF Resets
<1>5. Judged(f, ch, st, asked) \in Statuses /\ (Frozen(st) => Judged(f, ch, st, asked) = st)
  BY <1>1, <1>2 DEF Statuses, Errors
<1>6. Judged(f, ch, st, asked) = "GETTING_THE_HASHES" =>
        asked \/ (st = "GETTING_THE_HASHES" /\ ch.known # ChunksOf(f))
  BY <1>1, <1>2 DEF Frozen
<1>7. Judged(f, ch, st, asked) = "COMPLETE" /\ Frozen(st) => st = "COMPLETE"
  BY <1>5
<1> QED BY <1>4, <1>5, <1>6, <1>7

LEMMA QuietedOK ==
  ASSUME NEW f \in Files, NEW ch, ChunksOK(f, ch), NEW st
  PROVE  /\ ChunksOK(f, Quieted(ch, st))
         /\ Quieted(ch, st).known = ch.known /\ Quieted(ch, st).down = ch.down
         /\ Frozen(st) => Quieted(ch, st) = ch
         /\ ~Resets(ch, st) => Quieted(ch, st).done = ch.done
<1> DEFINE met == {n \in Wrong(ch) : \A k \in Seen(ch) \cap ch.absent : n <= k}
           new == [ch EXCEPT !.failed = @ \ met, !.absent = @ \ met,
                             !.done = IF Resets(ch, st) THEN {} ELSE @]
<1>1. Quieted(ch, st) = IF Frozen(st) THEN ch ELSE new
  BY DEF Quieted
<1> HIDE DEF met
<1>2. /\ new \in ChunkSets /\ new.known = ch.known /\ new.down = ch.down /\ new.peered = ch.peered
      /\ new.failed = ch.failed \ met /\ new.absent = ch.absent \ met
      /\ new.done = IF Resets(ch, st) THEN {} ELSE ch.done
  BY DEF ChunksOK, ChunkSets
<1> HIDE DEF new
<1>3. ChunksOK(f, new)
  BY <1>2 DEF ChunksOK
<1> QED BY <1>1, <1>2, <1>3

LastOf(path) == path[Len(path)]

(* updateStatus(), once or with a second turn inside the first, of the     *)
(* chunks ch of f after the statuses of path.                              *)
Settles(f, ch, path, asked, s) ==
  /\ ChunksOK(f, s.ch) /\ s.exists \in BOOLEAN /\ s.crashes \in BOOLEAN
  /\ s.path \in Seq(Statuses) /\ s.path # <<>> /\ s.path[1] = path[1]
  /\ LastOf(s.path) = "COMPLETE" => s.ch.done = ChunksOf(f) /\ s.ch.down = {}
  /\ LastOf(s.path) = "GETTING_THE_HASHES" =>
       asked \/ (LastOf(path) = "GETTING_THE_HASHES" /\ ch.known # ChunksOf(f))

LEMMA SettledOK ==
  ASSUME NEW f \in Files, NEW ch, ChunksOK(f, ch), NEW path \in Seq(Statuses), path # <<>>,
         NEW asked \in BOOLEAN, NEW created \in BOOLEAN, NEW nested \in BOOLEAN,
         LastOf(path) = "COMPLETE" => ch.done = ChunksOf(f) /\ ch.down = {}
  PROVE  Settles(f, ch, path, asked, Settled(f, ch, path, asked, created, nested))
<1> DEFINE s     == Settled(f, ch, path, asked, created, nested)
           st    == LastOf(path)
           first == Judged(f, ch, st, asked)
           once  == Quieted(ch, st)
           again == Judged(f, once, first, asked)
           twice == Quieted(once, first)
<1>1. st \in Statuses /\ Len(path) \in Nat \ {0}
  BY DEF LastOf
<1>2. /\ s.ch = IF nested THEN twice ELSE once
      /\ s.path = IF nested THEN path \o <<first, again>> ELSE Append(path, first)
      /\ s.exists = (created /\ ~Resets(ch, st))
      /\ s.crashes = (Resets(ch, st) /\ (ch.known # ChunksOf(f) \/ ch.down # {}))
  BY DEF Settled, LastOf
<1>3. /\ first \in Statuses /\ (Frozen(st) => first = st)
      /\ first = "COMPLETE" => \/ st = "COMPLETE"
                               \/ ch.done = ChunksOf(f) /\ ch.down = {} /\ ~Resets(ch, st)
      /\ first = "GETTING_THE_HASHES" => asked \/ (st = "GETTING_THE_HASHES" /\ ch.known # ChunksOf(f))
  BY <1>1, JudgedOK
<1>4. /\ ChunksOK(f, once) /\ once.known = ch.known /\ once.down = ch.down
      /\ (Frozen(st) => once = ch) /\ (~Resets(ch, st) => once.done = ch.done)
  BY QuietedOK
<1>5. /\ again \in Statuses
      /\ again = "COMPLETE" => \/ first = "COMPLETE"
                               \/ once.done = ChunksOf(f) /\ once.down = {} /\ ~Resets(once, first)
      /\ again = "GETTING_THE_HASHES" =>
           asked \/ (first = "GETTING_THE_HASHES" /\ once.known # ChunksOf(f))
  BY <1>3, <1>4, JudgedOK
<1>6. /\ ChunksOK(f, twice) /\ twice.known = once.known /\ twice.down = once.down
      /\ (Frozen(first) => twice = once) /\ (~Resets(once, first) => twice.done = once.done)
  BY <1>4, QuietedOK
<1>7. /\ st = "COMPLETE" => ch.done = ChunksOf(f) /\ ch.down = {}
      /\ Frozen("COMPLETE")
  BY DEF Frozen
<1> HIDE DEF s, st, first, once, again, twice
<1>8. first = "COMPLETE" => once.done = ChunksOf(f) /\ once.down = {}
  BY <1>3, <1>4, <1>7
<1>9. again = "COMPLETE" => twice.done = ChunksOf(f) /\ twice.down = {}
  BY <1>5, <1>6, <1>7, <1>8
<1>10. ASSUME nested PROVE Settles(f, ch, path, asked, s)
  <2>1. s.path = path \o <<first, again>> /\ s.ch = twice
    BY <1>2, <1>10
  <2>2. /\ s.path \in Seq(Statuses) /\ s.path # <<>> /\ s.path[1] = path[1]
        /\ Len(s.path) = Len(path) + 2 /\ s.path[Len(path) + 2] = again
    BY <1>1, <1>3, <1>5, <2>1
  <2>3. LastOf(s.path) = again
    BY <2>2 DEF LastOf
  <2>4. s.exists \in BOOLEAN /\ s.crashes \in BOOLEAN
    BY <1>2
  <2> QED BY <1>3, <1>4, <1>5, <1>6, <1>9, <2>1, <2>2, <2>3, <2>4 DEF st, Settles
<1>11. ASSUME ~nested PROVE Settles(f, ch, path, asked, s)
  <2>1. s.path = Append(path, first) /\ s.ch = once
    BY <1>2, <1>11
  <2>2. /\ s.path \in Seq(Statuses) /\ s.path # <<>> /\ s.path[1] = path[1]
        /\ Len(s.path) = Len(path) + 1 /\ s.path[Len(path) + 1] = first
    BY <1>1, <1>3, <2>1
  <2>3. LastOf(s.path) = first
    BY <2>2 DEF LastOf
  <2>4. s.exists \in BOOLEAN /\ s.crashes \in BOOLEAN
    BY <1>2
  <2> QED BY <1>3, <1>4, <1>8, <2>1, <2>2, <2>3, <2>4 DEF st, Settles
<1> QED BY <1>10, <1>11 DEF s

-----------------------------------------------------------------------------
(* setStatus() and the list of the errors.                                 *)

Turns(path) == {i \in 1..Len(path) - 1 : path[i] \notin Errors /\ path[i + 1] \in Errors}

(* A download that ends in an error and never turned to one began with one.*)
LEMMA BeganWrong ==
  ASSUME NEW path \in Seq(Statuses), path # <<>>, LastOf(path) \in Errors, Turns(path) = {}
  PROVE  path[1] \in Errors
<1> DEFINE n == Len(path) - 1
           G == {i \in 0..n : path[Len(path) - i] \in Errors}
<1>1. n \in Nat /\ Len(path) = n + 1 /\ 0 \in G
  BY DEF LastOf
<1>2. ASSUME NEW i \in 1..n, i - 1 \in G PROVE i \in G
  <2>1. Len(path) - i \in 1..n /\ (Len(path) - i) + 1 = Len(path) - (i - 1)
    BY <1>1
  <2>2. path[Len(path) - (i - 1)] \in Errors
    BY <1>2
  <2>3. path[Len(path) - i] \in Errors
    BY <2>1, <2>2 DEF Turns
  <2> QED BY <1>1, <2>3
<1>3. 0..n \subseteq G
  BY <1>1, <1>2, IntervalIn
<1>4. n \in 0..n /\ Len(path) - n = 1
  BY <1>1
<1>5. n \in G
  BY <1>3, <1>4
<1> QED BY <1>4, <1>5

LEMMA TurnsAre ==
  ASSUME NEW path \in Seq(Statuses)
  PROVE  Cardinality(Turns(path)) \in Nat /\ (Turns(path) # {} => Cardinality(Turns(path)) >= 1)
<1>1. IsFiniteSet(1..Len(path) - 1)
  <2>1. 1 \in Int /\ Len(path) - 1 \in Int
    OBVIOUS
  <2> QED BY <2>1, FS_Interval
<1>2. Turns(path) \in SUBSET (1..Len(path) - 1)
  BY DEF Turns
<1>3. IsFiniteSet(Turns(path))
  BY <1>1, <1>2, FS_Subset
<1>4. Cardinality(Turns(path)) \in Nat /\ (Cardinality(Turns(path)) = 0 <=> Turns(path) = {})
  BY <1>3, FS_CardinalityType, FS_EmptySet
<1> QED BY <1>4

Has(list, d) == \E i \in 1..Len(list) : list[i] = d

(* What is left of the list of the errors still has every other download   *)
(* in error, and the one whose status changes was waiting if it had one.   *)
LEMMA StatusesSet ==
  ASSUME StatusTypes, ErroneousIsRetried, NEW d \in Downloads, NEW path \in Seq(Statuses), path # <<>>,
         NEW list \in Seq(Downloads), SetStatuses(d, path, list),
         \A e \in retrying : e \in retrying' \/ (e = d /\ LastOf(path) \notin Errors),
         path[1] \notin Errors \/ path[1] = status[d],
         list = erroneous \/ \A e \in Downloads \ {d} : status[e] \in Errors /\ Has(erroneous, e) => Has(list, e)
  PROVE  /\ status' \in [Downloads -> Statuses] /\ status'[d] = LastOf(path)
         /\ \A e \in Downloads \ {d} : status'[e] = status[e]
         /\ erroneous' \in Seq(Downloads) /\ Len(erroneous') <= MaxListed /\ stuck' \subseteq Downloads
         /\ ErroneousIsRetried'
<1> DEFINE turns == Turns(path)
           added == [i \in 1..Cardinality(turns) |-> d]
<1>1. /\ status' = [status EXCEPT ![d] = LastOf(path)]
      /\ erroneous' = list \o added /\ Len(erroneous') <= MaxListed
      /\ stuck' = IF LastOf(path) \notin Errors \/ turns # {} THEN stuck \ {d}
                  ELSE IF list = erroneous THEN stuck ELSE stuck \cup {d}
  BY DEF SetStatuses, Turns, LastOf
<1>2. LastOf(path) \in Statuses
  BY DEF LastOf
<1>3. Cardinality(turns) \in Nat /\ (turns # {} => Cardinality(turns) >= 1)
  BY TurnsAre
<1>4. turns = {} /\ LastOf(path) \in Errors => path[1] \in Errors
  BY BeganWrong
<1> HIDE DEF turns
<1>5. added \in Seq(Downloads) /\ Len(added) = Cardinality(turns) /\ \A i \in 1..Len(added) : added[i] = d
  BY <1>3
<1> HIDE DEF added
<1>6. /\ erroneous' \in Seq(Downloads)
      /\ \A e : Has(list, e) => Has(erroneous', e)
      /\ turns # {} => Has(erroneous', d)
  <2>1. /\ erroneous' \in Seq(Downloads) /\ Len(erroneous') = Len(list) + Len(added)
        /\ \A i \in 1..Len(list) : erroneous'[i] = list[i]
        /\ \A i \in 1..Len(added) : erroneous'[Len(list) + i] = added[i]
    <3>1. added \in Seq(Downloads) /\ list \in Seq(Downloads)
      BY <1>5
    <3>2. /\ list \o added \in Seq(Downloads) /\ Len(list \o added) = Len(list) + Len(added)
          /\ \A i \in 1..Len(list) : (list \o added)[i] = list[i]
          /\ \A i \in 1..Len(added) : (list \o added)[Len(list) + i] = added[i]
      BY <3>1
    <3> QED BY <1>1, <3>2
  <2>2. Len(list) \in Nat /\ Len(added) \in Nat
    BY <1>5
  <2>3. \A e : Has(list, e) => Has(erroneous', e)
    BY <2>1, <2>2 DEF Has
  <2>4. turns # {} => Has(erroneous', d)
    <3> SUFFICES ASSUME turns # {} PROVE Has(erroneous', d)
      OBVIOUS
    <3>1. 1 \in 1..Len(added) /\ Len(list) + 1 \in 1..Len(erroneous')
      BY <1>3, <1>5, <2>1, <2>2
    <3>2. erroneous'[Len(list) + 1] = d
      BY <1>5, <2>1, <3>1
    <3> QED BY <3>1, <3>2 DEF Has
  <2> QED BY <2>1, <2>3, <2>4
<1>7. /\ status' \in [Downloads -> Statuses] /\ status'[d] = LastOf(path)
      /\ \A e \in Downloads \ {d} : status'[e] = status[e]
  BY <1>1, <1>2 DEF StatusTypes
<1>8. stuck' \subseteq Downloads /\ \A e \in stuck \ {d} : e \in stuck'
  BY <1>1 DEF StatusTypes
<1>9. \A e \in Downloads : status[e] \in Errors => Has(erroneous, e) \/ e \in retrying \/ e \in stuck
  BY DEF ErroneousIsRetried, Queued, Has, Errors
<1>10. ASSUME NEW e \in Downloads, status'[e] \in Errors
       PROVE  Has(erroneous', e) \/ e \in retrying' \/ e \in stuck'
  <2>1. CASE e # d
    <3>1. status[e] \in Errors
      BY <1>7, <1>10, <2>1
    <3>2. Has(erroneous, e) => Has(list, e)
      BY <2>1, <3>1
    <3> QED BY <1>6, <1>8, <1>9, <2>1, <3>1, <3>2
  <2>2. CASE e = d /\ turns # {}
    BY <1>6, <2>2
  <2>3. CASE e = d /\ turns = {}
    <3>1. LastOf(path) \in Errors /\ status[d] \in Errors
      BY <1>4, <1>7, <1>10, <2>3
    <3>2. CASE list = erroneous
      BY <1>1, <1>6, <1>9, <2>3, <3>1, <3>2
    <3>3. CASE list # erroneous
      BY <1>1, <2>3, <3>1, <3>3
    <3> QED BY <3>2, <3>3
  <2> QED BY <2>1, <2>2, <2>3
<1>11. ErroneousIsRetried'
  BY <1>10 DEF ErroneousIsRetried, Queued, Has
<1> QED BY <1>1, <1>6, <1>7, <1>8, <1>11

(* A handler that changes the status of one download. *)
LEMMA StatusMoves ==
  ASSUME StatusesOK, NEW d \in Downloads, NEW path \in Seq(Statuses), path # <<>>,
         NEW list \in Seq(Downloads), SetStatuses(d, path, list),
         \A e \in retrying : e \in retrying' \/ (e = d /\ LastOf(path) \notin Errors),
         path[1] \notin Errors \/ path[1] = status[d],
         list = erroneous \/ \A e \in Downloads \ {d} : status[e] \in Errors /\ Has(erroneous, e) => Has(list, e),
         chunk' \in [Files -> ChunkSets], exists' \subseteq Files, crashed' \in BOOLEAN,
         \A g \in Files \ {d} : chunk'[g] = chunk[g] /\ (g \in request => g \in request'),
         d \in Files => /\ ChunksOK(d, chunk'[d])
                        /\ LastOf(path) = "COMPLETE" => chunk'[d].done = ChunksOf(d) /\ chunk'[d].down = {}
                        /\ LastOf(path) = "GETTING_THE_HASHES" => d \in request'
  PROVE  /\ StatusesOK' /\ status'[d] = LastOf(path)
         /\ \A e \in Downloads \ {d} : status'[e] = status[e]
<1>1. StatusTypes /\ CompleteHasAll /\ CompleteIdle /\ ErroneousIsRetried /\ GettingIsAsked
  BY DEF StatusesOK
<1>2. /\ status' \in [Downloads -> Statuses] /\ status'[d] = LastOf(path)
      /\ \A e \in Downloads \ {d} : status'[e] = status[e]
      /\ erroneous' \in Seq(Downloads) /\ Len(erroneous') <= MaxListed /\ stuck' \subseteq Downloads
      /\ ErroneousIsRetried'
  BY <1>1, StatusesSet
<1>3. \A f \in Files : f \in Downloads /\ (f = d \/ f \in Files \ {d})
  BY DEF Downloads
<1>4. \A f \in Files : ChunksOK(f, chunk'[f])
  BY <1>1, <1>3 DEF StatusTypes
<1>5. \A f \in Files : status'[f] = "COMPLETE" => chunk'[f].done = ChunksOf(f) /\ chunk'[f].down = {}
  BY <1>1, <1>2, <1>3 DEF CompleteHasAll, CompleteIdle
<1>6. \A f \in Files : status'[f] = "GETTING_THE_HASHES" => f \in request'
  BY <1>1, <1>2, <1>3 DEF GettingIsAsked
<1> QED BY <1>2, <1>4, <1>5, <1>6
  DEF StatusesOK, StatusTypes, CompleteHasAll, CompleteIdle, GettingIsAsked

(* setStatus() alone. *)
LEMMA StatusSet ==
  ASSUME StatusesOK, NEW d \in Downloads, NEW st \in Statuses, SetStatus(d, st),
         \A e \in retrying : e \in retrying' \/ (e = d /\ st \notin Errors),
         exists' \subseteq Files, crashed' \in BOOLEAN, chunk' \in [Files -> ChunkSets],
         \A g \in Files \ {d} : chunk'[g] = chunk[g] /\ (g \in request => g \in request'),
         d \in Files => /\ ChunksOK(d, chunk'[d])
                        /\ st = "COMPLETE" => chunk'[d].done = ChunksOf(d) /\ chunk'[d].down = {}
                        /\ st = "GETTING_THE_HASHES" => d \in request'
  PROVE  StatusesOK' /\ status'[d] = st /\ \A e \in Downloads \ {d} : status'[e] = status[e]
<1> DEFINE path == <<status[d], st>>
<1>1. status[d] \in Statuses /\ erroneous \in Seq(Downloads)
  BY DEF StatusesOK, StatusTypes
<1>2. path \in Seq(Statuses) /\ path # <<>> /\ path[1] = status[d] /\ LastOf(path) = st
  BY <1>1 DEF LastOf
<1>3. SetStatuses(d, path, erroneous)
  BY DEF SetStatus
<1> HIDE DEF path
<1> QED BY <1>1, <1>2, <1>3, StatusMoves

(* A handler that leaves the statuses alone, and what a complete file has. *)
LEMMA StatusesKept ==
  ASSUME StatusesOK, UNCHANGED <<status, exists, erroneous, crashed, stuck>>, retrying \subseteq retrying',
         chunk' \in [Files -> ChunkSets], \A f \in Files : f \in request => f \in request',
         \A f \in Files : /\ ChunksOK(f, chunk'[f])
                          /\ status[f] = "COMPLETE" =>
                               chunk'[f].done = chunk[f].done /\ chunk'[f].down = chunk[f].down
  PROVE  StatusesOK'
<1>1. StatusTypes'
  BY DEF StatusesOK, StatusTypes
<1>2. (CompleteHasAll /\ CompleteIdle)'
  BY DEF StatusesOK, CompleteHasAll, CompleteIdle
<1>3. ErroneousIsRetried'
  BY DEF StatusesOK, ErroneousIsRetried, Queued
<1>4. GettingIsAsked'
  BY DEF StatusesOK, GettingIsAsked
<1> QED BY <1>1, <1>2, <1>3, <1>4 DEF StatusesOK

LEMMA StatusesSame ==
  ASSUME StatusesOK, UNCHANGED <<status, chunk, exists, erroneous, crashed, stuck>>,
         retrying \subseteq retrying', \A f \in Files : f \in request => f \in request'
  PROVE  StatusesOK'
<1>1. chunk' \in [Files -> ChunkSets] /\ \A f \in Files : ChunksOK(f, chunk'[f])
  BY DEF StatusesOK, StatusTypes
<1> QED BY <1>1, StatusesKept

(* What updateStatus() does to the file f, after the statuses of path.     *)
LEMMA FileSettled ==
  ASSUME StatusesOK, NEW f \in Files, NEW ch, ChunksOK(f, ch),
         NEW path \in Seq(Statuses), path # <<>>, path[1] = status[f],
         LastOf(path) = "COMPLETE" => ch.done = ChunksOf(f) /\ ch.down = {},
         LastOf(path) = "GETTING_THE_HASHES" => status[f] = "GETTING_THE_HASHES",
         NEW asked \in BOOLEAN, asked => f \in request',
         NEW created \in BOOLEAN, NEW nested \in BOOLEAN,
         NEW s, s = Settled(f, ch, path, asked, created, nested),
         chunk' = [chunk EXCEPT ![f] = s.ch], SetStatuses(f, s.path, erroneous),
         exists' \subseteq Files, crashed' = s.crashes, retrying' = retrying,
         \A g \in Files \ {f} : g \in request => g \in request',
         f \in request => f \in request' \/ ch.known = ChunksOf(f)
  PROVE  StatusesOK' /\ \A e \in Downloads \ {f} : status'[e] = status[e]
<1>1. /\ f \in Downloads /\ erroneous \in Seq(Downloads) /\ chunk \in [Files -> ChunkSets]
      /\ status[f] = "GETTING_THE_HASHES" => f \in request
  BY DEF StatusesOK, StatusTypes, GettingIsAsked, Downloads
<1>2. Settles(f, ch, path, asked, s)
  BY SettledOK
<1>3. /\ ChunksOK(f, s.ch) /\ s.crashes \in BOOLEAN
      /\ s.path \in Seq(Statuses) /\ s.path # <<>> /\ s.path[1] = path[1]
      /\ LastOf(s.path) = "COMPLETE" => s.ch.done = ChunksOf(f) /\ s.ch.down = {}
      /\ LastOf(s.path) = "GETTING_THE_HASHES" =>
           asked \/ (LastOf(path) = "GETTING_THE_HASHES" /\ ch.known # ChunksOf(f))
  BY <1>2 DEF Settles
<1>4. /\ chunk' \in [Files -> ChunkSets] /\ chunk'[f] = s.ch
      /\ \A g \in Files \ {f} : chunk'[g] = chunk[g]
  BY <1>1, <1>3 DEF ChunksOK
<1>5. LastOf(s.path) = "GETTING_THE_HASHES" => f \in request'
  BY <1>1, <1>3
<1> QED BY <1>1, <1>3, <1>4, <1>5, StatusMoves

(* updateStatus() at the end of a handler. *)
LEMMA StatusUpdated ==
  ASSUME StatusesOK, NEW f \in Files, NEW ch, ChunksOK(f, ch), UpdateStatus(f, ch), retrying' = retrying,
         \A g \in Files \ {f} : g \in request => g \in request',
         f \in request => f \in request' \/ ch.known = ChunksOf(f),
         status[f] = "COMPLETE" => ch.done = ChunksOf(f) /\ ch.down = {}
  PROVE  StatusesOK' /\ \A e \in Downloads \ {f} : status'[e] = status[e]
<1> DEFINE path == <<status[f]>>
           asked == f \in request'
           created == f \in exists
<1>1. status[f] \in Statuses /\ exists \subseteq Files
  BY DEF StatusesOK, StatusTypes, Downloads
<1>2. path \in Seq(Statuses) /\ path # <<>> /\ path[1] = status[f] /\ LastOf(path) = status[f]
  BY <1>1 DEF LastOf
<1>3. asked \in BOOLEAN /\ created \in BOOLEAN /\ (asked => f \in request')
  OBVIOUS
<1>4. PICK nested \in BOOLEAN :
        LET s == Settled(f, ch, path, asked, created, nested)
        IN /\ chunk' = [chunk EXCEPT ![f] = s.ch]
           /\ SetStatuses(f, s.path, erroneous)
           /\ exists' = IF s.exists THEN exists ELSE exists \ {f}
           /\ crashed' = s.crashes
  BY DEF UpdateStatus
<1> DEFINE s == Settled(f, ch, path, asked, created, nested)
<1>5. /\ chunk' = [chunk EXCEPT ![f] = s.ch] /\ SetStatuses(f, s.path, erroneous)
      /\ exists' \subseteq Files /\ crashed' = s.crashes
  BY <1>1, <1>4
<1> HIDE DEF path, asked, created
<1> QED BY <1>2, <1>3, <1>5, FileSettled

-----------------------------------------------------------------------------
(* start().                                                                *)

LEMMA AskedStatusIs ==
  ASSUME NEW d \in Files, NEW may \in BOOLEAN, Ask(d, may), NEW st \in Statuses,
         may => st # "GETTING_THE_HASHES" /\ ~Frozen(st),
         st = "GETTING_THE_HASHES" => d \in request
  PROVE  /\ AskedStatus(d, st, may) \in Statuses
         /\ AskedStatus(d, st, may) = "COMPLETE" => st = "COMPLETE"
         /\ AskedStatus(d, st, may) = "GETTING_THE_HASHES" => d \in request'
<1>1. d \notin Dirs
  BY DownloadsAssumption
<1>2. CASE may
  BY <1>1, <1>2 DEF AskedStatus, Ask, Statuses, Accepts
<1>3. CASE ~may
  BY <1>3 DEF AskedStatus, Ask, asking
<1> QED BY <1>2, <1>3

LEMMA AskOthers ==
  ASSUME NEW d, NEW may \in BOOLEAN, Ask(d, may)
  PROVE  \A e : e # d => (e \in request <=> e \in request')
BY DEF Ask, asking

LEMMA LinkedOK ==
  ASSUME NEW f \in Files, NEW ch, ChunksOK(f, ch), NEW link \in Linked(ch)
  PROVE  link.created \in BOOLEAN /\ ChunksOK(f, link.ch)
<1>1. ChunksOK(f, Found(ch))
  BY DEF ChunksOK, ChunkSets, Found
<1>2. \/ link = [created |-> FALSE, ch |-> ch]
      \/ link = [created |-> TRUE, ch |-> ch]
      \/ link = [created |-> TRUE, ch |-> Found(ch)]
  BY DEF Linked
<1>3. CASE link = [created |-> FALSE, ch |-> ch]
  BY <1>3
<1>4. CASE link = [created |-> TRUE, ch |-> ch]
  BY <1>4
<1>5. CASE link = [created |-> TRUE, ch |-> Found(ch)]
  <2> DEFINE found == Found(ch)
  <2>1. ChunksOK(f, found) /\ link = [created |-> TRUE, ch |-> found]
    BY <1>1, <1>5
  <2> HIDE DEF found
  <2> QED BY <2>1
<1> QED BY <1>2, <1>3, <1>4, <1>5

LEMMA WithSourceOK ==
  ASSUME NEW f \in Files, NEW ch, ChunksOK(f, ch)
  PROVE  /\ ChunksOK(f, WithSource(f, ch))
         /\ WithSource(f, ch).known = ch.known /\ WithSource(f, ch).done = ch.done
         /\ WithSource(f, ch).down = ch.down
BY DEF ChunksOK, ChunkSets, WithSource

LEMMA WelcomedIs ==
  ASSUME NEW d, NEW st \in Statuses
  PROVE  /\ Welcomed(d, st) \in Statuses
         /\ Welcomed(d, st) \in {"COMPLETE", "GETTING_THE_HASHES"} => Welcomed(d, st) = st
BY DEF Welcomed, Statuses

LEMMA FileStarted ==
  ASSUME StatusesOK, NEW f \in Files, NEW ch, ChunksOK(f, ch), NEW st \in Statuses,
         NEW list \in Seq(Downloads), StartFile(f, ch, st, list), retrying' = retrying,
         st \notin {"COMPLETE", "GETTING_THE_HASHES"}, st \notin Errors \/ st = status[f],
         list = erroneous \/ \A e \in Downloads \ {f} : status[e] \in Errors /\ Has(erroneous, e) => Has(list, e)
  PROVE  /\ StatusesOK' /\ \A e \in Downloads \ {f} : status'[e] = status[e]
         /\ \E may \in BOOLEAN : Ask(f, may)
<1> DEFINE start == <<st, Welcomed(f, st)>>
           asked == f \in request
<1>1. PICK link \in Linked(ch), nested \in BOOLEAN, writable \in BOOLEAN :
    LET s == Settled(f, WithSource(f, link.ch), start, asked, link.created, nested)
        creates == NbChunk[f] = 0 /\ ~s.exists
        path  == IF creates /\ ~writable THEN Append(s.path, "UNABLE_TO_CREATE") ELSE s.path
        final == path[Len(path)]
        may   == MayAsk(f, ch, final)
    IN /\ chunk' = [chunk EXCEPT ![f] = s.ch]
       /\ exists' = IF s.exists \/ (creates /\ writable) THEN exists \cup {f} ELSE exists \ {f}
       /\ crashed' = s.crashes
       /\ Ask(f, may)
       /\ SetStatuses(f, Append(path, AskedStatus(f, final, may)), list)
  BY DEF StartFile
<1> DEFINE with == WithSource(f, link.ch)
           s == Settled(f, with, start, asked, link.created, nested)
           creates == NbChunk[f] = 0 /\ ~s.exists
           path  == IF creates /\ ~writable THEN Append(s.path, "UNABLE_TO_CREATE") ELSE s.path
           final == LastOf(path)
           may   == MayAsk(f, ch, final)
           last  == AskedStatus(f, final, may)
<1>2. /\ chunk' = [chunk EXCEPT ![f] = s.ch] /\ crashed' = s.crashes
      /\ exists' = IF s.exists \/ (creates /\ writable) THEN exists \cup {f} ELSE exists \ {f}
      /\ Ask(f, may) /\ SetStatuses(f, Append(path, last), list)
  BY <1>1 DEF LastOf
<1>3. f \in Downloads /\ exists \subseteq Files /\ chunk \in [Files -> ChunkSets] /\ f \notin Dirs
  BY DownloadsAssumption DEF StatusesOK, StatusTypes, Downloads
<1>4. /\ start \in Seq(Statuses) /\ start # <<>> /\ start[1] = st
      /\ LastOf(start) \notin {"COMPLETE", "GETTING_THE_HASHES"}
  BY WelcomedIs DEF LastOf
<1>5. asked \in BOOLEAN /\ link.created \in BOOLEAN /\ ChunksOK(f, with) /\ (asked => f \in request)
  BY LinkedOK, WithSourceOK
<1>6. LastOf(start) = "COMPLETE" => with.done = ChunksOf(f) /\ with.down = {}
  BY <1>4
<1> HIDE DEF start, asked, with, s
<1>7. /\ ChunksOK(f, s.ch) /\ s.exists \in BOOLEAN /\ s.crashes \in BOOLEAN
      /\ s.path \in Seq(Statuses) /\ s.path # <<>> /\ s.path[1] = start[1]
      /\ LastOf(s.path) = "COMPLETE" => s.ch.done = ChunksOf(f) /\ s.ch.down = {}
      /\ LastOf(s.path) = "GETTING_THE_HASHES" =>
           asked \/ (LastOf(start) = "GETTING_THE_HASHES" /\ with.known # ChunksOf(f))
  <2>1. Settles(f, with, start, asked, s)
    BY <1>4, <1>5, <1>6, SettledOK DEF s
  <2> QED BY <2>1 DEF Settles
<1>8. /\ ChunksOK(f, s.ch) /\ s.exists \in BOOLEAN /\ s.crashes \in BOOLEAN
      /\ s.path \in Seq(Statuses) /\ s.path # <<>> /\ s.path[1] = st
      /\ LastOf(s.path) = "COMPLETE" => s.ch.done = ChunksOf(f) /\ s.ch.down = {}
      /\ LastOf(s.path) = "GETTING_THE_HASHES" => f \in request
  BY <1>4, <1>5, <1>7
<1>9. exists' \subseteq Files /\ crashed' \in BOOLEAN
  BY <1>2, <1>3, <1>8
<1> HIDE DEF creates
<1>10. /\ path \in Seq(Statuses) /\ path # <<>> /\ path[1] = st /\ Len(path) \in Nat \ {0}
       /\ final \in Statuses
       /\ final \in {"COMPLETE", "GETTING_THE_HASHES"} => final = LastOf(s.path)
  <2>1. CASE path = s.path
    <3>1. path \in Seq(Statuses) /\ path # <<>> /\ path[1] = st /\ final = LastOf(s.path)
      BY <1>8, <2>1
    <3> HIDE DEF path
    <3>2. Len(path) \in Nat \ {0} /\ LastOf(path) \in Statuses
      BY <3>1 DEF LastOf
    <3> QED BY <3>1, <3>2
  <2>2. CASE path = Append(s.path, "UNABLE_TO_CREATE")
    <3>1. "UNABLE_TO_CREATE" \in Statuses
      BY DEF Statuses, Errors
    <3>2. /\ path \in Seq(Statuses) /\ path # <<>> /\ path[1] = st /\ Len(path) = Len(s.path) + 1
          /\ path[Len(s.path) + 1] = "UNABLE_TO_CREATE"
      BY <1>8, <2>2, <3>1
    <3> QED BY <1>8, <3>1, <3>2 DEF LastOf
  <2> QED BY <2>1, <2>2
<1> HIDE DEF path
<1>11. may \in BOOLEAN /\ (may => final # "GETTING_THE_HASHES" /\ ~Frozen(final))
  BY DEF MayAsk
<1> HIDE DEF final, may
<1>12. /\ last \in Statuses /\ (last = "COMPLETE" => final = "COMPLETE")
       /\ last = "GETTING_THE_HASHES" => f \in request'
  BY <1>2, <1>8, <1>10, <1>11, AskedStatusIs
<1> HIDE DEF last
<1>13. /\ Append(path, last) \in Seq(Statuses) /\ Append(path, last) # <<>>
       /\ Append(path, last)[1] = st /\ LastOf(Append(path, last)) = last
  <2>1. /\ Append(path, last) \in Seq(Statuses) /\ Append(path, last) # <<>>
        /\ Append(path, last)[1] = st /\ Len(Append(path, last)) = Len(path) + 1
        /\ Append(path, last)[Len(path) + 1] = last
    BY <1>10, <1>12
  <2> QED BY <2>1 DEF LastOf
<1>14. /\ chunk' \in [Files -> ChunkSets] /\ chunk'[f] = s.ch
       /\ \A g \in Files \ {f} : chunk'[g] = chunk[g] /\ (g \in request => g \in request')
  BY <1>2, <1>3, <1>8, <1>11, AskOthers DEF ChunksOK
<1>15. last = "COMPLETE" => chunk'[f].done = ChunksOf(f) /\ chunk'[f].down = {}
  BY <1>8, <1>10, <1>12, <1>14
<1>16. \A e \in retrying : e \in retrying'
  OBVIOUS
<1>17. ChunksOK(f, chunk'[f])
  BY <1>8, <1>14
<1>18. StatusesOK' /\ \A e \in Downloads \ {f} : status'[e] = status[e]
  BY <1>2, <1>3, <1>9, <1>12, <1>13, <1>14, <1>15, <1>16, <1>17, StatusMoves
<1> QED BY <1>2, <1>11, <1>18

LEMMA DirStarted ==
  ASSUME StatusesOK, NEW d \in Dirs, NEW st \in Statuses, NEW list \in Seq(Downloads),
         StartDir(d, st, list), retrying' = retrying, st \notin Errors \/ st = status[d],
         list = erroneous \/ \A e \in Downloads \ {d} : status[e] \in Errors /\ Has(erroneous, e) => Has(list, e)
  PROVE  /\ StatusesOK' /\ \A e \in Downloads \ {d} : status'[e] = status[e]
         /\ \E may \in BOOLEAN : Ask(d, may)
<1> DEFINE fresh == IF SourceOf[d] \in avail THEN "QUEUED" ELSE "UNKNOWN_PEER_SOURCE"
           path(writable) == <<st, fresh>> \o (IF writable THEN <<>> ELSE <<"UNABLE_TO_CREATE">>)
<1>1. PICK writable \in BOOLEAN :
        /\ Ask(d, writable) /\ SetStatuses(d, path(writable), list)
        /\ UNCHANGED <<chunk, exists, crashed>>
  BY DEF StartDir
<1>2. d \in Downloads /\ d \notin Files
  BY DownloadsAssumption DEF Downloads
<1>3. path(writable) \in Seq(Statuses) /\ path(writable) # <<>> /\ path(writable)[1] = st
  <2>1. fresh \in Statuses /\ "UNABLE_TO_CREATE" \in Statuses
    BY DEF Statuses, Errors
  <2> HIDE DEF fresh
  <2> QED BY <2>1
<1>4. \A g \in Files \ {d} : chunk'[g] = chunk[g] /\ (g \in request => g \in request')
  BY <1>1, <1>2, AskOthers
<1>5. chunk' \in [Files -> ChunkSets] /\ exists' \subseteq Files /\ crashed' \in BOOLEAN
  BY <1>1 DEF StatusesOK, StatusTypes
<1> HIDE DEF path
<1>6. StatusesOK' /\ \A e \in Downloads \ {d} : status'[e] = status[e]
  BY <1>1, <1>2, <1>3, <1>4, <1>5, StatusMoves
<1> QED BY <1>1, <1>6

LEMMA Started ==
  ASSUME StatusesOK, NEW d \in Downloads, NEW ch, d \in Files => ChunksOK(d, ch), NEW st \in Statuses,
         NEW list \in Seq(Downloads), Start(d, ch, st, list), retrying' = retrying,
         st \notin {"COMPLETE", "GETTING_THE_HASHES"}, st \notin Errors \/ st = status[d],
         list = erroneous \/ \A e \in Downloads \ {d} : status[e] \in Errors /\ Has(erroneous, e) => Has(list, e)
  PROVE  /\ StatusesOK' /\ \A e \in Downloads \ {d} : status'[e] = status[e]
         /\ \E may \in BOOLEAN : Ask(d, may)
<1>1. CASE d \in Files
  BY <1>1, FileStarted DEF Start
<1>2. CASE d \notin Files
  <2>1. d \in Dirs
    BY <1>2 DEF Downloads
  <2> QED BY <1>2, <2>1, DirStarted DEF Start
<1> QED BY <1>1, <1>2

LEMMA NewChunksOK ==
  ASSUME NEW f \in Files, NEW ch \in NewChunks(f)
  PROVE  ChunksOK(f, ch)
<1>1. PICK K \in {{}, ChunksOf(f)} : ch = [NoChunks EXCEPT !.known = K]
  BY DEF NewChunks
<1>2. ch = [known |-> K, down |-> {}, done |-> {}, failed |-> {}, absent |-> {}, peered |-> {}]
  BY <1>1 DEF NoChunks
<1>3. K \in SUBSET Nat /\ K \subseteq ChunksOf(f)
  BY ChunksAre
<1> QED BY <1>2, <1>3 DEF ChunksOK, ChunkSets

-----------------------------------------------------------------------------
(* Requests and the peers they occupy.                                     *)

LEMMA RequestsSame ==
  ASSUME RequestsOK, UNCHANGED asking,
         \A i \in 1..Len(todo) : todo[i].kind = "free" => \E j \in 1..Len(todo') : todo'[j] = todo[i]
  PROVE  RequestsOK'
<1>1. RequestTypes /\ HashRequestsExclusive /\ OccupiedIsHeld /\ UNCHANGED <<request, occupied, lost>>
  BY DEF RequestsOK, asking
<1>2. RequestTypes' /\ HashRequestsExclusive'
  BY <1>1 DEF RequestTypes, HashRequestsExclusive
<1>3. \A q \in occupied'.hashes \ lost'.hashes : \E f \in request' \cap Files : SourceOf[f] = q
  BY <1>1 DEF OccupiedIsHeld
<1>4. ASSUME NEW q \in occupied'.entries \ lost'.entries, ~ \E e \in request' \cap Dirs : SourceOf[e] = q
      PROVE  \E i \in 1..Len(todo') : todo'[i].kind = "free" /\ SourceOf[todo'[i].d] = q
  <2>1. PICK i \in 1..Len(todo) : todo[i].kind = "free" /\ SourceOf[todo[i].d] = q
    BY <1>1, <1>4 DEF OccupiedIsHeld
  <2>2. PICK j \in 1..Len(todo') : todo'[j] = todo[i]
    BY <2>1
  <2>3. todo'[j].kind = "free" /\ SourceOf[todo'[j].d] = q
    BY <2>1, <2>2
  <2> QED BY <2>3
<1> QED BY <1>2, <1>3, <1>4 DEF RequestsOK, OccupiedIsHeld

(* Asked again, or for the first time, a peer has one request at most.     *)
LEMMA AskHolds ==
  ASSUME RequestsOK, NEW d \in Downloads, NEW may \in BOOLEAN, Ask(d, may),
         \A i \in 1..Len(todo) : todo[i].kind = "free" => \E j \in 1..Len(todo') : todo'[j] = todo[i]
  PROVE  RequestsOK'
<1> DEFINE p == SourceOf[d]
<1>1. RequestTypes /\ HashRequestsExclusive /\ OccupiedIsHeld
  BY DEF RequestsOK
<1>2. p \in Peers /\ (d \in Files <=> d \notin Dirs)
  BY SourcesAssumption, DownloadsAssumption DEF Downloads
<1>3. \A q : (\E i \in 1..Len(todo) : todo[i].kind = "free" /\ SourceOf[todo[i].d] = q) =>
             (\E i \in 1..Len(todo') : todo'[i].kind = "free" /\ SourceOf[todo'[i].d] = q)
  <2> SUFFICES ASSUME NEW i \in 1..Len(todo), todo[i].kind = "free"
               PROVE  \E j \in 1..Len(todo') : todo'[j].kind = "free" /\ SourceOf[todo'[j].d] = SourceOf[todo[i].d]
    OBVIOUS
  <2>1. PICK j \in 1..Len(todo') : todo'[j] = todo[i]
    OBVIOUS
  <2>2. todo'[j].kind = "free" /\ SourceOf[todo'[j].d] = SourceOf[todo[i].d]
    BY <2>1
  <2> QED BY <2>2
<1> DEFINE Freed(q) == \E i \in 1..Len(todo) : todo[i].kind = "free" /\ SourceOf[todo[i].d] = q
           FreedNext(q) == \E i \in 1..Len(todo') : todo'[i].kind = "free" /\ SourceOf[todo'[i].d] = q
<1>4. \A q : Freed(q) => FreedNext(q)
  BY <1>3
<1>5. \A q \in occupied.entries \ lost.entries :
        (\E e \in request \cap Dirs : SourceOf[e] = q) \/ Freed(q)
  BY <1>1 DEF OccupiedIsHeld
<1> HIDE DEF Freed, FreedNext
<1>6. CASE ~may
  BY <1>6, RequestsSame DEF Ask
<1>7. CASE may /\ Accepts(d)
  <2>1. /\ request' = request \cup {d} /\ lost' = lost
        /\ occupied' = [occupied EXCEPT ![KindOf(d)] = @ \cup {p}]
        /\ p \notin occupied[KindOf(d)]
    BY <1>7 DEF Ask, Accepts
  <2>2. CASE d \in Files
    <3>1. occupied' = [occupied EXCEPT !.hashes = @ \cup {p}] /\ p \notin occupied.hashes
      BY <2>1, <2>2 DEF KindOf
    <3>2. /\ occupied'.hashes = occupied.hashes \cup {p} /\ occupied'.entries = occupied.entries
          /\ occupied' \in [hashes : SUBSET Peers, entries : SUBSET Peers]
      BY <1>1, <1>2, <3>1 DEF RequestTypes
    <3>3. RequestTypes'
      BY <1>1, <2>1, <3>2 DEF RequestTypes
    <3>4. HashRequestsExclusive'
      BY <1>1, <2>1, <3>1, <3>2 DEF HashRequestsExclusive
    <3>5. \A q \in occupied'.hashes \ lost'.hashes : \E f \in request' \cap Files : SourceOf[f] = q
      BY <1>1, <2>1, <2>2, <3>2 DEF OccupiedIsHeld
    <3>6. \A q \in occupied'.entries \ lost'.entries :
            (\E e \in request' \cap Dirs : SourceOf[e] = q) \/ FreedNext(q)
      BY <1>4, <1>5, <2>1, <3>2
    <3>7. OccupiedIsHeld'
      BY <3>5, <3>6 DEF OccupiedIsHeld, FreedNext
    <3> QED BY <3>3, <3>4, <3>7 DEF RequestsOK
  <2>3. CASE d \notin Files
    <3>1. occupied' = [occupied EXCEPT !.entries = @ \cup {p}] /\ d \in Dirs
      BY <1>2, <2>1, <2>3 DEF KindOf
    <3>2. /\ occupied'.hashes = occupied.hashes /\ occupied'.entries = occupied.entries \cup {p}
          /\ occupied' \in [hashes : SUBSET Peers, entries : SUBSET Peers]
      BY <1>1, <1>2, <3>1 DEF RequestTypes
    <3>3. RequestTypes'
      BY <1>1, <2>1, <3>2 DEF RequestTypes
    <3>4. HashRequestsExclusive'
      BY <1>1, <2>1, <2>3, <3>2 DEF HashRequestsExclusive
    <3>5. \A q \in occupied'.hashes \ lost'.hashes : \E f \in request' \cap Files : SourceOf[f] = q
      BY <1>1, <2>1, <3>2 DEF OccupiedIsHeld
    <3>6. \A q \in occupied'.entries \ lost'.entries :
            (\E e \in request' \cap Dirs : SourceOf[e] = q) \/ FreedNext(q)
      BY <1>4, <1>5, <2>1, <3>1, <3>2
    <3>7. OccupiedIsHeld'
      BY <3>5, <3>6 DEF OccupiedIsHeld, FreedNext
    <3> QED BY <3>3, <3>4, <3>7 DEF RequestsOK
  <2> QED BY <2>2, <2>3
<1>8. CASE may /\ ~Accepts(d)
  <2>1. /\ request' = request \ {d} /\ occupied' = occupied
        /\ lost' = [lost EXCEPT ![KindOf(d)] = IF d \in request THEN @ \cup {p} ELSE @]
    BY <1>8 DEF Ask
  <2>2. HashRequestsExclusive'
    BY <1>1, <2>1 DEF HashRequestsExclusive
  <2>3. CASE d \in Files
    <3>1. lost' = [lost EXCEPT !.hashes = IF d \in request THEN @ \cup {p} ELSE @]
      BY <2>1, <2>3 DEF KindOf
    <3>2. /\ lost'.hashes = IF d \in request THEN lost.hashes \cup {p} ELSE lost.hashes
          /\ lost'.entries = lost.entries
          /\ lost' \in [hashes : SUBSET Peers, entries : SUBSET Peers]
      BY <1>1, <1>2, <3>1 DEF RequestTypes
    <3>3. RequestTypes'
      BY <1>1, <2>1, <3>2 DEF RequestTypes
    <3>4. \A q \in occupied'.hashes \ lost'.hashes : \E f \in request' \cap Files : SourceOf[f] = q
      BY <1>1, <2>1, <3>2 DEF OccupiedIsHeld
    <3>5. \A q \in occupied'.entries \ lost'.entries :
            (\E e \in request' \cap Dirs : SourceOf[e] = q) \/ FreedNext(q)
      BY <1>2, <1>4, <1>5, <2>1, <2>3, <3>2
    <3>6. OccupiedIsHeld'
      BY <3>4, <3>5 DEF OccupiedIsHeld, FreedNext
    <3> QED BY <2>2, <3>3, <3>6 DEF RequestsOK
  <2>4. CASE d \notin Files
    <3>1. lost' = [lost EXCEPT !.entries = IF d \in request THEN @ \cup {p} ELSE @]
      BY <2>1, <2>4 DEF KindOf
    <3>2. /\ lost'.entries = IF d \in request THEN lost.entries \cup {p} ELSE lost.entries
          /\ lost'.hashes = lost.hashes
          /\ lost' \in [hashes : SUBSET Peers, entries : SUBSET Peers]
      BY <1>1, <1>2, <3>1 DEF RequestTypes
    <3>3. RequestTypes'
      BY <1>1, <2>1, <3>2 DEF RequestTypes
    <3>4. \A q \in occupied'.hashes \ lost'.hashes : \E f \in request' \cap Files : SourceOf[f] = q
      BY <1>1, <2>1, <2>4, <3>2 DEF OccupiedIsHeld
    <3>5. \A q \in occupied'.entries \ lost'.entries :
            (\E e \in request' \cap Dirs : SourceOf[e] = q) \/ FreedNext(q)
      BY <1>4, <1>5, <2>1, <3>2
    <3>6. OccupiedIsHeld'
      BY <3>4, <3>5 DEF OccupiedIsHeld, FreedNext
    <3> QED BY <2>2, <3>3, <3>6 DEF RequestsOK
  <2> QED BY <2>3, <2>4
<1> QED BY <1>6, <1>7, <1>8

-----------------------------------------------------------------------------
(* What is left of a handler.                                              *)

(* The first entry of a list leaves it: every other element stays.         *)
LEMMA FirstRemoved ==
  ASSUME NEW S, NEW list \in Seq(S), NEW d
  PROVE  /\ RemoveFirst(list, d) \in Seq(S) /\ Len(RemoveFirst(list, d)) <= Len(list)
         /\ \A e : e # d /\ Has(list, e) => Has(RemoveFirst(list, d), e)
<1> DEFINE I == {i \in 1..Len(list) : list[i] = d}
<1>1. CASE I = {}
  <2>1. RemoveFirst(list, d) = list
    BY <1>1 DEF RemoveFirst
  <2> QED BY <2>1
<1>2. CASE I # {}
  <2> DEFINE n == Min(I)
  <2>1. n \in I
    <3>1. \E i \in I : \A j \in I : i <= j
      <4>1. I \in SUBSET Nat
        OBVIOUS
      <4> QED BY <1>2, <4>1, LeastNatural
    <3> QED BY <3>1 DEF Min
  <2>2. RemoveFirst(list, d) = SubSeq(list, 1, n - 1) \o SubSeq(list, n + 1, Len(list))
    <3>1. SelectInSeq(list, LAMBDA v : v = d) = n
      BY <1>2 DEF SelectInSeq
    <3>2. RemoveFirst(list, d) = RemoveAt(list, SelectInSeq(list, LAMBDA v : v = d))
      BY <1>2 DEF RemoveFirst
    <3> QED BY <3>1, <3>2 DEF RemoveAt
  <2> HIDE DEF n
  <2> DEFINE left == SubSeq(list, 1, n - 1)
             right == SubSeq(list, n + 1, Len(list))
  <2>3. n \in 1..Len(list) /\ list[n] = d /\ Len(list) \in Nat
    BY <2>1
  <2>4. /\ left \in Seq(S) /\ Len(left) = n - 1 /\ \A i \in 1..n - 1 : left[i] = list[i]
        /\ right \in Seq(S) /\ Len(right) = Len(list) - n
        /\ \A i \in 1..Len(list) - n : right[i] = list[n + i]
    BY <2>3
  <2> HIDE DEF left, right
  <2>5. /\ left \o right \in Seq(S) /\ Len(left \o right) = Len(list) - 1
        /\ \A i \in 1..n - 1 : (left \o right)[i] = list[i]
        /\ \A i \in 1..Len(list) - n : (left \o right)[n - 1 + i] = list[n + i]
    <3>1. /\ left \o right \in Seq(S) /\ Len(left \o right) = Len(left) + Len(right)
          /\ \A i \in 1..Len(left) : (left \o right)[i] = left[i]
          /\ \A i \in 1..Len(right) : (left \o right)[Len(left) + i] = right[i]
      <4>1. left \in Seq(S) /\ right \in Seq(S)
        BY <2>4
      <4> QED BY <4>1
    <3> QED BY <2>3, <2>4, <3>1
  <2>6. ASSUME NEW e, e # d, NEW i \in 1..Len(list), list[i] = e
        PROVE  Has(left \o right, e)
    <3>1. CASE i < n
      <4>1. i \in 1..n - 1 /\ i \in 1..Len(list) - 1
        BY <2>3, <3>1
      <4> QED BY <2>5, <2>6, <4>1 DEF Has
    <3>2. CASE i > n
      <4>1. i - n \in 1..Len(list) - n /\ i - 1 \in 1..Len(list) - 1 /\ n - 1 + (i - n) = i - 1
            /\ n + (i - n) = i
        BY <2>3, <3>2
      <4>2. (left \o right)[i - 1] = e
        BY <2>5, <2>6, <4>1
      <4> QED BY <2>5, <4>1, <4>2 DEF Has
    <3> QED BY <2>3, <2>6, <3>1, <3>2
  <2>7. RemoveFirst(list, d) = left \o right
    BY <2>2 DEF left, right
  <2> HIDE DEF I
  <2>8. \A e : e # d /\ Has(list, e) => Has(left \o right, e)
    BY <2>6 DEF Has
  <2>9. Len(left \o right) <= Len(list)
    BY <2>3, <2>5
  <2> QED BY <2>5, <2>7, <2>8, <2>9
<1> QED BY <1>1, <1>2

(* A download leaves the queue; its chunks are in the hands of the caller. *)
LEMMA Deleted ==
  ASSUME StatusesOK, NEW d \in Downloads, status' = [status EXCEPT ![d] = "DELETED"], Forget(d),
         stuck' = stuck \ {d}, \A e \in retrying : e # d => e \in retrying', UNCHANGED <<exists, crashed>>,
         chunk' \in [Files -> ChunkSets], \A f \in Files : ChunksOK(f, chunk'[f]),
         \A f \in Files \ {d} : chunk'[f] = chunk[f] /\ (f \in request => f \in request')
  PROVE  StatusesOK'
<1>1. StatusTypes /\ CompleteHasAll /\ CompleteIdle /\ ErroneousIsRetried /\ GettingIsAsked
  BY DEF StatusesOK
<1>2. /\ status' \in [Downloads -> Statuses] /\ status'[d] = "DELETED"
      /\ \A e \in Downloads \ {d} : status'[e] = status[e]
  <2>1. "DELETED" \in Statuses /\ status \in [Downloads -> Statuses]
    BY <1>1 DEF Statuses, StatusTypes
  <2> QED BY <2>1
<1>3. /\ erroneous \in Seq(Downloads) /\ Len(erroneous) <= MaxListed /\ MaxListed \in Nat
  BY <1>1, BoundsAssumption DEF StatusTypes
<1>4. /\ erroneous' \in Seq(Downloads) /\ Len(erroneous') <= MaxListed
      /\ \A e : e # d /\ Has(erroneous, e) => Has(erroneous', e)
  <2>1. erroneous' = RemoveFirst(erroneous, d)
    BY DEF Forget
  <2>2. /\ RemoveFirst(erroneous, d) \in Seq(Downloads)
        /\ Len(RemoveFirst(erroneous, d)) <= Len(erroneous)
        /\ \A e : e # d /\ Has(erroneous, e) => Has(RemoveFirst(erroneous, d), e)
    BY <1>3, FirstRemoved
  <2>3. Len(erroneous') \in Nat /\ Len(erroneous) \in Nat
    BY <1>3, <2>1, <2>2
  <2> QED BY <1>3, <2>1, <2>2, <2>3
<1>5. StatusTypes'
  BY <1>1, <1>2, <1>4 DEF StatusTypes
<1>6. \A f \in Files : status'[f] \in {"COMPLETE", "GETTING_THE_HASHES"} =>
        f # d /\ f \in Downloads /\ status'[f] = status[f]
  BY <1>2 DEF Downloads
<1>7. (CompleteHasAll /\ CompleteIdle /\ GettingIsAsked)'
  BY <1>1, <1>6 DEF CompleteHasAll, CompleteIdle, GettingIsAsked
<1>8. ErroneousIsRetried'
  <2> SUFFICES ASSUME NEW e \in Downloads, status'[e] \in Errors
               PROVE  Has(erroneous', e) \/ e \in retrying' \/ e \in stuck'
    BY DEF ErroneousIsRetried, Queued, Has
  <2>1. e # d /\ status[e] \in Errors
    BY <1>2 DEF Errors
  <2>2. Has(erroneous, e) \/ e \in retrying \/ e \in stuck
    BY <1>1, <2>1 DEF ErroneousIsRetried, Queued, Has, Errors
  <2> QED BY <1>4, <2>1, <2>2
<1> QED BY <1>5, <1>7, <1>8 DEF StatusesOK

(* setPeerAsFree(): what is left to do then. *)
LEMMA FreeLeaves ==
  ASSUME NEW k \in {"hashes", "entries"}, NEW p, NEW D, NEW rest \in Seq(Tasks), Free(k, p, D, rest)
  PROVE  /\ todo' \in Seq(Tasks) /\ at' \in 1..Len(Order) + 1
         /\ \A j \in 1..Len(rest) : \E i \in 1..Len(todo') : todo'[i] = rest[j]
         /\ \/ todo' = rest
            \/ /\ Len(todo') = Len(rest) + 1 /\ todo'[1].kind = k
               /\ \A i \in 2..Len(rest) + 1 : todo'[i] = rest[i - 1]
<1> DEFINE scan == Task(k, NoDownload)
<1>1. todo' = (IF \E d \in D : SourceOf[d] = p THEN <<scan>> ELSE <<>>) \o rest /\ at' = 1
  BY DEF Free
<1>2. scan \in Tasks /\ scan.kind = k
  BY DEF Task, Tasks
<1>3. at' \in 1..Len(Order) + 1
  BY <1>1, DownloadsAssumption
<1> HIDE DEF scan
<1>4. CASE todo' = rest
  BY <1>3, <1>4
<1>5. CASE todo' = <<scan>> \o rest
  <2>1. <<scan>> \in Seq(Tasks)
    BY <1>2
  <2>2. /\ todo' \in Seq(Tasks) /\ Len(todo') = Len(rest) + 1 /\ todo'[1] = scan
        /\ \A j \in 1..Len(rest) : todo'[1 + j] = rest[j]
    BY <1>5, <2>1
  <2>3. \A i \in 2..Len(rest) + 1 : i - 1 \in 1..Len(rest) /\ 1 + (i - 1) = i
    OBVIOUS
  <2>4. \A i \in 2..Len(rest) + 1 : todo'[i] = rest[i - 1]
    BY <2>2, <2>3
  <2>5. \A j \in 1..Len(rest) : 1 + j \in 1..Len(todo')
    BY <2>2
  <2> QED BY <1>2, <1>3, <2>2, <2>4, <2>5
<1>6. <<>> \o rest = rest
  OBVIOUS
<1> QED BY <1>1, <1>4, <1>5, <1>6

LEMMA FreeIsLast ==
  ASSUME NEW k \in {"hashes", "entries"}, NEW p, NEW D, Free(k, p, D, <<>>)
  PROVE  /\ todo' \in Seq(Tasks) /\ at' \in 1..Len(Order) + 1
         /\ \A i \in 1..Len(todo') : todo'[i].kind # "drop"
<1> DEFINE rest == <<>>
<1>1. rest \in Seq(Tasks) /\ Len(rest) = 0 /\ Free(k, p, D, rest)
  OBVIOUS
<1> HIDE DEF rest
<1>2. /\ todo' \in Seq(Tasks) /\ at' \in 1..Len(Order) + 1
      /\ todo' = rest \/ (Len(todo') = Len(rest) + 1 /\ todo'[1].kind = k)
  BY <1>1, FreeLeaves
<1> QED BY <1>1, <1>2

(* The peer of a request for hashes that has ended. *)
LEMMA FreeHashes ==
  ASSUME RequestsOK, NEW f \in request \cap Files, request' = request \ {f}, NEW D, NEW rest,
         Free("hashes", SourceOf[f], D, rest),
         \A i \in 1..Len(todo) : todo[i].kind # "free"
  PROVE  RequestsOK'
<1> DEFINE p == SourceOf[f]
<1>1. RequestTypes /\ HashRequestsExclusive /\ OccupiedIsHeld
  BY DEF RequestsOK
<1>2. /\ occupied' = [occupied EXCEPT !.hashes = @ \ {p}]
      /\ lost' = [lost EXCEPT !.hashes = @ \ {p}]
  BY DEF Free
<1>3. /\ occupied'.hashes = occupied.hashes \ {p} /\ occupied'.entries = occupied.entries
      /\ lost'.hashes = lost.hashes \ {p} /\ lost'.entries = lost.entries
      /\ occupied' \in [hashes : SUBSET Peers, entries : SUBSET Peers]
      /\ lost' \in [hashes : SUBSET Peers, entries : SUBSET Peers]
  BY <1>1, <1>2 DEF RequestTypes
<1>4. RequestTypes' /\ HashRequestsExclusive'
  BY <1>1, <1>3 DEF RequestTypes, HashRequestsExclusive
<1>5. \A q \in occupied'.hashes \ lost'.hashes : \E g \in request' \cap Files : SourceOf[g] = q
  BY <1>1, <1>3 DEF OccupiedIsHeld
<1>6. \A q \in occupied'.entries \ lost'.entries : \E e \in request' \cap Dirs : SourceOf[e] = q
  BY <1>1, <1>3, DownloadsAssumption DEF OccupiedIsHeld
<1> QED BY <1>4, <1>5, <1>6 DEF RequestsOK, OccupiedIsHeld

(* The peer p of a request for entries that has ended, or that nobody has. *)
LEMMA FreeEntries ==
  ASSUME RequestsOK, NEW p, NEW D, NEW rest \in Seq(Tasks), Free("entries", p, D, rest),
         request' \subseteq request, \A e \in request : e \in request' \/ (e \in Dirs /\ SourceOf[e] = p),
         \A i \in 1..Len(todo) : todo[i].kind = "free" =>
           SourceOf[todo[i].d] = p \/ \E j \in 1..Len(rest) : rest[j] = todo[i]
  PROVE  RequestsOK'
<1>1. RequestTypes /\ HashRequestsExclusive /\ OccupiedIsHeld
  BY DEF RequestsOK
<1>2. /\ occupied' = [occupied EXCEPT !.entries = @ \ {p}]
      /\ lost' = [lost EXCEPT !.entries = @ \ {p}]
  BY DEF Free
<1>3. /\ occupied'.entries = occupied.entries \ {p} /\ occupied'.hashes = occupied.hashes
      /\ lost'.entries = lost.entries \ {p} /\ lost'.hashes = lost.hashes
      /\ occupied' \in [hashes : SUBSET Peers, entries : SUBSET Peers]
      /\ lost' \in [hashes : SUBSET Peers, entries : SUBSET Peers]
  BY <1>1, <1>2 DEF RequestTypes
<1>4. RequestTypes' /\ HashRequestsExclusive'
  BY <1>1, <1>3 DEF RequestTypes, HashRequestsExclusive
<1>5. \A q \in occupied'.hashes \ lost'.hashes : \E g \in request' \cap Files : SourceOf[g] = q
  BY <1>1, <1>3, DownloadsAssumption DEF OccupiedIsHeld
<1>6. ASSUME NEW q \in occupied'.entries \ lost'.entries
      PROVE  \/ \E e \in request' \cap Dirs : SourceOf[e] = q
             \/ \E i \in 1..Len(todo') : todo'[i].kind = "free" /\ SourceOf[todo'[i].d] = q
  <2>1. q # p /\ q \in occupied.entries \ lost.entries
    BY <1>3, <1>6
  <2>2. CASE \E e \in request \cap Dirs : SourceOf[e] = q
    BY <2>1, <2>2
  <2>3. CASE \E i \in 1..Len(todo) : todo[i].kind = "free" /\ SourceOf[todo[i].d] = q
    <3>1. PICK i \in 1..Len(todo) : todo[i].kind = "free" /\ SourceOf[todo[i].d] = q
      BY <2>3
    <3>2. PICK j \in 1..Len(rest) : rest[j] = todo[i]
      BY <2>1, <3>1
    <3>3. PICK n \in 1..Len(todo') : todo'[n] = rest[j]
      BY FreeLeaves
    <3>4. todo'[n].kind = "free" /\ SourceOf[todo'[n].d] = q
      BY <3>1, <3>2, <3>3
    <3> QED BY <3>4
  <2> QED BY <1>1, <2>1, <2>2, <2>3 DEF OccupiedIsHeld
<1> QED BY <1>4, <1>5, <1>6 DEF RequestsOK, OccupiedIsHeld

(* The next task of the handler is what is left of it. *)
LEMMA TaskEnds ==
  ASSUME HandlerTypes, todo # <<>>, EndTask
  PROVE  /\ todo' \in Seq(Tasks) /\ at' \in 1..Len(Order) + 1 /\ Len(todo') = Len(todo) - 1
         /\ \A i \in 1..Len(todo') : i + 1 \in 1..Len(todo) /\ todo'[i] = todo[i + 1]
         /\ \A i \in 1..Len(todo) : i = 1 \/ (i - 1 \in 1..Len(todo') /\ todo'[i - 1] = todo[i])
         /\ todo[1] = Head(todo) /\ todo[1] \in Tasks /\ 1 \in 1..Len(todo)
<1>1. todo \in Seq(Tasks) /\ todo' = Tail(todo) /\ at' = 1
  BY DEF HandlerTypes, EndTask
<1>2. at' \in 1..Len(Order) + 1
  BY <1>1, DownloadsAssumption
<1>3. /\ todo' \in Seq(Tasks) /\ Len(todo') = Len(todo) - 1 /\ Len(todo) \in Nat \ {0}
      /\ \A i \in 1..Len(todo) - 1 : todo'[i] = todo[i + 1]
      /\ todo[1] = Head(todo) /\ todo[1] \in Tasks
  BY <1>1
<1>4. \A i \in 1..Len(todo) : i = 1 \/ (i - 1 \in 1..Len(todo) - 1 /\ (i - 1) + 1 = i)
  BY <1>3
<1> QED BY <1>2, <1>3, <1>4

(* A handler that starts, frees or welcomes is not the end of a directory. *)
LEMMA NoDropLeft ==
  ASSUME DropOK, HandlerTypes, NEW kind \in {"start", "available", "free"}, AtTask(kind)
  PROVE  \A i \in 1..Len(todo) : todo[i].kind # "drop"
<1>1. todo \in Seq(Tasks) /\ todo # <<>> /\ Head(todo).kind = kind
  BY DEF HandlerTypes, AtTask
<1>2. 1 \in 1..Len(todo) /\ todo[1].kind = kind
  BY <1>1
<1>3. ASSUME NEW i \in 1..Len(todo), todo[i].kind = "drop" PROVE FALSE
  <2>1. i # 1
    BY <1>2, <1>3
  <2>2. todo[1].kind \in {"hashes", "entries"}
    BY <1>2, <1>3, <2>1 DEF DropOK
  <2> QED BY <1>2, <2>2
<1> QED BY <1>3

LEMMA NothingDropped ==
  ASSUME \A i \in 1..Len(todo') : todo'[i].kind # "drop"
  PROVE  DropOK'
BY DEF DropOK

LEMMA DropStays ==
  ASSUME DropOK, HandlerTypes, todo' = todo \/ (todo # <<>> /\ EndTask),
         \A d \in Dirs : status[d] = "DELETED" /\ DropHeld(d) => status'[d] = "DELETED" /\ DropHeld(d)'
  PROVE  DropOK'
<1>1. ASSUME NEW i \in 1..Len(todo), todo[i].kind = "drop", NEW d, d = todo[i].d
      PROVE  /\ \A j \in 1..Len(todo) : j # i => todo[j].kind \in {"hashes", "entries"}
             /\ status'[d] = "DELETED" /\ DropHeld(d)'
  <2>1. todo[i] \in Tasks
    BY DEF HandlerTypes
  <2>2. d \in Dirs
    BY <1>1, <2>1 DEF Tasks
  <2>3. status[d] = "DELETED" /\ DropHeld(d)
    BY <1>1 DEF DropOK
  <2> QED BY <1>1, <2>2, <2>3 DEF DropOK
<1>2. SUFFICES ASSUME NEW i \in 1..Len(todo'), todo'[i].kind = "drop", NEW d, d = todo'[i].d
               PROVE  /\ \A j \in 1..Len(todo') : j # i => todo'[j].kind \in {"hashes", "entries"}
                      /\ status'[d] = "DELETED" /\ DropHeld(d)'
  BY DEF DropOK, DropHeld
<1>3. CASE todo' = todo
  BY <1>1, <1>2, <1>3
<1>4. CASE todo # <<>> /\ EndTask
  <2>1. \A j \in 1..Len(todo') : j + 1 \in 1..Len(todo) /\ todo'[j] = todo[j + 1]
    BY <1>4, TaskEnds
  <2>2. i + 1 \in 1..Len(todo) /\ d = todo[i + 1].d /\ todo[i + 1].kind = "drop"
    BY <1>2, <2>1
  <2>3. /\ \A j \in 1..Len(todo) : j # i + 1 => todo[j].kind \in {"hashes", "entries"}
        /\ status'[d] = "DELETED" /\ DropHeld(d)'
    BY <1>1, <2>2
  <2>4. \A j \in 1..Len(todo') : j # i => j + 1 # i + 1
    OBVIOUS
  <2> QED BY <2>1, <2>3, <2>4
<1> QED BY <1>3, <1>4

(* Another download may ask while a directory is being deleted. *)
LEMMA AskKeepsDrop ==
  ASSUME RequestTypes, NEW d \in Downloads, NEW may \in BOOLEAN, Ask(d, may),
         NEW x \in Dirs, x # d, DropHeld(x)
  PROVE  DropHeld(x)'
<1> DEFINE p == SourceOf[d]
<1>1. p \in Peers /\ (d \in Files <=> d \notin Dirs)
  BY SourcesAssumption, DownloadsAssumption DEF Downloads
<1>2. CASE ~may
  BY <1>2 DEF Ask, asking, DropHeld
<1>3. CASE may /\ Accepts(d)
  <2>1. /\ request' = request \cup {d} /\ lost' = lost
        /\ occupied' = [occupied EXCEPT ![KindOf(d)] = @ \cup {p}]
    BY <1>3 DEF Ask
  <2>2. CASE d \in Dirs
    <3>1. occupied' = [occupied EXCEPT !.entries = @ \cup {p}]
      BY <1>1, <2>1, <2>2 DEF KindOf
    <3>2. occupied'.entries = occupied.entries \cup {p}
      BY <3>1 DEF RequestTypes
    <3> QED BY <2>1, <2>2, <3>2 DEF DropHeld
  <2>3. CASE d \notin Dirs
    <3>1. occupied' = [occupied EXCEPT !.hashes = @ \cup {p}]
      BY <1>1, <2>1, <2>3 DEF KindOf
    <3>2. occupied'.entries = occupied.entries
      BY <3>1 DEF RequestTypes
    <3> QED BY <2>1, <3>2 DEF DropHeld
  <2> QED BY <2>2, <2>3
<1>4. CASE may /\ ~Accepts(d)
  <2>1. /\ request' = request \ {d} /\ occupied' = occupied
        /\ lost' = [lost EXCEPT ![KindOf(d)] = IF d \in request THEN @ \cup {p} ELSE @]
    BY <1>4 DEF Ask
  <2>2. CASE d \in Dirs
    <3>1. lost' = [lost EXCEPT !.entries = IF d \in request THEN @ \cup {p} ELSE @]
      BY <1>1, <2>1, <2>2 DEF KindOf
    <3>2. lost'.entries = IF d \in request THEN lost.entries \cup {p} ELSE lost.entries
      BY <3>1 DEF RequestTypes
    <3> QED BY <2>1, <2>2, <3>2 DEF DropHeld
  <2>3. CASE d \notin Dirs
    <3>1. lost' = [lost EXCEPT !.hashes = IF d \in request THEN @ \cup {p} ELSE @]
      BY <1>1, <2>1, <2>3 DEF KindOf
    <3>2. lost'.entries = lost.entries
      BY <3>1 DEF RequestTypes
    <3> QED BY <2>1, <2>3, <3>2 DEF DropHeld
  <2> QED BY <2>2, <2>3
<1> QED BY <1>2, <1>3, <1>4

(* What an idle main thread leaves to do. *)
LEMMA Idle ==
  ASSUME HandlerTypes, MainIdle
  PROVE  Len(todo) = 0 /\ \A i \in 1..Len(todo) : FALSE
BY DEF MainIdle

LEMMA ControlKept ==
  ASSUME HandlerTypes, MainIdle, UNCHANGED control, avail' \subseteq Peers, retrying' \subseteq Dirs
  PROVE  HandlerTypes' /\ DropOK' /\ \A i \in 1..Len(todo) : FALSE
<1>1. todo' = todo /\ at' = at /\ \A i \in 1..Len(todo) : FALSE
  BY Idle DEF control
<1>2. \A i \in 1..Len(todo') : todo'[i].kind # "drop"
  BY <1>1
<1>3. DropOK'
  BY <1>2, NothingDropped
<1> QED BY <1>1, <1>3 DEF HandlerTypes

(* The names of the parts, for the steps below. *)
LEMMA Parts ==
  ASSUME IInv
  PROVE  /\ StatusesOK /\ RequestsOK /\ HandlerTypes /\ DropOK /\ RequestTypes
         /\ status \in [Downloads -> Statuses] /\ erroneous \in Seq(Downloads)
         /\ chunk \in [Files -> ChunkSets] /\ exists \subseteq Files /\ crashed \in BOOLEAN
         /\ avail \subseteq Peers /\ retrying \subseteq Dirs
         /\ \A f \in Files : f \in Downloads /\ f \notin Dirs /\ ChunksOK(f, chunk[f])
         /\ \A d \in Dirs : d \in Downloads /\ d \notin Files
BY DownloadsAssumption DEF IInv, StatusesOK, StatusTypes, RequestsOK, HandlerTypes, Downloads

-----------------------------------------------------------------------------
(* The commands of the user and the timers.                                *)

LEMMA AddStep ==
  ASSUME IInv, NEW d \in Downloads, Add(d)
  PROVE  IInv'
<1>1. MainIdle /\ UNCHANGED <<avail, retrying, control>>
  BY DEF Add
<1>2. PICK ch \in NewChunks(d) : Start(d, ch, "QUEUED", erroneous)
  BY DEF Add
<1>3. d \in Files => ChunksOK(d, ch)
  BY NewChunksOK
<1>4. "QUEUED" \in Statuses /\ "QUEUED" \notin Errors
  BY DEF Statuses, Errors
<1>5. StatusesOK' /\ \E may \in BOOLEAN : Ask(d, may)
  BY <1>1, <1>2, <1>3, <1>4, Parts, Started
<1>6. HandlerTypes' /\ DropOK' /\ \A i \in 1..Len(todo) : FALSE
  BY <1>1, Parts, ControlKept
<1>7. RequestsOK'
  BY <1>5, <1>6, Parts, AskHolds
<1> QED BY <1>5, <1>6, <1>7 DEF IInv

LEMMA RestartStep ==
  ASSUME IInv, NEW i \in 1..Len(erroneous), Restart(i)
  PROVE  IInv'
<1> DEFINE d == erroneous[i]
           list == SubSeq(erroneous, i + 1, Len(erroneous))
<1>1. /\ MainIdle /\ UNCHANGED <<avail, retrying, control>> /\ status[d] \in Errors
      /\ \A j \in 1..i - 1 : status[erroneous[j]] \notin Errors
      /\ Start(d, ChunksIn(d), status[d], list)
  BY DEF Restart
<1>2. d \in Downloads /\ status[d] \in Statuses /\ (d \in Files => ChunksOK(d, ChunksIn(d)))
  BY Parts DEF ChunksIn
<1>3. /\ list \in Seq(Downloads) /\ Len(list) = Len(erroneous) - i /\ Len(erroneous) \in Nat
      /\ \A j \in 1..Len(erroneous) - i : list[j] = erroneous[i + j]
  BY Parts
<1>4. ASSUME NEW e \in Downloads \ {d}, status[e] \in Errors, Has(erroneous, e) PROVE Has(list, e)
  <2>1. PICK j \in 1..Len(erroneous) : erroneous[j] = e
    BY <1>4 DEF Has
  <2>2. j > i
    BY <1>1, <1>4, <2>1
  <2>3. j - i \in 1..Len(list) /\ i + (j - i) = j
    BY <1>3, <2>2
  <2>4. list[j - i] = e
    BY <1>3, <2>1, <2>3
  <2> QED BY <2>3, <2>4 DEF Has
<1>5. status[d] \notin {"COMPLETE", "GETTING_THE_HASHES"}
  BY <1>1 DEF Errors
<1> HIDE DEF d, list
<1>6. StatusesOK' /\ \E may \in BOOLEAN : Ask(d, may)
  BY <1>1, <1>2, <1>3, <1>4, <1>5, Parts, Started
<1>7. HandlerTypes' /\ DropOK' /\ \A j \in 1..Len(todo) : FALSE
  BY <1>1, Parts, ControlKept
<1>8. RequestsOK'
  BY <1>2, <1>6, <1>7, Parts, AskHolds
<1> QED BY <1>6, <1>7, <1>8 DEF IInv

LEMMA RestartNoneStep ==
  ASSUME IInv, RestartNone
  PROVE  IInv'
<1>1. /\ MainIdle /\ erroneous' = <<>> /\ \A j \in 1..Len(erroneous) : status[erroneous[j]] \notin Errors
      /\ UNCHANGED <<avail, status, chunk, exists, asking, retrying, control, crashed, stuck>>
  BY DEF RestartNone
<1>2. HandlerTypes' /\ DropOK' /\ \A j \in 1..Len(todo) : FALSE
  BY <1>1, Parts, ControlKept
<1>3. RequestsOK'
  BY <1>1, <1>2, Parts, RequestsSame
<1>4. StatusTypes'
  BY <1>1, Parts, BoundsAssumption DEF StatusesOK, StatusTypes
<1>5. (CompleteHasAll /\ CompleteIdle /\ GettingIsAsked)'
  BY <1>1, Parts DEF StatusesOK, CompleteHasAll, CompleteIdle, GettingIsAsked, asking
<1>6. ErroneousIsRetried'
  <2> SUFFICES ASSUME NEW d \in Queued, status[d] \in Errors PROVE d \in retrying \cup stuck
    BY <1>1 DEF ErroneousIsRetried, Queued
  <2>1. (\E i \in 1..Len(erroneous) : erroneous[i] = d) \/ d \in retrying \cup stuck
    BY Parts DEF StatusesOK, ErroneousIsRetried
  <2> QED BY <1>1, <2>1
<1> QED BY <1>2, <1>3, <1>4, <1>5, <1>6 DEF IInv, StatusesOK

LEMMA RetryStep ==
  ASSUME IInv, NEW d \in Dirs, Retry(d)
  PROVE  IInv'
<1>1. /\ MainIdle /\ SetStatus(d, "QUEUED") /\ Ask(d, TRUE) /\ retrying' = retrying \ {d}
      /\ UNCHANGED <<avail, chunk, exists, control, crashed>>
  BY DEF Retry
<1>2. "QUEUED" \in Statuses /\ "QUEUED" \notin Errors
  BY DEF Statuses, Errors
<1>3. \A g \in Files \ {d} : chunk'[g] = chunk[g] /\ (g \in request => g \in request')
  BY <1>1, Parts, AskOthers
<1>4. StatusesOK'
  BY <1>1, <1>2, <1>3, Parts, StatusSet
<1>5. HandlerTypes' /\ DropOK' /\ \A j \in 1..Len(todo) : FALSE
  BY <1>1, Parts, ControlKept
<1>6. RequestsOK'
  BY <1>1, <1>5, Parts, AskHolds
<1> QED BY <1>4, <1>5, <1>6 DEF IInv

(* stop() of a file. *)
LEMMA FileStopped ==
  ASSUME IInv, NEW f \in Files, NEW D, MainIdle, StopFile(f, D)
  PROVE  /\ RequestsOK' /\ HandlerTypes' /\ DropOK'
         /\ chunk' \in [Files -> ChunkSets] /\ ChunksOK(f, chunk'[f])
         /\ chunk'[f].done = chunk[f].done /\ chunk'[f].down = {}
         /\ \A g \in Files \ {f} : chunk'[g] = chunk[g] /\ (g \in request => g \in request')
<1>1. /\ chunk' = [chunk EXCEPT ![f] = [@ EXCEPT !.down = {}]]
      /\ UNCHANGED <<avail, exists, retrying, crashed>>
  BY DEF StopFile
<1>2. \A i \in 1..Len(todo) : FALSE
  BY Parts, Idle
<1> DEFINE ch == [chunk[f] EXCEPT !.down = {}]
<1>3. ChunksOK(f, ch) /\ ch \in ChunkSets /\ ch.done = chunk[f].done /\ ch.down = {}
  <2>1. ChunksOK(f, chunk[f])
    BY Parts
  <2> QED BY <2>1 DEF ChunksOK, ChunkSets
<1>4. chunk' = [chunk EXCEPT ![f] = ch]
  BY <1>1
<1> HIDE DEF ch
<1>5. /\ chunk' \in [Files -> ChunkSets] /\ chunk'[f] = ch
      /\ \A g \in Files \ {f} : chunk'[g] = chunk[g]
  BY <1>3, <1>4, Parts
<1>6. CASE f \in request
  <2>1. request' = request \ {f} /\ Free("hashes", SourceOf[f], D, <<>>)
    BY <1>6 DEF StopFile
  <2>2. RequestsOK'
    BY <1>2, <1>6, <2>1, Parts, FreeHashes
  <2>3. /\ todo' \in Seq(Tasks) /\ at' \in 1..Len(Order) + 1
        /\ \A i \in 1..Len(todo') : todo'[i].kind # "drop"
    BY <2>1, FreeIsLast
  <2>4. HandlerTypes' /\ DropOK'
    BY <1>1, <2>3, Parts, NothingDropped DEF HandlerTypes
  <2> QED BY <1>3, <1>5, <2>1, <2>2, <2>4
<1>7. CASE f \notin request
  <2>1. UNCHANGED <<asking, control>>
    BY <1>7 DEF StopFile
  <2>2. HandlerTypes' /\ DropOK'
    BY <1>1, <2>1, Parts, ControlKept
  <2>3. RequestsOK' /\ request' = request
    BY <1>2, <2>1, Parts, RequestsSame DEF asking
  <2> QED BY <1>3, <1>5, <2>2, <2>3
<1> QED BY <1>6, <1>7

LEMMA PauseStep ==
  ASSUME IInv, NEW f \in Files, Pause(f)
  PROVE  IInv'
<1>1. /\ MainIdle /\ SetStatus(f, "PAUSED") /\ StopFile(f, Queued)
      /\ UNCHANGED <<exists, retrying, crashed>>
  BY DEF Pause, StopFile
<1>2. "PAUSED" \in Statuses /\ "PAUSED" \notin Errors
  BY DEF Statuses, Errors
<1>3. /\ RequestsOK' /\ HandlerTypes' /\ DropOK'
      /\ chunk' \in [Files -> ChunkSets] /\ ChunksOK(f, chunk'[f])
      /\ \A g \in Files \ {f} : chunk'[g] = chunk[g] /\ (g \in request => g \in request')
  BY <1>1, FileStopped
<1>4. StatusesOK'
  BY <1>1, <1>2, <1>3, Parts, StatusSet
<1> QED BY <1>3, <1>4 DEF IInv

LEMMA UnpauseStep ==
  ASSUME IInv, NEW f \in Files, Unpause(f)
  PROVE  IInv'
<1> DEFINE may == MayAsk(f, chunk[f], "QUEUED")
           last == AskedStatus(f, "QUEUED", may)
<1>1. /\ MainIdle /\ Ask(f, may) /\ SetStatus(f, last)
      /\ UNCHANGED <<avail, chunk, exists, retrying, control, crashed>>
  BY DEF Unpause
<1>2. may \in BOOLEAN
  BY DEF MayAsk
<1> HIDE DEF may
<1>3. "QUEUED" \in Statuses /\ ~Frozen("QUEUED")
  BY DEF Statuses, Frozen
<1>4. last \in Statuses /\ last # "COMPLETE" /\ (last = "GETTING_THE_HASHES" => f \in request')
  BY <1>1, <1>2, <1>3, AskedStatusIs
<1> HIDE DEF last
<1>5. \A g \in Files \ {f} : chunk'[g] = chunk[g] /\ (g \in request => g \in request')
  BY <1>1, <1>2, AskOthers
<1>6. StatusesOK'
  BY <1>1, <1>4, <1>5, Parts, StatusSet
<1>7. HandlerTypes' /\ DropOK' /\ \A j \in 1..Len(todo) : FALSE
  BY <1>1, Parts, ControlKept
<1>8. RequestsOK'
  BY <1>1, <1>2, <1>7, Parts, AskHolds
<1> QED BY <1>6, <1>7, <1>8 DEF IInv

LEMMA RemoveFileStep ==
  ASSUME IInv, NEW f \in Files, RemoveFile(f)
  PROVE  IInv'
<1>1. /\ MainIdle /\ status' = [status EXCEPT ![f] = "DELETED"] /\ Forget(f) /\ stuck' = stuck \ {f}
      /\ StopFile(f, Queued \ {f}) /\ UNCHANGED <<exists, retrying, crashed>>
  BY DEF RemoveFile, Removed, StopFile
<1>2. /\ RequestsOK' /\ HandlerTypes' /\ DropOK'
      /\ chunk' \in [Files -> ChunkSets] /\ ChunksOK(f, chunk'[f])
      /\ \A g \in Files \ {f} : chunk'[g] = chunk[g] /\ (g \in request => g \in request')
  BY <1>1, FileStopped
<1>3. \A g \in Files : ChunksOK(g, chunk'[g])
  BY <1>2, Parts
<1>4. StatusesOK'
  BY <1>1, <1>2, <1>3, Parts, Deleted
<1> QED BY <1>2, <1>4 DEF IInv

LEMMA RemoveDirStep ==
  ASSUME IInv, NEW d \in Dirs, RemoveDir(d)
  PROVE  IInv'
<1> DEFINE p == SourceOf[d]
           rest == IF d \in request THEN <<Task("drop", d)>> ELSE <<>>
<1>1. /\ MainIdle /\ status' = [status EXCEPT ![d] = "DELETED"] /\ Forget(d) /\ stuck' = stuck \ {d}
      /\ Free("entries", p, Queued \ {d}, rest) /\ retrying' = retrying \ {d}
      /\ UNCHANGED <<avail, chunk, exists, request, crashed>>
  BY DEF RemoveDir, Removed
<1>2. \A i \in 1..Len(todo) : FALSE
  BY <1>1, Parts, Idle
<1>3. StatusesOK'
  BY <1>1, Parts, Deleted
<1>4. /\ rest \in Seq(Tasks) /\ Len(rest) \in {0, 1} /\ \A i \in 1..Len(rest) : rest[i].d = d
  <2>1. Task("drop", d) \in Tasks /\ Task("drop", d).d = d
    BY DEF Task, Tasks
  <2> QED BY <2>1
<1> HIDE DEF rest
<1>5. RequestsOK'
  BY <1>1, <1>2, <1>4, Parts, FreeEntries
<1>6. /\ todo' \in Seq(Tasks) /\ at' \in 1..Len(Order) + 1
      /\ \/ todo' = rest
         \/ /\ Len(todo') = Len(rest) + 1 /\ todo'[1].kind = "entries"
            /\ \A i \in 2..Len(rest) + 1 : todo'[i] = rest[i - 1]
  BY <1>1, <1>4, FreeLeaves
<1>7. HandlerTypes'
  BY <1>1, <1>6, Parts DEF HandlerTypes
<1>8. status'[d] = "DELETED" /\ DropHeld(d)'
  <2>1. occupied' = [occupied EXCEPT !.entries = @ \ {p}]
    BY <1>1 DEF Free
  <2>2. occupied'.entries = occupied.entries \ {p}
    BY <2>1, Parts DEF RequestTypes
  <2> QED BY <1>1, <2>2, Parts DEF DropHeld
<1>9. DropOK'
  <2> SUFFICES ASSUME NEW i \in 1..Len(todo'), todo'[i].kind = "drop"
               PROVE  /\ \A j \in 1..Len(todo') : j # i => todo'[j].kind \in {"hashes", "entries"}
                      /\ todo'[i].d = d
    BY <1>8 DEF DropOK, DropHeld
  <2>1. CASE todo' = rest
    BY <1>4, <2>1
  <2>2. CASE /\ Len(todo') = Len(rest) + 1 /\ todo'[1].kind = "entries"
             /\ \A j \in 2..Len(rest) + 1 : todo'[j] = rest[j - 1]
    BY <1>4, <2>2
  <2> QED BY <1>6, <2>1, <2>2
<1> QED BY <1>3, <1>5, <1>7, <1>9 DEF IInv

-----------------------------------------------------------------------------
(* The answers.                                                            *)

(* The request of f ends, and nothing else was left to do. *)
LEMMA HashesEnd ==
  ASSUME IInv, NEW f \in request \cap Files, MainIdle, request' = request \ {f},
         Free("hashes", SourceOf[f], Queued, <<>>), UNCHANGED <<avail, retrying>>
  PROVE  RequestsOK' /\ HandlerTypes' /\ DropOK'
<1>1. \A i \in 1..Len(todo) : FALSE
  BY Parts, Idle
<1>2. RequestsOK'
  BY <1>1, Parts, FreeHashes
<1>3. HandlerTypes' /\ DropOK'
  BY Parts, FreeIsLast, NothingDropped DEF HandlerTypes
<1> QED BY <1>2, <1>3

LEMMA NextHashStep ==
  ASSUME IInv, NEW f \in Files, NEW n, NextHash(f, n)
  PROVE  IInv'
<1>1. /\ MainIdle /\ f \in request /\ n \in ChunksOf(f) \ chunk[f].known
      /\ UNCHANGED <<avail, retrying>>
  BY DEF NextHash
<1> DEFINE peer == IF SourceOf[f] \in avail THEN {n} ELSE {}
           more(done) == [chunk[f] EXCEPT !.known = @ \cup {n}, !.done = @ \cup done, !.peered = @ \cup peer]
<1>2. PICK done \in {{}, {n}} :
        /\ IF more(done).known = ChunksOf(f)
           THEN request' = request \ {f} /\ Free("hashes", SourceOf[f], Queued, <<>>)
           ELSE UNCHANGED <<asking, control>>
        /\ IF more(done).known = ChunksOf(f) \/ peer # {}
           THEN UpdateStatus(f, more(done))
           ELSE /\ chunk' = [chunk EXCEPT ![f] = more(done)]
                /\ UNCHANGED <<status, exists, erroneous, crashed, stuck>>
  BY DEF NextHash
<1> DEFINE ch == more(done)
<1>3. ChunksOK(f, ch)
  <2>1. ChunksOK(f, chunk[f]) /\ n \in Nat /\ n \in ChunksOf(f) /\ peer \subseteq {n} /\ done \subseteq {n}
    BY <1>1, ChunksAre, Parts
  <2> HIDE DEF peer
  <2>2. /\ ch.known = chunk[f].known \cup {n} /\ ch.down = chunk[f].down
        /\ ch.done = chunk[f].done \cup done /\ ch.failed = chunk[f].failed
        /\ ch.absent = chunk[f].absent /\ ch.peered = chunk[f].peered \cup peer
        /\ ch \in ChunkSets
    BY <2>1 DEF ChunksOK, ChunkSets
  <2> HIDE DEF more
  <2> QED BY <2>1, <2>2 DEF ChunksOK
<1> HIDE DEF more, peer
<1>4. status[f] # "COMPLETE"
  <2>1. chunk[f].done \subseteq chunk[f].known
    BY Parts DEF ChunksOK
  <2>2. status[f] = "COMPLETE" => chunk[f].done = ChunksOf(f)
    BY Parts DEF StatusesOK, CompleteHasAll
  <2> QED BY <1>1, <2>1, <2>2
<1>5. RequestsOK' /\ HandlerTypes' /\ DropOK'
  <2>1. CASE ch.known = ChunksOf(f)
    BY <1>1, <1>2, <2>1, HashesEnd
  <2>2. CASE ch.known # ChunksOf(f)
    <3>1. HandlerTypes' /\ DropOK' /\ \A i \in 1..Len(todo) : FALSE
      BY <1>1, <1>2, <2>2, Parts, ControlKept
    <3>2. RequestsOK'
      BY <1>2, <2>2, <3>1, Parts, RequestsSame
    <3> QED BY <3>1, <3>2
  <2> QED BY <2>1, <2>2
<1>6. /\ \A g \in Files \ {f} : g \in request => g \in request'
      /\ f \in request' \/ ch.known = ChunksOf(f)
  BY <1>1, <1>2 DEF asking
<1>7. StatusesOK'
  <2>1. CASE ch.known = ChunksOf(f) \/ peer # {}
    BY <1>1, <1>2, <1>3, <1>4, <1>6, <2>1, Parts, StatusUpdated
  <2>2. CASE ~(ch.known = ChunksOf(f) \/ peer # {})
    <3>1. /\ chunk' = [chunk EXCEPT ![f] = ch]
          /\ UNCHANGED <<status, exists, erroneous, crashed, stuck>>
      BY <1>2, <2>2
    <3>2. /\ chunk' \in [Files -> ChunkSets] /\ chunk'[f] = ch
          /\ \A g \in Files \ {f} : chunk'[g] = chunk[g]
      BY <1>3, <3>1, Parts DEF ChunksOK
    <3>3. \A g \in Files : /\ g \in request => g \in request'
                           /\ ChunksOK(g, chunk'[g])
                           /\ status[g] = "COMPLETE" =>
                                chunk'[g].done = chunk[g].done /\ chunk'[g].down = chunk[g].down
      BY <1>3, <1>4, <1>6, <2>2, <3>2, Parts
    <3> QED BY <1>1, <3>1, <3>2, <3>3, Parts, StatusesKept
  <2> QED BY <2>1, <2>2
<1> QED BY <1>5, <1>7 DEF IInv

LEMMA NoHashesStep ==
  ASSUME IInv, NEW f \in Files, NEW st \in {"ENTRY_NOT_FOUND", "UNABLE_TO_RETRIEVE_THE_HASHES"},
         NoHashes(f, st)
  PROVE  IInv'
<1>1. /\ MainIdle /\ f \in request /\ request' = request \ {f} /\ SetStatus(f, st)
      /\ Free("hashes", SourceOf[f], Queued, <<>>) /\ UNCHANGED <<avail, chunk, exists, retrying, crashed>>
  BY DEF NoHashes
<1>2. RequestsOK' /\ HandlerTypes' /\ DropOK'
  BY <1>1, HashesEnd
<1>3. st \in Statuses
  BY DEF Statuses, Errors
<1>4. StatusesOK'
  BY <1>1, <1>3, Parts, StatusSet
<1> QED BY <1>2, <1>4 DEF IInv

LEMMA EntriesStep ==
  ASSUME IInv, NEW d \in Dirs, Entries(d)
  PROVE  IInv'
<1> DEFINE n == Len(Children[d])
           starts == [i \in 1..n |-> Task("start", Children[d][i])]
           free == Task("free", d)
<1>1. /\ MainIdle /\ d \in request /\ request' = request \ {d}
      /\ status' = [status EXCEPT ![d] = "DELETED"] /\ Forget(d)
      /\ todo' = starts \o <<free>> /\ at' = 1
      /\ retrying' = retrying \ {d} /\ stuck' = stuck \ {d}
      /\ UNCHANGED <<avail, chunk, exists, occupied, lost, crashed>>
  BY DEF Entries
<1>2. \A i \in 1..Len(todo) : FALSE
  BY <1>1, Parts, Idle
<1>3. StatusesOK'
  BY <1>1, Parts, Deleted
<1>4. /\ starts \in Seq(Tasks) /\ Len(starts) = n /\ n \in Nat
      /\ \A i \in 1..n : starts[i].kind = "start"
  <2>1. Children[d] \in Seq(Downloads)
    BY SourcesAssumption
  <2>2. \A i \in 1..n : Task("start", Children[d][i]) \in Tasks /\ Task("start", Children[d][i]).kind = "start"
    BY <2>1 DEF Task, Tasks
  <2> QED BY <2>1, <2>2
<1>5. free \in Tasks /\ free.kind = "free" /\ free.d = d
  BY DEF Task, Tasks
<1> HIDE DEF n, starts, free
<1>6. /\ todo' \in Seq(Tasks) /\ Len(todo') = n + 1 /\ todo'[n + 1] = free
      /\ \A i \in 1..n : todo'[i] = starts[i]
  <2>1. starts \in Seq(Tasks) /\ free \in Tasks
    BY <1>4, <1>5
  <2>2. /\ starts \o <<free>> \in Seq(Tasks) /\ Len(starts \o <<free>>) = Len(starts) + 1
        /\ (starts \o <<free>>)[Len(starts) + 1] = free
        /\ \A i \in 1..Len(starts) : (starts \o <<free>>)[i] = starts[i]
    BY <2>1
  <2> QED BY <1>1, <1>4, <2>2
<1>7. \A i \in 1..Len(todo') : todo'[i].kind # "drop"
  BY <1>4, <1>5, <1>6
<1>8. HandlerTypes' /\ DropOK'
  BY <1>1, <1>6, <1>7, Parts, DownloadsAssumption, NothingDropped DEF HandlerTypes
<1>9. RequestTypes' /\ HashRequestsExclusive'
  BY <1>1, Parts DEF RequestsOK, RequestTypes, HashRequestsExclusive
<1>10. \A q \in occupied'.hashes \ lost'.hashes : \E f \in request' \cap Files : SourceOf[f] = q
  BY <1>1, Parts DEF RequestsOK, OccupiedIsHeld
<1>11. ASSUME NEW q \in occupied'.entries \ lost'.entries
       PROVE  \/ \E e \in request' \cap Dirs : SourceOf[e] = q
              \/ \E i \in 1..Len(todo') : todo'[i].kind = "free" /\ SourceOf[todo'[i].d] = q
  <2>1. PICK e \in request \cap Dirs : SourceOf[e] = q
    BY <1>1, <1>2, Parts DEF RequestsOK, OccupiedIsHeld
  <2>2. CASE e # d
    BY <1>1, <2>1, <2>2
  <2>3. CASE e = d
    <3>1. n + 1 \in 1..Len(todo') /\ todo'[n + 1].kind = "free" /\ SourceOf[todo'[n + 1].d] = q
      BY <1>4, <1>5, <1>6, <2>1, <2>3
    <3> QED BY <3>1
  <2> QED BY <2>2, <2>3
<1>12. RequestsOK'
  BY <1>9, <1>10, <1>11 DEF RequestsOK, OccupiedIsHeld
<1> QED BY <1>3, <1>8, <1>12 DEF IInv

LEMMA NoEntriesStep ==
  ASSUME IInv, NEW d \in Dirs, NEW st \in {"ENTRY_NOT_FOUND", "UNABLE_TO_GET_ENTRIES"}, NoEntries(d, st)
  PROVE  IInv'
<1>1. /\ MainIdle /\ d \in request /\ request' = request \ {d} /\ SetStatus(d, st)
      /\ Free("entries", SourceOf[d], Queued, <<>>) /\ retrying' = retrying \cup {d}
      /\ UNCHANGED <<avail, chunk, exists, crashed>>
  BY DEF NoEntries
<1>2. \A i \in 1..Len(todo) : FALSE
  BY <1>1, Parts, Idle
<1>3. st \in Statuses
  BY DEF Statuses, Errors
<1>4. StatusesOK'
  BY <1>1, <1>3, Parts, StatusSet
<1>5. HandlerTypes' /\ DropOK'
  BY <1>1, Parts, FreeIsLast, NothingDropped DEF HandlerTypes
<1>6. <<>> \in Seq(Tasks)
  OBVIOUS
<1>7. RequestsOK'
  BY <1>1, <1>2, <1>6, Parts, FreeEntries
<1> QED BY <1>4, <1>5, <1>7 DEF IInv

-----------------------------------------------------------------------------
(* The rest of a handler.                                                  *)

LEMMA AddChildStep ==
  ASSUME IInv, AddChild
  PROVE  IInv'
<1> DEFINE d == Head(todo).d
<1>1. /\ AtTask("start") /\ EndTask /\ UNCHANGED <<avail, retrying>>
      /\ \/ UNCHANGED <<status, chunk, exists, asking, erroneous, crashed, stuck>>
         \/ \E ch \in NewChunks(d) : Start(d, ch, "QUEUED", erroneous)
  BY DEF AddChild
<1>2. todo # <<>> /\ Head(todo).kind = "start"
  BY <1>1 DEF AtTask
<1>3. /\ todo' \in Seq(Tasks) /\ at' \in 1..Len(Order) + 1
      /\ \A i \in 1..Len(todo') : i + 1 \in 1..Len(todo) /\ todo'[i] = todo[i + 1]
      /\ \A i \in 1..Len(todo) : i = 1 \/ (i - 1 \in 1..Len(todo') /\ todo'[i - 1] = todo[i])
      /\ todo[1] = Head(todo) /\ todo[1] \in Tasks
  BY <1>1, <1>2, Parts, TaskEnds
<1>4. d \in Downloads
  BY <1>2, <1>3 DEF Tasks
<1>5. HandlerTypes' /\ DropOK'
  <2>1. \A i \in 1..Len(todo) : todo[i].kind # "drop"
    BY <1>1, Parts, NoDropLeft
  <2>2. \A i \in 1..Len(todo') : todo'[i].kind # "drop"
    BY <1>3, <2>1
  <2> QED BY <1>1, <1>3, <2>2, Parts, NothingDropped DEF HandlerTypes
<1>6. \A i \in 1..Len(todo) : todo[i].kind = "free" => \E j \in 1..Len(todo') : todo'[j] = todo[i]
  BY <1>2, <1>3
<1> HIDE DEF d
<1>7. CASE UNCHANGED <<status, chunk, exists, asking, erroneous, crashed, stuck>>
  <2>1. StatusesOK'
    BY <1>1, <1>7, Parts, StatusesSame DEF asking
  <2>2. RequestsOK'
    BY <1>6, <1>7, Parts, RequestsSame
  <2> QED BY <1>5, <2>1, <2>2 DEF IInv
<1>8. CASE \E ch \in NewChunks(d) : Start(d, ch, "QUEUED", erroneous)
  <2>1. PICK ch \in NewChunks(d) : Start(d, ch, "QUEUED", erroneous)
    BY <1>8
  <2>2. d \in Files => ChunksOK(d, ch)
    BY NewChunksOK
  <2>3. "QUEUED" \in Statuses /\ "QUEUED" \notin Errors
    BY DEF Statuses, Errors
  <2>4. StatusesOK' /\ \E may \in BOOLEAN : Ask(d, may)
    BY <1>1, <1>4, <2>1, <2>2, <2>3, Parts, Started
  <2>5. RequestsOK'
    BY <1>4, <1>6, <2>4, Parts, AskHolds
  <2> QED BY <1>5, <2>4, <2>5 DEF IInv
<1> QED BY <1>1, <1>7, <1>8

LEMMA DeleteDirStep ==
  ASSUME IInv, DeleteDir
  PROVE  IInv'
<1> DEFINE d == Head(todo).d
           rest == Tail(todo)
<1>1. /\ AtTask("free") /\ Free("entries", SourceOf[d], Queued, rest)
      /\ UNCHANGED <<avail, status, chunk, exists, request, erroneous, retrying, crashed, stuck>>
  BY DEF DeleteDir
<1>2. /\ rest \in Seq(Tasks) /\ Len(rest) = Len(todo) - 1 /\ Len(todo) \in Nat \ {0}
      /\ \A i \in 1..Len(rest) : rest[i] = todo[i + 1]
      /\ todo[1] = Head(todo) /\ todo[1] \in Tasks
  BY <1>1, Parts DEF AtTask, HandlerTypes
<1>3. \A i \in 1..Len(todo) : todo[i].kind # "drop"
  BY <1>1, Parts, NoDropLeft
<1>4. \A i \in 1..Len(rest) : rest[i].kind # "drop"
  BY <1>2, <1>3
<1>5. \A i \in 1..Len(todo) : SourceOf[todo[i].d] = SourceOf[d] \/ \E j \in 1..Len(rest) : rest[j] = todo[i]
  <2> SUFFICES ASSUME NEW i \in 1..Len(todo), i # 1
               PROVE  \E j \in 1..Len(rest) : rest[j] = todo[i]
    BY <1>2
  <2>1. i - 1 \in 1..Len(rest) /\ (i - 1) + 1 = i
    BY <1>2
  <2>2. rest[i - 1] = todo[i]
    BY <1>2, <2>1
  <2> QED BY <2>1, <2>2
<1> HIDE DEF d, rest
<1>6. /\ todo' \in Seq(Tasks) /\ at' \in 1..Len(Order) + 1
      /\ \/ todo' = rest
         \/ /\ Len(todo') = Len(rest) + 1 /\ todo'[1].kind = "entries"
            /\ \A i \in 2..Len(rest) + 1 : todo'[i] = rest[i - 1]
  BY <1>1, <1>2, FreeLeaves
<1>7. \A i \in 1..Len(todo') : todo'[i].kind # "drop"
  <2>1. CASE todo' = rest
    BY <1>4, <2>1
  <2>2. CASE /\ Len(todo') = Len(rest) + 1 /\ todo'[1].kind = "entries"
             /\ \A i \in 2..Len(rest) + 1 : todo'[i] = rest[i - 1]
    <3> SUFFICES ASSUME NEW i \in 1..Len(todo'), i # 1 PROVE todo'[i].kind # "drop"
      BY <2>2
    <3>1. i \in 2..Len(rest) + 1 /\ i - 1 \in 1..Len(rest)
      BY <1>2, <2>2
    <3> QED BY <1>4, <2>2, <3>1
  <2> QED BY <1>6, <2>1, <2>2
<1>8. HandlerTypes' /\ DropOK'
  BY <1>1, <1>6, <1>7, Parts, NothingDropped DEF HandlerTypes
<1>9. RequestsOK'
  BY <1>1, <1>2, <1>5, Parts, FreeEntries
<1>10. StatusesOK'
  BY <1>1, Parts, StatusesSame
<1> QED BY <1>8, <1>9, <1>10 DEF IInv

LEMMA DropRequestStep ==
  ASSUME IInv, DropRequest
  PROVE  IInv'
<1> DEFINE d == Head(todo).d
<1>1. /\ AtTask("drop") /\ request' = request \ {d} /\ EndTask
      /\ UNCHANGED <<avail, status, chunk, exists, occupied, lost, erroneous, retrying, crashed, stuck>>
  BY DEF DropRequest
<1>2. todo # <<>> /\ Head(todo).kind = "drop"
  BY <1>1 DEF AtTask
<1>3. /\ todo' \in Seq(Tasks) /\ at' \in 1..Len(Order) + 1
      /\ \A i \in 1..Len(todo') : i + 1 \in 1..Len(todo) /\ todo'[i] = todo[i + 1]
      /\ todo[1] = Head(todo) /\ todo[1] \in Tasks /\ 1 \in 1..Len(todo)
  BY <1>1, <1>2, Parts, TaskEnds
<1>4. d \in Dirs /\ d \notin Files
  BY <1>2, <1>3, Parts DEF Tasks
<1>5. DropHeld(d) /\ \A j \in 1..Len(todo) : j # 1 => todo[j].kind \in {"hashes", "entries"}
  BY <1>2, <1>3, Parts DEF DropOK
<1>6. \A i \in 1..Len(todo) : todo[i].kind # "free"
  BY <1>2, <1>3, <1>5
<1> HIDE DEF d
<1>7. \A i \in 1..Len(todo') : todo'[i].kind # "drop"
  <2> SUFFICES ASSUME NEW i \in 1..Len(todo') PROVE todo'[i].kind # "drop"
    OBVIOUS
  <2>1. i + 1 \in 1..Len(todo) /\ todo'[i] = todo[i + 1] /\ i + 1 # 1
    BY <1>3
  <2> QED BY <1>5, <2>1
<1>8. HandlerTypes' /\ DropOK'
  BY <1>1, <1>3, <1>7, Parts, NothingDropped DEF HandlerTypes
<1>9. StatusesOK'
  BY <1>1, <1>4, Parts, StatusesSame
<1>10. RequestTypes' /\ HashRequestsExclusive'
  BY <1>1, Parts DEF RequestsOK, RequestTypes, HashRequestsExclusive
<1>11. \A q \in occupied'.hashes \ lost'.hashes : \E f \in request' \cap Files : SourceOf[f] = q
  BY <1>1, <1>4, Parts DEF RequestsOK, OccupiedIsHeld
<1>12. \A q \in occupied'.entries \ lost'.entries : \E e \in request' \cap Dirs : SourceOf[e] = q
  <2> SUFFICES ASSUME NEW q \in occupied.entries \ lost.entries
               PROVE  \E e \in request' \cap Dirs : SourceOf[e] = q
    BY <1>1
  <2>1. PICK e \in request \cap Dirs : SourceOf[e] = q
    BY <1>6, Parts DEF RequestsOK, OccupiedIsHeld
  <2>2. CASE e # d
    BY <1>1, <2>1, <2>2
  <2>3. CASE e = d
    BY <1>1, <1>5, <2>1, <2>3 DEF DropHeld
  <2> QED BY <2>2, <2>3
<1>13. RequestsOK'
  BY <1>10, <1>11, <1>12 DEF RequestsOK, OccupiedIsHeld
<1> QED BY <1>8, <1>9, <1>13 DEF IInv

LEMMA ScanEndsStep ==
  ASSUME IInv, NEW kind \in {"hashes", "entries"}, ScanEnds(kind)
  PROVE  IInv'
<1>1. /\ AtTask(kind) /\ EndTask
      /\ UNCHANGED <<avail, status, chunk, exists, asking, erroneous, retrying, crashed, stuck>>
  BY DEF ScanEnds
<1>2. todo # <<>> /\ Head(todo).kind = kind
  BY <1>1 DEF AtTask
<1>3. /\ todo' \in Seq(Tasks) /\ at' \in 1..Len(Order) + 1
      /\ \A i \in 1..Len(todo) : i = 1 \/ (i - 1 \in 1..Len(todo') /\ todo'[i - 1] = todo[i])
      /\ todo[1] = Head(todo)
  BY <1>1, <1>2, Parts, TaskEnds
<1>4. \A i \in 1..Len(todo) : todo[i].kind = "free" => \E j \in 1..Len(todo') : todo'[j] = todo[i]
  BY <1>2, <1>3
<1>5. HandlerTypes'
  BY <1>1, <1>3, Parts DEF HandlerTypes
<1>6. StatusesOK' /\ RequestsOK'
  BY <1>1, <1>4, Parts, StatusesSame, RequestsSame DEF asking
<1>7. DropOK'
  BY <1>1, <1>2, Parts, DropStays DEF DropHeld, asking
<1> QED BY <1>5, <1>6, <1>7 DEF IInv

LEMMA ScanTurnStep ==
  ASSUME IInv, NEW kind \in {"hashes", "entries"}, NEW i \in Positions, ScanTurn(kind, i)
  PROVE  IInv'
<1> DEFINE d == Order[i]
           last == AskedStatus(d, status[d], TRUE)
<1>1. /\ AtTask(kind) /\ i >= at /\ Asks(d, kind) /\ Ask(d, TRUE) /\ SetStatus(d, last)
      /\ EndTask \/ (at' = i + 1 /\ UNCHANGED todo)
      /\ UNCHANGED <<avail, chunk, exists, retrying, crashed>>
  BY DEF ScanTurn
<1>2. todo # <<>> /\ Head(todo).kind = kind
  BY <1>1 DEF AtTask
<1>3. d \in Downloads /\ i \in 1..Len(Order) /\ Len(Order) \in Nat
  BY DownloadsAssumption DEF Positions
<1> HIDE DEF d
<1>4. status[d] \in Statuses /\ status[d] # "DELETED" /\ MayAsk(d, ChunksIn(d), status[d])
  BY <1>1, <1>3, Parts DEF Asks, Queued
<1>5. /\ last \in Statuses /\ (d \in Files /\ last = "COMPLETE" => status[d] = "COMPLETE")
      /\ d \in Files /\ last = "GETTING_THE_HASHES" => d \in request'
  <2>1. CASE d \in Files
    <3>1. status[d] # "GETTING_THE_HASHES" /\ ~Frozen(status[d])
      BY <1>4, <2>1 DEF MayAsk
    <3> QED BY <1>1, <1>4, <2>1, <3>1, AskedStatusIs
  <2>2. CASE d \notin Files
    <3>1. d \in Dirs
      BY <1>3, <2>2 DEF Downloads
    <3> QED BY <1>4, <2>2, <3>1 DEF AskedStatus
  <2> QED BY <2>1, <2>2
<1> HIDE DEF last
<1>6. \A g \in Files \ {d} : chunk'[g] = chunk[g] /\ (g \in request => g \in request')
  BY <1>1, AskOthers
<1>7. d \in Files => /\ ChunksOK(d, chunk'[d])
                     /\ last = "COMPLETE" => chunk'[d].done = ChunksOf(d) /\ chunk'[d].down = {}
                     /\ last = "GETTING_THE_HASHES" => d \in request'
  BY <1>1, <1>5, Parts DEF StatusesOK, CompleteHasAll, CompleteIdle
<1>8. StatusesOK' /\ \A e \in Downloads \ {d} : status'[e] = status[e]
  BY <1>1, <1>3, <1>5, <1>6, <1>7, Parts, StatusSet
<1>9. /\ HandlerTypes'
      /\ \A j \in 1..Len(todo) : todo[j].kind = "free" => \E k \in 1..Len(todo') : todo'[k] = todo[j]
  <2>1. CASE EndTask
    <3>1. /\ todo' \in Seq(Tasks) /\ at' \in 1..Len(Order) + 1
          /\ \A j \in 1..Len(todo) : j = 1 \/ (j - 1 \in 1..Len(todo') /\ todo'[j - 1] = todo[j])
          /\ todo[1] = Head(todo)
      BY <1>2, <2>1, Parts, TaskEnds
    <3>2. \A j \in 1..Len(todo) : todo[j].kind = "free" => \E k \in 1..Len(todo') : todo'[k] = todo[j]
      BY <1>2, <3>1
    <3> QED BY <1>1, <3>1, <3>2, Parts DEF HandlerTypes
  <2>2. CASE at' = i + 1 /\ UNCHANGED todo
    <3>1. at' \in 1..Len(Order) + 1
      BY <1>3, <2>2
    <3> QED BY <1>1, <2>2, <3>1, Parts DEF HandlerTypes
  <2> QED BY <1>1, <2>1, <2>2
<1>10. RequestsOK'
  BY <1>1, <1>3, <1>9, Parts, AskHolds
<1>11. DropOK'
  <2>1. ASSUME NEW x \in Dirs, status[x] = "DELETED", DropHeld(x)
        PROVE  status'[x] = "DELETED" /\ DropHeld(x)'
    BY <1>1, <1>3, <1>4, <1>8, <2>1, Parts, AskKeepsDrop
  <2> QED BY <1>1, <1>2, <2>1, Parts, DropStays
<1> QED BY <1>8, <1>9, <1>10, <1>11 DEF IInv

LEMMA SourceAvailableStep ==
  ASSUME IInv, SourceAvailable
  PROVE  IInv'
<1> DEFINE f == Head(todo).d
           ch == WithSource(f, chunk[f])
           path == <<status[f], Welcomed(f, status[f])>>
           asked == f \in request
           created == f \in exists
<1>1. /\ AtTask("available") /\ EndTask /\ UNCHANGED <<avail, asking, retrying>>
      /\ \/ \E nested \in BOOLEAN :
              LET s == Settled(f, ch, path, asked, created, nested)
              IN /\ ch.known # {}
                 /\ chunk' = [chunk EXCEPT ![f] = s.ch]
                 /\ SetStatuses(f, s.path, erroneous)
                 /\ exists' = IF s.exists THEN exists ELSE exists \ {f}
                 /\ crashed' = s.crashes
         \/ /\ chunk' = [chunk EXCEPT ![f] = ch]
            /\ SetStatuses(f, path, erroneous)
            /\ UNCHANGED <<exists, crashed>>
  BY DEF SourceAvailable
<1>2. todo # <<>> /\ Head(todo).kind = "available"
  BY <1>1 DEF AtTask
<1>3. /\ todo' \in Seq(Tasks) /\ at' \in 1..Len(Order) + 1
      /\ \A i \in 1..Len(todo') : i + 1 \in 1..Len(todo) /\ todo'[i] = todo[i + 1]
      /\ \A i \in 1..Len(todo) : i = 1 \/ (i - 1 \in 1..Len(todo') /\ todo'[i - 1] = todo[i])
      /\ todo[1] = Head(todo) /\ todo[1] \in Tasks
  BY <1>1, <1>2, Parts, TaskEnds
<1>4. f \in Files
  BY <1>2, <1>3 DEF Tasks
<1>5. HandlerTypes' /\ DropOK'
  <2>1. \A i \in 1..Len(todo) : todo[i].kind # "drop"
    BY <1>1, Parts, NoDropLeft
  <2>2. \A i \in 1..Len(todo') : todo'[i].kind # "drop"
    BY <1>3, <2>1
  <2> QED BY <1>1, <1>3, <2>2, Parts, NothingDropped DEF HandlerTypes
<1>6. \A i \in 1..Len(todo) : todo[i].kind = "free" => \E j \in 1..Len(todo') : todo'[j] = todo[i]
  BY <1>2, <1>3
<1>7. RequestsOK' /\ request' = request
  BY <1>1, <1>6, Parts, RequestsSame DEF asking
<1> HIDE DEF f
<1>8. f \in Downloads /\ ChunksOK(f, chunk[f]) /\ status[f] \in Statuses
  BY <1>4, Parts
<1>9. /\ ChunksOK(f, ch) /\ ch \in ChunkSets
      /\ ch.known = chunk[f].known /\ ch.done = chunk[f].done /\ ch.down = chunk[f].down
  BY <1>4, <1>8, WithSourceOK DEF ChunksOK
<1>10. /\ path \in Seq(Statuses) /\ path # <<>> /\ path[1] = status[f]
       /\ LastOf(path) \in {"COMPLETE", "GETTING_THE_HASHES"} => LastOf(path) = status[f]
  <2>1. /\ Welcomed(f, status[f]) \in Statuses
        /\ Welcomed(f, status[f]) \in {"COMPLETE", "GETTING_THE_HASHES"} =>
             Welcomed(f, status[f]) = status[f]
    BY <1>8, WelcomedIs
  <2>2. path \in Seq(Statuses) /\ path # <<>> /\ path[1] = status[f] /\ LastOf(path) = Welcomed(f, status[f])
    BY <1>8, <2>1 DEF LastOf
  <2> HIDE DEF path
  <2> QED BY <2>1, <2>2
<1>11. asked \in BOOLEAN /\ created \in BOOLEAN /\ (asked => f \in request')
  BY <1>7
<1>12. /\ status[f] = "COMPLETE" => ch.done = ChunksOf(f) /\ ch.down = {}
       /\ status[f] = "GETTING_THE_HASHES" => f \in request
  BY <1>4, <1>9, Parts DEF StatusesOK, CompleteHasAll, CompleteIdle, GettingIsAsked
<1> HIDE DEF ch, path, asked, created
<1>13. CASE \E nested \in BOOLEAN :
              LET s == Settled(f, ch, path, asked, created, nested)
              IN /\ ch.known # {}
                 /\ chunk' = [chunk EXCEPT ![f] = s.ch]
                 /\ SetStatuses(f, s.path, erroneous)
                 /\ exists' = IF s.exists THEN exists ELSE exists \ {f}
                 /\ crashed' = s.crashes
  <2>1. PICK nested \in BOOLEAN :
          LET s == Settled(f, ch, path, asked, created, nested)
          IN /\ chunk' = [chunk EXCEPT ![f] = s.ch]
             /\ SetStatuses(f, s.path, erroneous)
             /\ exists' = IF s.exists THEN exists ELSE exists \ {f}
             /\ crashed' = s.crashes
    BY <1>13
  <2> DEFINE s == Settled(f, ch, path, asked, created, nested)
  <2>2. /\ chunk' = [chunk EXCEPT ![f] = s.ch] /\ SetStatuses(f, s.path, erroneous)
        /\ exists' \subseteq Files /\ crashed' = s.crashes
    BY <2>1, Parts
  <2>3. StatusesOK'
    BY <1>1, <1>4, <1>7, <1>9, <1>10, <1>11, <1>12, <2>2, Parts, FileSettled
  <2> QED BY <1>5, <1>7, <2>3 DEF IInv
<1>14. CASE /\ chunk' = [chunk EXCEPT ![f] = ch]
            /\ SetStatuses(f, path, erroneous)
            /\ UNCHANGED <<exists, crashed>>
  <2>1. /\ chunk' \in [Files -> ChunkSets] /\ chunk'[f] = ch
        /\ \A g \in Files \ {f} : chunk'[g] = chunk[g] /\ (g \in request => g \in request')
    BY <1>4, <1>7, <1>9, <1>14, Parts
  <2>2. /\ ChunksOK(f, chunk'[f])
        /\ LastOf(path) = "COMPLETE" => chunk'[f].done = ChunksOf(f) /\ chunk'[f].down = {}
        /\ LastOf(path) = "GETTING_THE_HASHES" => f \in request'
    BY <1>7, <1>9, <1>10, <1>12, <2>1
  <2>3. StatusesOK'
    BY <1>1, <1>8, <1>10, <1>14, <2>1, <2>2, Parts, StatusMoves
  <2> QED BY <1>5, <1>7, <2>3 DEF IInv
<1> QED BY <1>1, <1>13, <1>14

-----------------------------------------------------------------------------
(* The peers and the chunks.                                               *)

LEMMA PeerDiesStep ==
  ASSUME IInv, NEW p \in Peers, PeerDies(p)
  PROVE  IInv'
<1>1. /\ MainIdle /\ avail' = avail \ {p}
      /\ UNCHANGED <<status, exists, asking, erroneous, retrying, control, crashed, stuck>>
  BY DEF PeerDies
<1>2. PICK others \in BOOLEAN :
        chunk' = [f \in Files |-> IF SourceOf[f] # p \/ others THEN chunk[f]
                                  ELSE [chunk[f] EXCEPT !.peered = {}]]
  BY DEF PeerDies
<1>3. ASSUME NEW f \in Files
      PROVE  /\ ChunksOK(f, chunk'[f]) /\ chunk'[f] \in ChunkSets
             /\ chunk'[f].done = chunk[f].done /\ chunk'[f].down = chunk[f].down
  <2> DEFINE ch == chunk[f]
             none == [ch EXCEPT !.peered = {}]
  <2>1. ChunksOK(f, ch) /\ chunk'[f] \in {ch, none}
    BY <1>2, Parts
  <2> HIDE DEF ch
  <2>2. /\ none \in ChunkSets /\ none.known = ch.known /\ none.down = ch.down /\ none.done = ch.done
        /\ none.failed = ch.failed /\ none.absent = ch.absent /\ none.peered = {}
    BY <2>1 DEF ChunksOK, ChunkSets
  <2> HIDE DEF none
  <2>3. ChunksOK(f, none) /\ ch \in ChunkSets
    BY <2>1, <2>2 DEF ChunksOK
  <2> QED BY <2>1, <2>2, <2>3 DEF ch
<1>4. chunk' \in [Files -> ChunkSets]
  <2>1. chunk' = [f \in Files |-> chunk'[f]]
    BY <1>2
  <2> QED BY <1>3, <2>1
<1>5. StatusesOK'
  BY <1>1, <1>3, <1>4, Parts, StatusesKept DEF asking
<1>6. HandlerTypes' /\ DropOK' /\ \A i \in 1..Len(todo) : FALSE
  BY <1>1, Parts, ControlKept
<1>7. RequestsOK'
  BY <1>1, <1>6, Parts, RequestsSame
<1> QED BY <1>5, <1>6, <1>7 DEF IInv

LEMMA PeerBecomesAvailableStep ==
  ASSUME IInv, NEW p \in Peers, PeerBecomesAvailable(p)
  PROVE  IInv'
<1> DEFINE F == {f \in Files \cap Queued : SourceOf[f] = p}
           K == {k \in {"entries", "hashes"} : p \notin occupied[k] /\ \E d \in Queued : SourceOf[d] = p}
           files == Only(Order, F)
           scans == Only(<<"entries", "hashes">>, K)
           first == [i \in 1..Len(files) |-> Task("available", files[i])]
           second == [i \in 1..Len(scans) |-> Task(scans[i], NoDownload)]
<1>1. /\ MainIdle /\ avail' = avail \cup {p} /\ todo' = first \o second /\ at' = 1
      /\ UNCHANGED <<status, chunk, exists, asking, erroneous, retrying, crashed, stuck>>
  BY DEF PeerBecomesAvailable
<1>2. files \in Seq(Downloads) /\ \A i \in 1..Len(files) : files[i] \in Files
  <2>1. Order \in Seq(Downloads)
    BY DownloadsAssumption
  <2>2. files \in Seq(Downloads) /\ \A i \in 1..Len(files) : files[i] \in F
    BY <2>1, OnlyProperties
  <2> QED BY <2>2
<1>3. scans \in Seq({"entries", "hashes"})
  <2>1. <<"entries", "hashes">> \in Seq({"entries", "hashes"})
    OBVIOUS
  <2> HIDE DEF K
  <2> QED BY <2>1, OnlyProperties
<1> HIDE DEF files, scans
<1>4. first \in Seq(Tasks) /\ \A i \in 1..Len(first) : first[i].kind = "available"
  <2>1. \A i \in 1..Len(files) :
          Task("available", files[i]) \in Tasks /\ Task("available", files[i]).kind = "available"
    BY <1>2 DEF Task, Tasks
  <2> QED BY <1>2, <2>1
<1>5. second \in Seq(Tasks) /\ \A i \in 1..Len(second) : second[i].kind \in {"entries", "hashes"}
  <2>1. \A i \in 1..Len(scans) :
          /\ Task(scans[i], NoDownload) \in Tasks
          /\ Task(scans[i], NoDownload).kind \in {"entries", "hashes"}
    BY <1>3 DEF Task, Tasks
  <2> QED BY <1>3, <2>1
<1> HIDE DEF first, second
<1>6. /\ todo' \in Seq(Tasks) /\ \A i \in 1..Len(todo') : todo'[i].kind # "drop"
  <2>1. first \in Seq(Tasks) /\ second \in Seq(Tasks)
    BY <1>4, <1>5
  <2>2. /\ first \o second \in Seq(Tasks) /\ Len(first \o second) = Len(first) + Len(second)
        /\ \A i \in 1..Len(first) : (first \o second)[i] = first[i]
        /\ \A i \in 1..Len(second) : (first \o second)[Len(first) + i] = second[i]
    BY <2>1
  <2>3. ASSUME NEW i \in 1..Len(first \o second) PROVE (first \o second)[i].kind # "drop"
    <3>1. Len(first) \in Nat /\ Len(second) \in Nat
      BY <2>1
    <3>2. CASE i <= Len(first)
      <4>1. i \in 1..Len(first)
        BY <2>2, <3>1, <3>2
      <4> QED BY <1>4, <2>2, <4>1
    <3>3. CASE i > Len(first)
      <4>1. i - Len(first) \in 1..Len(second) /\ Len(first) + (i - Len(first)) = i
        BY <2>2, <3>1, <3>3
      <4>2. (first \o second)[i] = second[i - Len(first)]
        BY <2>2, <4>1
      <4> QED BY <1>5, <4>1, <4>2
    <3> QED BY <2>2, <3>1, <3>2, <3>3
  <2> QED BY <1>1, <2>2, <2>3
<1>7. HandlerTypes' /\ DropOK'
  BY <1>1, <1>6, Parts, DownloadsAssumption, NothingDropped DEF HandlerTypes
<1>8. StatusesOK'
  BY <1>1, Parts, StatusesSame DEF asking
<1>9. \A i \in 1..Len(todo) : FALSE
  BY <1>1, Parts, Idle
<1>10. RequestsOK'
  BY <1>1, <1>9, Parts, RequestsSame
<1> QED BY <1>7, <1>8, <1>10 DEF IInv

LEMMA PeersChangeStep ==
  ASSUME IInv, NEW f \in Files, NEW n \in ChunksOf(f), PeersChange(f, n)
  PROVE  IInv'
<1> DEFINE ch == [chunk[f] EXCEPT !.peered = IF n \in @ THEN @ \ {n} ELSE @ \cup {n}]
<1>1. /\ f \in Queued /\ n \in chunk[f].known \ chunk[f].done /\ UpdateStatus(f, ch)
      /\ UNCHANGED <<avail, asking, retrying, control>>
  BY DEF PeersChange
<1>2. ChunksOK(f, ch) /\ ch.known = chunk[f].known
  <2>1. ChunksOK(f, chunk[f]) /\ n \in Nat
    BY ChunksAre, Parts
  <2>2. /\ ch \in ChunkSets /\ ch.known = chunk[f].known /\ ch.down = chunk[f].down
        /\ ch.done = chunk[f].done /\ ch.failed = chunk[f].failed /\ ch.absent = chunk[f].absent
        /\ ch.peered = IF n \in chunk[f].peered THEN chunk[f].peered \ {n} ELSE chunk[f].peered \cup {n}
    BY <2>1 DEF ChunksOK, ChunkSets
  <2> HIDE DEF ch
  <2> QED BY <1>1, <2>1, <2>2 DEF ChunksOK
<1> HIDE DEF ch
<1>3. status[f] # "COMPLETE"
  <2>1. status[f] = "COMPLETE" => chunk[f].done = ChunksOf(f)
    BY Parts DEF StatusesOK, CompleteHasAll
  <2>2. n \notin chunk[f].done
    BY <1>1
  <2> QED BY <2>1, <2>2
<1>4. request' = request /\ todo' = todo /\ at' = at
  BY <1>1 DEF asking, control
<1>5. StatusesOK' /\ \A e \in Downloads \ {f} : status'[e] = status[e]
  BY <1>1, <1>2, <1>3, <1>4, Parts, StatusUpdated
<1>6. RequestsOK' /\ HandlerTypes'
  BY <1>1, <1>4, Parts, RequestsSame DEF HandlerTypes
<1>7. DropOK'
  <2>1. ASSUME NEW x \in Dirs, status[x] = "DELETED", DropHeld(x)
        PROVE  status'[x] = "DELETED" /\ DropHeld(x)'
    <3>1. x \in Downloads \ {f}
      BY Parts
    <3> QED BY <1>1, <1>5, <2>1, <3>1 DEF DropHeld, asking
  <2> QED BY <1>4, <2>1, Parts, DropStays
<1> QED BY <1>5, <1>6, <1>7 DEF IInv

(* A step of an idle main thread that has no request to make or to drop.   *)
LEMMA QuietStep ==
  ASSUME IInv, MainIdle, UNCHANGED <<avail, asking, retrying, control>>
  PROVE  RequestsOK' /\ HandlerTypes' /\ DropOK' /\ request' = request
<1>1. HandlerTypes' /\ DropOK' /\ \A i \in 1..Len(todo) : FALSE
  BY Parts, ControlKept
<1>2. RequestsOK'
  BY <1>1, Parts, RequestsSame
<1> QED BY <1>1, <1>2 DEF asking

LEMMA ChunkStartsStep ==
  ASSUME IInv, NEW f \in Files, NEW n \in ChunksOf(f), ChunkStarts(f, n)
  PROVE  IInv'
<1> DEFINE ch == [chunk[f] EXCEPT !.down = @ \cup {n}]
<1>1. /\ MainIdle /\ n \in chunk[f].known /\ exists' = exists \cup {f}
      /\ chunk' = [chunk EXCEPT ![f] = ch] /\ SetStatus(f, "DOWNLOADING")
      /\ UNCHANGED <<avail, asking, retrying, control, crashed>>
  BY DEF ChunkStarts, Chosen
<1>2. RequestsOK' /\ HandlerTypes' /\ DropOK' /\ request' = request
  BY <1>1, QuietStep
<1>3. ChunksOK(f, ch)
  <2>1. ChunksOK(f, chunk[f]) /\ n \in Nat
    BY ChunksAre, Parts
  <2>2. /\ ch \in ChunkSets /\ ch.known = chunk[f].known /\ ch.down = chunk[f].down \cup {n}
        /\ ch.done = chunk[f].done /\ ch.failed = chunk[f].failed /\ ch.absent = chunk[f].absent
        /\ ch.peered = chunk[f].peered
    BY <2>1 DEF ChunksOK, ChunkSets
  <2> HIDE DEF ch
  <2> QED BY <1>1, <2>1, <2>2 DEF ChunksOK
<1> HIDE DEF ch
<1>4. /\ chunk' \in [Files -> ChunkSets] /\ chunk'[f] = ch
      /\ \A g \in Files \ {f} : chunk'[g] = chunk[g] /\ (g \in request => g \in request')
  BY <1>1, <1>2, <1>3, Parts DEF ChunksOK
<1>5. "DOWNLOADING" \in Statuses
  BY DEF Statuses
<1>6. exists' \subseteq Files /\ crashed' \in BOOLEAN
  BY <1>1, Parts
<1>7. StatusesOK'
  BY <1>1, <1>3, <1>4, <1>5, <1>6, Parts, StatusSet
<1> QED BY <1>2, <1>7 DEF IInv

LEMMA CreateFailsStep ==
  ASSUME IInv, NEW f \in Files, NEW n \in ChunksOf(f), CreateFails(f, n)
  PROVE  IInv'
<1>1. /\ MainIdle /\ SetStatus(f, "UNABLE_TO_CREATE")
      /\ UNCHANGED <<avail, chunk, exists, asking, retrying, control, crashed>>
  BY DEF CreateFails, Chosen
<1>2. RequestsOK' /\ HandlerTypes' /\ DropOK' /\ request' = request
  BY <1>1, QuietStep
<1>3. "UNABLE_TO_CREATE" \in Statuses
  BY DEF Statuses, Errors
<1>4. StatusesOK'
  BY <1>1, <1>2, <1>3, Parts, StatusSet
<1> QED BY <1>2, <1>4 DEF IInv

LEMMA CreateFindsStep ==
  ASSUME IInv, NEW f \in Files, NEW n \in ChunksOf(f), CreateFinds(f, n)
  PROVE  IInv'
<1> DEFINE ch == Found(chunk[f])
           path == <<status[f]>>
           asked == f \in request
           s == Settled(f, ch, path, asked, TRUE, FALSE)
<1>1. /\ MainIdle /\ ~Frozen(status[f])
      /\ chunk' = [chunk EXCEPT ![f] = s.ch] /\ SetStatuses(f, s.path, erroneous)
      /\ exists' = IF s.exists THEN exists \cup {f} ELSE exists \ {f}
      /\ crashed' = s.crashes
      /\ UNCHANGED <<avail, asking, retrying, control>>
  BY DEF CreateFinds, Chosen
<1>2. RequestsOK' /\ HandlerTypes' /\ DropOK' /\ request' = request
  BY <1>1, QuietStep
<1>3. ChunksOK(f, ch)
  <2>1. ChunksOK(f, chunk[f])
    BY Parts
  <2> QED BY <2>1 DEF ChunksOK, ChunkSets, Found
<1>4. /\ status[f] \in Statuses /\ status[f] # "COMPLETE"
      /\ path \in Seq(Statuses) /\ path # <<>> /\ path[1] = status[f] /\ LastOf(path) = status[f]
  BY <1>1, Parts DEF LastOf, Frozen
<1>5. exists \subseteq Files
  BY Parts
<1>6. asked \in BOOLEAN /\ (asked => f \in request') /\ exists' \subseteq Files
  <2>1. asked \in BOOLEAN /\ (asked => f \in request')
    BY <1>2
  <2> HIDE DEF s
  <2> QED BY <1>1, <1>5, <2>1
<1> HIDE DEF ch, path, asked
<1>7. StatusesOK'
  BY <1>1, <1>2, <1>3, <1>4, <1>6, Parts, FileSettled
<1> QED BY <1>2, <1>7 DEF IInv

LEMMA OutcomesOK ==
  ASSUME NEW f \in Files, NEW old, ChunksOK(f, old), NEW n \in old.down, NEW ch \in Outcomes(old, n)
  PROVE  ChunksOK(f, ch)
<1> DEFINE ended == [old EXCEPT !.down = @ \ {n}, !.failed = @ \ {n}, !.absent = @ \ {n}]
<1>1. ch \in {ended, [ended EXCEPT !.done = @ \cup {n}], [ended EXCEPT !.failed = @ \cup {n}],
              [ended EXCEPT !.absent = @ \cup {n}]}
  BY DEF Outcomes
<1>2. n \in Nat /\ n \in old.known
  BY DEF ChunksOK, ChunkSets
<1>3. /\ ended \in ChunkSets /\ ended.known = old.known /\ ended.down = old.down \ {n}
      /\ ended.done = old.done /\ ended.failed = old.failed \ {n} /\ ended.absent = old.absent \ {n}
      /\ ended.peered = old.peered
  BY DEF ChunksOK, ChunkSets
<1> HIDE DEF ended
<1>4. ChunksOK(f, ended) /\ n \in ended.known
  BY <1>2, <1>3 DEF ChunksOK
<1>5. CASE ch = ended
  BY <1>4, <1>5
<1>6. CASE ch = [ended EXCEPT !.done = @ \cup {n}]
  BY <1>2, <1>4, <1>6 DEF ChunksOK, ChunkSets
<1>7. CASE ch = [ended EXCEPT !.failed = @ \cup {n}]
  BY <1>2, <1>4, <1>7 DEF ChunksOK, ChunkSets
<1>8. CASE ch = [ended EXCEPT !.absent = @ \cup {n}]
  BY <1>2, <1>4, <1>8 DEF ChunksOK, ChunkSets
<1> QED BY <1>1, <1>5, <1>6, <1>7, <1>8

LEMMA ChunkEndsStep ==
  ASSUME IInv, NEW f \in Files, NEW n \in ChunksOf(f), ChunkEnds(f, n)
  PROVE  IInv'
<1>1. /\ MainIdle /\ n \in chunk[f].down /\ UNCHANGED <<avail, asking, retrying, control>>
  BY DEF ChunkEnds
<1>2. PICK ch \in Outcomes(chunk[f], n) : UpdateStatus(f, ch)
  BY DEF ChunkEnds
<1>3. RequestsOK' /\ HandlerTypes' /\ DropOK' /\ request' = request
  BY <1>1, QuietStep
<1>4. ChunksOK(f, ch)
  BY <1>1, Parts, OutcomesOK
<1>5. status[f] # "COMPLETE"
  BY <1>1, Parts DEF StatusesOK, CompleteIdle
<1>6. StatusesOK'
  BY <1>1, <1>2, <1>3, <1>4, <1>5, Parts, StatusUpdated
<1> QED BY <1>3, <1>6 DEF IInv

-----------------------------------------------------------------------------
(* The theorems.                                                           *)

LEMMA InitIInv ==
  ASSUME Init
  PROVE  IInv
<1>1. /\ status = [d \in Downloads |-> "unborn"] /\ chunk = [f \in Files |-> NoChunks]
      /\ exists = {} /\ request = {} /\ erroneous = <<>> /\ retrying = {} /\ avail \in SUBSET Peers
      /\ occupied = [hashes |-> {}, entries |-> {}] /\ lost = [hashes |-> {}, entries |-> {}]
      /\ stuck = {} /\ todo = <<>> /\ at = 1 /\ crashed = FALSE
  BY DEF Init
<1>2. "unborn" \in Statuses \ (Errors \cup {"COMPLETE", "GETTING_THE_HASHES"})
  BY DEF Statuses, Errors
<1>3. \A f \in Files : f \in Downloads /\ ChunksOK(f, NoChunks)
  BY DEF Downloads, ChunksOK, ChunkSets, NoChunks
<1>4. StatusTypes
  <2>1. chunk \in [Files -> ChunkSets] /\ \A f \in Files : ChunksOK(f, chunk[f])
    <3>1. \A f \in Files : NoChunks \in ChunkSets /\ chunk[f] = NoChunks
      BY <1>1, <1>3 DEF ChunksOK
    <3> QED BY <1>1, <1>3, <3>1
  <2>2. status \in [Downloads -> Statuses]
    BY <1>1, <1>2
  <2>3. erroneous \in Seq(Downloads) /\ Len(erroneous) <= MaxListed
    <3>1. Len(<<>>) = 0 /\ <<>> \in Seq(Downloads)
      OBVIOUS
    <3> QED BY <1>1, <3>1, BoundsAssumption
  <2>4. exists \subseteq Files /\ crashed \in BOOLEAN /\ stuck \subseteq Downloads
    BY <1>1
  <2> QED BY <2>1, <2>2, <2>3, <2>4 DEF StatusTypes
<1>5. CompleteHasAll /\ CompleteIdle /\ ErroneousIsRetried /\ GettingIsAsked
  BY <1>1, <1>2, <1>3 DEF CompleteHasAll, CompleteIdle, ErroneousIsRetried, GettingIsAsked, Queued
<1>6. RequestsOK
  BY <1>1 DEF RequestsOK, RequestTypes, HashRequestsExclusive, OccupiedIsHeld
<1>7. HandlerTypes /\ DropOK
  BY <1>1, DownloadsAssumption DEF HandlerTypes, DropOK
<1> QED BY <1>4, <1>5, <1>6, <1>7 DEF IInv, StatusesOK

LEMMA NextIInv ==
  ASSUME IInv, [Next]_vars
  PROVE  IInv'
<1>1. CASE Command
  BY <1>1, AddStep, PauseStep, UnpauseStep, RemoveFileStep, RemoveDirStep DEF Command
<1>2. CASE Timer
  BY <1>2, RestartNoneStep, RestartStep, RetryStep DEF Timer
<1>3. CASE Answer
  BY <1>3, NextHashStep, NoHashesStep, EntriesStep, NoEntriesStep DEF Answer
<1>4. CASE Handler
  BY <1>4, AddChildStep, DeleteDirStep, DropRequestStep, SourceAvailableStep, ScanEndsStep, ScanTurnStep
  DEF Handler
<1>5. CASE PeerEvent
  BY <1>5, PeerDiesStep, PeerBecomesAvailableStep DEF PeerEvent
<1>6. CASE ChunkEvent
  BY <1>6, PeersChangeStep, ChunkStartsStep, CreateFailsStep, CreateFindsStep, ChunkEndsStep
  DEF ChunkEvent
<1>7. CASE UNCHANGED vars
  <2>1. /\ UNCHANGED <<avail, status, chunk, exists, erroneous, retrying, crashed, stuck>>
        /\ UNCHANGED <<request, occupied, lost>> /\ UNCHANGED <<todo, at>>
    BY <1>7 DEF vars, asking, control
  <2>2. StatusesOK' /\ RequestsOK'
    BY <2>1, Parts, StatusesSame, RequestsSame DEF asking
  <2>3. HandlerTypes'
    BY <2>1, Parts DEF HandlerTypes
  <2>4. DropOK'
    BY <2>1, Parts, DropStays DEF DropHeld
  <2> QED BY <2>2, <2>3, <2>4 DEF IInv
<1> QED BY <1>1, <1>2, <1>3, <1>4, <1>5, <1>6, <1>7 DEF Next

THEOREM Invariance == Spec => []IInv
<1>1. Init => IInv
  BY InitIInv
<1>2. IInv /\ [Next]_vars => IInv'
  BY NextIInv
<1> QED BY <1>1, <1>2, PTL DEF Spec

(* Every variable of the downloads has its type, and a chunk that is       *)
(* downloaded, done, in error or has a peer is one whose hash is known:    *)
(* updateStatus() and stop() never meet another one.                       *)
THEOREM TypeCorrect == Spec => []TypeOK
<1>1. IInv => TypeOK
  BY DEF IInv, StatusesOK, RequestsOK, StatusTypes, RequestTypes, HandlerTypes, TypeOK
<1> QED BY <1>1, Invariance, PTL

(* A peer is occupied exactly while one download waits for its answer:     *)
(* OccupiedPeers is set and freed in step with the requests of             *)
(* FileDownload and DirDownload, but for the requests overwritten.         *)
THEOREM PeersHeldByRequests == Spec => []RequestsHoldPeers
<1>1. IInv => RequestsHoldPeers
  BY DEF IInv, StatusesOK, RequestsOK, RequestsHoldPeers
<1> QED BY <1>1, Invariance, PTL

(* FileDownload::updateStatus() never says COMPLETE of a file that lacks a *)
(* chunk, and nothing makes a complete file lose one.                      *)
THEOREM CompleteIsWhole == Spec => []CompleteHasAll
<1>1. IInv => CompleteHasAll
  BY DEF IInv, StatusesOK
<1> QED BY <1>1, Invariance, PTL

(* A download in error is in the list of DownloadQueue's timer or has its  *)
(* own, but for those whose start() could not change their status.         *)
THEOREM ErrorsAreRetried == Spec => []ErroneousIsRetried
<1>1. IInv => ErroneousIsRetried
  BY DEF IInv, StatusesOK
<1> QED BY <1>1, Invariance, PTL
=============================================================================

-------------------------- MODULE HashServiceProofs --------------------------
(***************************************************************************)
(* Proofs about HashService, for every number of files, of chunks, of      *)
(* shared directories, of requests and of faults.  The three invariants of *)
(* the runs hold together with what the updater, the main thread and the   *)
(* requests remember between two steps.                                    *)
(***************************************************************************)
EXTENDS HashService, InductionFacts

Computing == {"start", "reading", "known", "ended"}
Removing  == {"awaits scan", "rm", "awaits hasher", "removes"}

(* What the updater remembers of the file it has picked: the chunk that    *)
(* has just been read is the first one that had no hash, and a file leaves *)
(* its list only when it has all its hashes or could not be read.          *)
UpdaterOK ==
  /\ upd.at \in Computing => upd.file \in Files
  /\ upd.at = "known" =>
       upd.chunk \in hash[upd.file] /\ \A d \in Chunks(upd.file) : d < upd.chunk => d \in hash[upd.file]
  /\ upd.at = "ended" /\ upd.got => upd.file \in failed \/ Hashed(upd.file)

(* A directory that is being removed is shared no more. *)
MainOK ==
  /\ main.at = "asks" => main.file \in Files
  /\ main.at \in Removing => main.root \in Roots /\ main.root \notin shared

(* Whoever rmRoot() waits for is at work, and will see that it is to stop: *)
(* the main thread, that has both mutexes of the updater, does not wait    *)
(* for an end that has already been.                                       *)
WaitsEnd ==
  /\ scanning # NoRoot => upd.at = "scanning"
  /\ main.at = "awaits scan" => upd.at = "scanning" /\ scanning = NoRoot
  /\ main.at = "awaits hasher" => upd.at = "reading" /\ hasher.hashing /\ hasher.toStop

RequestsOK ==
  \A r \in Requests : request[r].state \in {"started", "waiting"} => request[r].file \in Files

IInv == TypeOK /\ QueuedOnce /\ NoHashMissed /\ UpdaterOK /\ MainOK /\ RequestsOK /\ WaitsEnd

-----------------------------------------------------------------------------
(* Lists of files.                                                         *)

LEMMA RangeIs ==
  ASSUME NEW S, NEW s \in Seq(S)
  PROVE  /\ Range(s) \subseteq S
         /\ \A x : x \in Range(s) <=> \E i \in 1..Len(s) : s[i] = x
         /\ IsInjective(s) <=> \A i, j \in 1..Len(s) : s[i] = s[j] => i = j
<1>1. DOMAIN s = 1..Len(s) /\ \A i \in 1..Len(s) : s[i] \in S
  OBVIOUS
<1> QED BY <1>1 DEF Range, IsInjective

(* What removeFromFilesWithoutHashes() and the like leave of a list. *)
LEMMA OnlyRange ==
  ASSUME NEW S, NEW s \in Seq(S), NEW K
  PROVE  /\ Only(s, K) \in Seq(S) /\ Range(Only(s, K)) = Range(s) \cap K
         /\ IsInjective(s) => IsInjective(Only(s, K))
<1> DEFINE t == Only(s, K)
<1>1. /\ t \in Seq(S)
      /\ \A a \in 1..Len(t) : t[a] \in K /\ \E i \in 1..Len(s) : t[a] = s[i]
      /\ \A i \in 1..Len(s) : s[i] \in K => \E a \in 1..Len(t) : t[a] = s[i]
      /\ (\A i, j \in 1..Len(s) : s[i] = s[j] => i = j) =>
           \A i, j \in 1..Len(t) : t[i] = t[j] => i = j
  BY OnlyProperties
<1> HIDE DEF t
<1>2. \A x : x \in Range(t) <=> x \in Range(s) /\ x \in K
  <2> TAKE x
  <2>1. (x \in Range(t) <=> \E a \in 1..Len(t) : t[a] = x) /\ (x \in Range(s) <=> \E i \in 1..Len(s) : s[i] = x)
    BY <1>1, RangeIs
  <2>2. x \in Range(t) => x \in Range(s) /\ x \in K
    BY <1>1, <2>1
  <2>3. x \in Range(s) /\ x \in K => x \in Range(t)
    BY <1>1, <2>1
  <2> QED BY <2>2, <2>3
<1>3. IsInjective(s) => IsInjective(t)
  <2>1. /\ IsInjective(t) <=> \A i, j \in 1..Len(t) : t[i] = t[j] => i = j
        /\ IsInjective(s) <=> \A i, j \in 1..Len(s) : s[i] = s[j] => i = j
    BY <1>1, RangeIs
  <2> QED BY <1>1, <2>1
<1>4. Range(t) = Range(s) \cap K
  BY <1>2
<1> QED BY <1>1, <1>3, <1>4 DEF t

LEMMA AppendRange ==
  ASSUME NEW S, NEW s \in Seq(S), NEW x \in S
  PROVE  /\ Append(s, x) \in Seq(S) /\ Range(Append(s, x)) = Range(s) \cup {x}
         /\ IsInjective(s) /\ x \notin Range(s) => IsInjective(Append(s, x))
<1> DEFINE t == Append(s, x)
<1>1. /\ t \in Seq(S) /\ Len(t) = Len(s) + 1 /\ Len(s) \in Nat /\ t[Len(s) + 1] = x
      /\ \A i \in 1..Len(s) : t[i] = s[i] /\ i \in 1..Len(t)
      /\ \A i \in 1..Len(t) : i \in 1..Len(s) \/ i = Len(s) + 1
      /\ Len(s) + 1 \in 1..Len(t)
  OBVIOUS
<1> HIDE DEF t
<1>2. \A y : y \in Range(t) <=> y \in Range(s) \/ y = x
  <2> TAKE y
  <2>1. (y \in Range(t) <=> \E a \in 1..Len(t) : t[a] = y) /\ (y \in Range(s) <=> \E i \in 1..Len(s) : s[i] = y)
    BY <1>1, RangeIs
  <2> QED BY <1>1, <2>1
<1>3. ASSUME IsInjective(s), x \notin Range(s) PROVE IsInjective(t)
  <2>1. /\ \A i, j \in 1..Len(s) : s[i] = s[j] => i = j
        /\ \A i \in 1..Len(s) : s[i] # x
        /\ IsInjective(t) <=> \A i, j \in 1..Len(t) : t[i] = t[j] => i = j
    BY <1>1, <1>3, RangeIs
  <2> QED BY <1>1, <2>1
<1>4. Range(t) = Range(s) \cup {x}
  BY <1>2
<1> QED BY <1>1, <1>3, <1>4 DEF t

LEMMA TailRange ==
  ASSUME NEW S, NEW s \in Seq(S), s # <<>>, IsInjective(s)
  PROVE  /\ Tail(s) \in Seq(S) /\ IsInjective(Tail(s))
         /\ Head(s) \in Range(s) /\ Head(s) \in S /\ Range(Tail(s)) = Range(s) \ {Head(s)}
<1> DEFINE t == Tail(s)
<1>1. /\ t \in Seq(S) /\ Len(s) = Len(t) + 1 /\ Len(t) \in Nat /\ Head(s) = s[1] /\ Head(s) \in S
      /\ \A i \in 1..Len(t) : t[i] = s[i + 1] /\ i + 1 \in 1..Len(s)
      /\ \A i \in 1..Len(s) : i = 1 \/ (i - 1 \in 1..Len(t) /\ (i - 1) + 1 = i)
      /\ 1 \in 1..Len(s)
  OBVIOUS
<1> HIDE DEF t
<1>2. /\ \A i, j \in 1..Len(s) : s[i] = s[j] => i = j
      /\ IsInjective(t) <=> \A i, j \in 1..Len(t) : t[i] = t[j] => i = j
  BY <1>1, RangeIs
<1>3. \A y : y \in Range(t) <=> y \in Range(s) /\ y # Head(s)
  <2> TAKE y
  <2>1. (y \in Range(t) <=> \E a \in 1..Len(t) : t[a] = y) /\ (y \in Range(s) <=> \E i \in 1..Len(s) : s[i] = y)
    BY <1>1, RangeIs
  <2>2. ASSUME y \in Range(t) PROVE y \in Range(s) /\ y # Head(s)
    <3>1. PICK a \in 1..Len(t) : t[a] = y
      BY <2>1, <2>2
    <3>2. s[a + 1] = y /\ a + 1 # 1 /\ a + 1 \in 1..Len(s)
      BY <1>1, <3>1
    <3> QED BY <1>1, <1>2, <2>1, <3>2
  <2>3. ASSUME y \in Range(s), y # Head(s) PROVE y \in Range(t)
    <3>1. PICK i \in 1..Len(s) : s[i] = y
      BY <2>1, <2>3
    <3>2. i - 1 \in 1..Len(t) /\ t[i - 1] = y
      BY <1>1, <2>3, <3>1
    <3> QED BY <2>1, <3>2
  <2> QED BY <2>2, <2>3
<1>4. IsInjective(t)
  BY <1>1, <1>2
<1>5. Range(t) = Range(s) \ {Head(s)} /\ Head(s) \in Range(s)
  <2>1. Head(s) \in Range(s)
    BY <1>1, RangeIs
  <2> QED BY <1>3, <2>1
<1> QED BY <1>1, <1>4, <1>5 DEF t

LEMMA FrontTyped ==
  ASSUME NEW S, NEW s \in Seq(S), s # <<>>
  PROVE  Front(s) \in Seq(S) /\ Last(s) \in S
<1>1. Len(s) \in Nat /\ Len(s) >= 1
  OBVIOUS
<1> QED BY <1>1 DEF Front, Last

(* The directories with news, in the order of their set. *)
LEMMA SetToSeqTyped ==
  ASSUME NEW S, NEW T \in SUBSET S, IsFiniteSet(T)
  PROVE  SetToSeq(T) \in Seq(S)
<1>1. Cardinality(T) \in Nat /\ ExistsBijection(1..Cardinality(T), T)
  BY FS_CardinalityType
<1>2. \E f \in [1..Cardinality(T) -> T] : IsInjective(f)
  BY <1>1, Zenon DEF ExistsBijection, Bijection, Injection
<1>3. SetToSeq(T) \in [1..Cardinality(T) -> T]
  BY <1>2, Zenon DEF SetToSeq
<1> QED BY <1>1, <1>3

(* Wherever a list of files changes, it changes in one of these ways.      *)
LEMMA OnlyListed ==
  ASSUME NEW s, ListOK(s), NEW gone
  PROVE  ListOK(Without(s, gone)) /\ Range(Without(s, gone)) = Range(s) \ gone
<1>1. s \in Seq(Files) /\ IsInjective(s)
  BY DEF ListOK
<1>2. Range(s) \subseteq Files
  BY <1>1, RangeIs
<1> QED BY <1>1, <1>2, OnlyRange DEF ListOK, Without

LEMMA AppendListed ==
  ASSUME NEW s, ListOK(s), NEW f \in Files, f \notin Range(s)
  PROVE  ListOK(Append(s, f)) /\ Range(Append(s, f)) = Range(s) \cup {f}
BY AppendRange DEF ListOK

LEMMA TailListed ==
  ASSUME NEW s, ListOK(s), s # <<>>
  PROVE  /\ ListOK(Tail(s)) /\ Head(s) \in Files /\ Head(s) \in Range(s)
         /\ Range(Tail(s)) = Range(s) \ {Head(s)}
BY TailRange DEF ListOK

LEMMA ContainsIs ==
  ASSUME NEW s, ListOK(s), NEW f
  PROVE  Contains(s, f) <=> f \in Range(s)
BY RangeIs DEF ListOK, Contains

(* What Hashes leaves of the list it took the file from: its head moves to *)
(* the end, or leaves it when it is done with.                             *)
LEMMA LeavesListed ==
  ASSUME ListOK(List)
  PROVE  /\ ListOK(Leaves)
         /\ \A f : f \in Range(Leaves) => f \in Range(List)
         /\ \A f : f \in Range(List) /\ (f # upd.file \/ ~upd.got) => f \in Range(Leaves)
<1> DEFINE l == List
<1>1. ListOK(l)
  OBVIOUS
<1> HIDE DEF l
<1>2. First(l) => l # <<>> /\ Head(l) = upd.file
  BY DEF First
<1>3. Leaves = IF upd.got /\ First(l) THEN Tail(l)
               ELSE IF upd.first /\ Len(l) > 1 /\ First(l) THEN Append(Tail(l), upd.file)
               ELSE l
  BY Zenon DEF Leaves, l
<1>4. CASE upd.got /\ First(l)
  BY <1>1, <1>2, <1>3, <1>4, TailListed DEF l
<1>5. CASE ~(upd.got /\ First(l)) /\ upd.first /\ Len(l) > 1 /\ First(l)
  <2>1. /\ ListOK(Tail(l)) /\ Range(Tail(l)) = Range(l) \ {upd.file}
        /\ upd.file \in Files /\ upd.file \in Range(l)
    BY <1>1, <1>2, <1>5, TailListed
  <2>2. /\ ListOK(Append(Tail(l), upd.file))
        /\ Range(Append(Tail(l), upd.file)) = Range(Tail(l)) \cup {upd.file}
    BY <2>1, AppendListed
  <2>3. Leaves = Append(Tail(l), upd.file)
    BY <1>3, <1>5
  <2> QED BY <2>1, <2>2, <2>3 DEF l
<1>6. CASE ~(upd.got /\ First(l)) /\ ~(upd.first /\ Len(l) > 1 /\ First(l))
  <2>1. Leaves = l
    BY <1>3, <1>6
  <2> QED BY <1>1, <2>1 DEF l
<1> QED BY <1>4, <1>5, <1>6

-----------------------------------------------------------------------------
(* Types.                                                                  *)

LEMMA InitTypes == Init => TypeOK
<1> SUFFICES ASSUME Init PROVE TypeOK
  OBVIOUS
<1>1. ListOK(<<>>)
  BY DEF ListOK, IsInjective
<1>2. NoRequest \in GetHashesResults
  BY DEF NoRequest, GetHashesResults, States
<1>3. upd \in Updater /\ main \in MainThread /\ hasher \in [hashing : BOOLEAN, toStop : BOOLEAN]
  BY DEF Init, Updater, UpdPlaces, MainThread, MainPlaces, Stopped
<1>4. ~hasher.hashing /\ upd.at = "compute"
  BY DEF Init, Stopped
<1>5. hash \in [Files -> SUBSET AllChunks] /\ \A f \in Files : hash[f] \subseteq Chunks(f)
  BY DEF Init
<1>6. request \in [Requests -> GetHashesResults]
  BY <1>2 DEF Init
<1>7. /\ toScan \in Seq(Roots) /\ faults \in 0..MaxFaults
      /\ ListOK(prioritized) /\ ListOK(others)
  BY <1>1, FaultsAssumption DEF Init
<1> QED BY <1>3, <1>4, <1>5, <1>6, <1>7, Zenon DEF Init, TypeOK

(* What del() does to the requests keeps their type. *)
LEMMA DeletedTyped ==
  ASSUME TypeOK, NEW gone, Deleted(gone)
  PROVE  cached' \subseteq Files /\ hash' = hash /\ request' \in [Requests -> GetHashesResults]
<1>1. [NoRequest EXCEPT !.state = "orphan"] \in GetHashesResults
  BY DEF NoRequest, GetHashesResults, States
<1> QED BY <1>1 DEF TypeOK, Deleted

LEMMA FailsTyped ==
  ASSUME TypeOK, Fails, upd.file \in Files
  PROVE  /\ faults' \in 0..MaxFaults /\ failed' \subseteq Files /\ hash' = hash
         /\ hasher' \in [hashing : BOOLEAN, toStop : BOOLEAN] /\ upd' \in Updater
         /\ ~hasher'.hashing /\ upd'.at = "ended"
<1>1. upd' \in Updater /\ upd'.at = "ended"
  BY DEF TypeOK, Fails, Updater, UpdPlaces
<1>2. faults' \in 0..MaxFaults
  BY FaultsAssumption DEF TypeOK, Fails, Fault
<1> QED BY <1>1, <1>2 DEF TypeOK, Fails, Stopped

LEMMA TypesStep ==
  ASSUME IInv, [Next]_vars
  PROVE  TypeOK'
<1>1. TypeOK /\ UpdaterOK /\ MainOK /\ QueuedOnce
  BY DEF IInv
<1>2. \A place \in UpdPlaces : [upd EXCEPT !.at = place] \in Updater /\ [upd EXCEPT !.at = place].at = place
  BY <1>1 DEF TypeOK, Updater
<1>3. hash \in [Files -> SUBSET AllChunks] /\ \A f \in Files : hash[f] \subseteq Chunks(f)
  BY <1>1 DEF TypeOK
<1>4. CASE Compute
  <2>1. upd' \in Updater /\ ~(upd'.at \in {"reading", "known"}) /\ toStopHashing' \in BOOLEAN
    BY <1>1, <1>2, <1>4 DEF Compute, Goes, UpdPlaces, TypeOK
  <2> QED BY <1>1, <1>4, <2>1 DEF Compute, TypeOK, world, roots, ends
<1>5. CASE Pick
  <2>1. List # <<>> => Head(List) \in Files
    BY <1>1, TailListed DEF List, TypeOK
  <2>2. upd' \in Updater /\ ~(upd'.at \in {"reading", "known"}) /\ crashed' \in BOOLEAN
    <3>1. CASE List # <<>>
      <4>1. [upd EXCEPT !.at = "start", !.file = Head(List)] \in Updater
        BY <1>1, <2>1, <3>1 DEF Updater, UpdPlaces, TypeOK
      <4> QED BY <1>1, <1>5, <3>1, <4>1 DEF Pick, Updater, TypeOK
    <3>2. CASE List = <<>>
      <4>1. upd \in Updater /\ upd.at = "pick"
        BY <1>1, <1>5 DEF Pick, TypeOK
      <4>2. \/ upd' = [upd EXCEPT !.first = FALSE]
            \/ upd' = [upd EXCEPT !.first = TRUE, !.at = "remove"]
        BY <1>5, <3>2 DEF Pick
      <4>3. crashed' = crashed
        BY <1>5, <3>2 DEF Pick
      <4>4. upd' \in Updater /\ upd'.at \in {"pick", "remove"}
        BY <4>1, <4>2 DEF Updater, UpdPlaces
      <4> QED BY <1>1, <4>3, <4>4 DEF TypeOK
    <3> QED BY <3>1, <3>2
  <2> QED BY <1>1, <1>5, <2>2 DEF Pick, TypeOK, world, lists, roots
<1>6. CASE HasherStarts
  <2>1. upd.file \in Files
    BY <1>1, <1>6 DEF HasherStarts, UpdaterOK, Computing
  <2>2. /\ faults' \in 0..MaxFaults /\ failed' \subseteq Files /\ hash' = hash
        /\ hasher' \in [hashing : BOOLEAN, toStop : BOOLEAN] /\ upd' \in Updater
        /\ hasher'.hashing <=> upd'.at \in {"reading", "known"}
    <3>1. CASE hasher.toStop
      <4>1. /\ hasher' = Stopped /\ UNCHANGED <<failed, faults, hash>>
            /\ upd' = [upd EXCEPT !.at = "ended", !.got = FALSE]
        BY <1>6, <3>1 DEF HasherStarts
      <4>2. upd' \in Updater /\ upd'.at = "ended"
        BY <1>1, <4>1 DEF TypeOK, Updater, UpdPlaces
      <4> QED BY <1>1, <4>1, <4>2 DEF Stopped, TypeOK
    <3>2. CASE hasher' = [hasher EXCEPT !.hashing = TRUE] /\ Goes("reading")
               /\ UNCHANGED <<failed, faults, hash>>
      BY <1>1, <1>2, <3>2 DEF TypeOK, Goes, UpdPlaces
    <3>3. CASE Fails
      BY <1>1, <2>1, <3>3, FailsTyped
    <3> QED BY <1>6, <3>1, <3>2, <3>3 DEF HasherStarts
  <2> QED BY <1>1, <1>3, <1>6, <2>2 DEF HasherStarts, TypeOK, world, lists, roots
<1>7. CASE HasherStops
  <2>1. upd' \in Updater /\ ~(upd'.at \in {"reading", "known"})
    BY <1>1, <1>7 DEF HasherStops, TypeOK, Updater, UpdPlaces
  <2>2. main' \in MainThread /\ hasher' \in [hashing : BOOLEAN, toStop : BOOLEAN] /\ ~hasher'.hashing
    BY <1>1, <1>7 DEF HasherStops, TypeOK, MainThread, MainPlaces, Stopped
  <2> QED BY <1>1, <1>7, <2>1, <2>2 DEF HasherStops, TypeOK, world, lists, roots, ends
<1>8. CASE HasherReads
  <2>1. upd.file \in Files
    BY <1>1, <1>8 DEF HasherReads, UpdaterOK, Computing
  <2>2. PICK c \in Chunks(upd.file) \ hash[upd.file] :
          /\ hash' = [hash EXCEPT ![upd.file] = @ \cup {c}]
          /\ upd' = [upd EXCEPT !.at = "known", !.chunk = c]
    BY <1>8 DEF HasherReads
  <2>3. c \in Nat /\ c \in AllChunks
    BY <2>1, FilesAssumption DEF Chunks, AllChunks
  <2>4. hash' \in [Files -> SUBSET AllChunks] /\ \A f \in Files : hash'[f] \subseteq Chunks(f)
    BY <1>3, <2>1, <2>2, <2>3
  <2>5. upd' \in Updater /\ upd'.at = "known" /\ hasher.hashing
    BY <1>1, <1>8, <2>2, <2>3 DEF HasherReads, TypeOK, Updater, UpdPlaces
  <2> QED BY <1>1, <1>8, <2>4, <2>5 DEF HasherReads, TypeOK, world, lists, roots, ends
<1>9. CASE HasherFindsAll
  <2>1. upd' \in Updater /\ ~(upd'.at \in {"reading", "known"})
    BY <1>1, <1>9 DEF HasherFindsAll, TypeOK, Updater, UpdPlaces
  <2> QED BY <1>1, <1>9, <2>1 DEF HasherFindsAll, Stopped, TypeOK, world, lists, roots, ends
<1>10. CASE HasherFails
  <2>1. upd.file \in Files
    BY <1>1, <1>10 DEF HasherFails, UpdaterOK, Computing
  <2>2. /\ faults' \in 0..MaxFaults /\ failed' \subseteq Files /\ hash' = hash
        /\ hasher' \in [hashing : BOOLEAN, toStop : BOOLEAN] /\ upd' \in Updater
        /\ ~hasher'.hashing /\ upd'.at = "ended"
    BY <1>1, <1>10, <2>1, FailsTyped DEF HasherFails
  <2> QED BY <1>1, <1>3, <1>10, <2>2 DEF HasherFails, TypeOK, world, lists, roots
<1>11. CASE HashKnown
  <2>1. upd' \in Updater /\ ~(upd'.at \in {"reading", "known"})
    BY <1>1, <1>11 DEF HashKnown, TypeOK, Updater, UpdPlaces
  <2>2. upd.file \in Files /\ upd.chunk \in AllChunks
    <3>1. upd.file \in Files /\ upd.chunk \in hash[upd.file]
      BY <1>1, <1>11 DEF HashKnown, UpdaterOK, Computing
    <3> QED BY <1>3, <3>1
  <2>3. request' \in [Requests -> GetHashesResults]
    <3> SUFFICES ASSUME NEW r \in Requests
                 PROVE  [request[r] EXCEPT !.remaining = @ \ {upd.chunk}, !.sent = @ \cup {upd.chunk}]
                          \in GetHashesResults
      BY <1>1, <1>11 DEF HashKnown, Heard, TypeOK
    <3> QED BY <1>1, <2>2 DEF TypeOK, GetHashesResults
  <2> QED BY <1>1, <1>11, <2>1, <2>3 DEF HashKnown, Stopped, TypeOK, world, lists, roots, ends
<1>12. CASE Hashes
  <2>1. upd' \in Updater /\ ~(upd'.at \in {"reading", "known"})
    BY <1>1, <1>12 DEF Hashes, TypeOK, Updater, UpdPlaces
  <2>2. ListOK(prioritized') /\ ListOK(others')
    <3>1. ListOK(List) /\ ListOK(prioritized) /\ ListOK(others)
      BY <1>1 DEF List, TypeOK
    <3>2. ListOK(Leaves)
      BY <3>1, LeavesListed
    <3> QED BY <1>12, <3>1, <3>2 DEF Hashes
  <2> QED BY <1>1, <1>12, <2>1, <2>2 DEF Hashes, TypeOK, world, roots, ends
<1>13. CASE RemoveRoots
  <2>1. \E place \in {"awaits root", "take", "awaits", "polls"} : upd' = [upd EXCEPT !.at = place]
    BY <1>13 DEF RemoveRoots, Goes
  <2>2. upd' \in Updater /\ ~(upd'.at \in {"reading", "known"})
    <3>1. PICK place \in {"awaits root", "take", "awaits", "polls"} : upd' = [upd EXCEPT !.at = place]
      BY <2>1
    <3>2. place \in UpdPlaces /\ place \notin {"reading", "known"}
      BY DEF UpdPlaces
    <3> QED BY <1>2, <3>1, <3>2
  <2>3. /\ cached' \subseteq Files /\ hash' = hash /\ request' \in [Requests -> GetHashesResults]
        /\ ~hasher.hashing
    BY <1>1, <1>13, DeletedTyped DEF RemoveRoots, TypeOK
  <2> QED BY <1>1, <1>3, <1>13, <2>2, <2>3 DEF RemoveRoots, TypeOK, world, lists, ends
<1>14. CASE Awakes
  <2>1. upd' \in Updater /\ ~(upd'.at \in {"reading", "known"})
    BY <1>1, <1>2, <1>14 DEF Awakes, Goes, UpdPlaces
  <2> QED BY <1>1, <1>14, <2>1 DEF Awakes, TypeOK, world, lists, ends
<1>15. CASE ProcessEvents
  <2> DEFINE known == {f \in events : RootOf[f] \in shared}
             news  == {RootOf[f] : f \in known \cap disk} \ Range(toScan)
             gone  == (known \ disk) \cap cached
  <2>1. DeleteEntries(gone) /\ toScan' = toScan \o SetToSeq(news)
    BY <1>15 DEF ProcessEvents
  <2>2. upd' \in Updater /\ ~(upd'.at \in {"reading", "known"})
    BY <1>1, <1>2, <1>15 DEF ProcessEvents, Goes, UpdPlaces
  <2>3. SetToSeq(news) \in Seq(Roots)
    <3>1. news \subseteq Roots
      BY <1>1, RootsAssumption DEF TypeOK
    <3> HIDE DEF news
    <3>2. IsFiniteSet(news)
      BY <3>1, RootsAssumption, FS_Subset
    <3> QED BY <3>1, <3>2, SetToSeqTyped
  <2> HIDE DEF gone, news
  <2>4. toScan' \in Seq(Roots)
    BY <1>1, <2>1, <2>3 DEF TypeOK
  <2>5. ListOK(prioritized') /\ ListOK(others') /\ Deleted(gone)
    BY <1>1, <2>1, OnlyListed DEF DeleteEntries, TypeOK
  <2>6. cached' \subseteq Files /\ hash' = hash /\ request' \in [Requests -> GetHashesResults]
    BY <1>1, <2>5, DeletedTyped
  <2> QED BY <1>1, <1>3, <1>15, <2>2, <2>4, <2>5, <2>6 DEF ProcessEvents, TypeOK, ends
<1>16. CASE TakeRoot
  <2>1. toScan # <<>> => Front(toScan) \in Seq(Roots) /\ Last(toScan) \in Roots
    BY <1>1, FrontTyped DEF TypeOK
  <2>2. toScan' \in Seq(Roots) /\ upd' \in Updater /\ ~(upd'.at \in {"reading", "known"})
    <3>1. CASE toScan = <<>>
      BY <1>1, <1>2, <1>16, <3>1 DEF TakeRoot, Goes, TypeOK, UpdPlaces
    <3>2. CASE toScan # <<>>
      <4>1. [upd EXCEPT !.at = "scan", !.root = Last(toScan)] \in Updater
        BY <1>1, <2>1, <3>2 DEF TypeOK, Updater, UpdPlaces
      <4> QED BY <1>1, <1>16, <2>1, <3>2, <4>1 DEF TakeRoot, TypeOK, Updater
    <3> QED BY <3>1, <3>2
  <2> QED BY <1>1, <1>16, <2>2 DEF TakeRoot, TypeOK, world, lists, ends
<1>17. CASE ScanBegins
  <2>1. upd' \in Updater /\ ~(upd'.at \in {"reading", "known"}) /\ scanning' \in Roots \cup {NoRoot}
    BY <1>1, <1>17 DEF ScanBegins, TypeOK, Updater, UpdPlaces, Under
  <2> QED BY <1>1, <1>17, <2>1 DEF ScanBegins, TypeOK, world, lists, ends
<1>18. ASSUME NEW f \in Files, ScanFile(f) PROVE TypeOK'
  <2>1. upd' \in Updater /\ upd'.at = upd.at /\ cached' \subseteq Files
    BY <1>1, <1>18 DEF ScanFile, TypeOK, Updater
  <2>2. hash' \in [Files -> SUBSET AllChunks] /\ \A g \in Files : hash'[g] \subseteq Chunks(g)
    BY <1>3, <1>18 DEF ScanFile
  <2>3. ListOK(others')
    BY <1>1, <1>18, AppendListed DEF ScanFile, Listed, TypeOK
  <2> QED BY <1>1, <1>18, <2>1, <2>2, <2>3 DEF ScanFile, TypeOK, world, roots, ends
<1>19. ASSUME ScanReturns
       PROVE  /\ upd' \in Updater /\ upd'.at = "compute" /\ scanning' \in Roots \cup {NoRoot}
              /\ main' \in MainThread
  BY <1>1, <1>19 DEF ScanReturns, TypeOK, Updater, UpdPlaces, MainThread, MainPlaces
<1>20. CASE ScanAborts
  BY <1>1, <1>19, <1>20 DEF ScanAborts, TypeOK, world, lists, ends
<1>21. CASE ScanEnds
  <2>1. ListOK(prioritized') /\ ListOK(others') /\ Deleted(upd.unseen)
    BY <1>1, <1>21, OnlyListed DEF ScanEnds, DeleteEntries, TypeOK
  <2>2. cached' \subseteq Files /\ hash' = hash /\ request' \in [Requests -> GetHashesResults]
    BY <1>1, <2>1, DeletedTyped
  <2> QED BY <1>1, <1>3, <1>19, <1>21, <2>1, <2>2 DEF ScanEnds, TypeOK, world, ends
<1>22. CASE Prioritize
  <2>1. main.file \in Files
    BY <1>1, <1>22 DEF Prioritize, MainOK
  <2>2. ListOK(prioritized') /\ ListOK(others') /\ toStopHashing' \in BOOLEAN
    <3>1. ListOK(Without(others, {main.file}))
      BY <1>1, OnlyListed DEF TypeOK
    <3>2. ~Contains(prioritized, main.file) => ListOK(Append(prioritized, main.file))
      BY <1>1, <2>1, AppendListed, ContainsIs DEF TypeOK
    <3> QED BY <1>1, <1>22, <3>1, <3>2 DEF Prioritize, TypeOK, lists
  <2>3. main' \in MainThread
    BY <1>1, <1>22 DEF Prioritize, TypeOK, MainThread, MainPlaces
  <2>4. request' \in [Requests -> GetHashesResults]
    <3>1. \A r \in Requests : [request[r] EXCEPT !.state = "waiting"] \in GetHashesResults
      BY <1>1 DEF TypeOK, GetHashesResults, States
    <3> QED BY <1>1, <1>22, <3>1 DEF Prioritize, TypeOK
  <2> QED BY <1>1, <1>22, <2>2, <2>3, <2>4 DEF Prioritize, TypeOK, world, roots, ends
<1>23. CASE RmStopsHasher
  <2>1. main' \in MainThread /\ hasher' \in [hashing : BOOLEAN, toStop : BOOLEAN] /\ hasher'.hashing = hasher.hashing
    BY <1>1, <1>23 DEF RmStopsHasher, MainGoes, TypeOK, MainThread, MainPlaces
  <2> QED BY <1>1, <1>23, <2>1 DEF RmStopsHasher, TypeOK, world, lists, roots, ends
<1>24. CASE RmEnds
  <2>1. main' \in MainThread /\ main.root \in Roots
    BY <1>1, <1>24 DEF RmEnds, MainOK, Removing, TypeOK, MainThread, MainPlaces
  <2>2. ListOK(prioritized') /\ ListOK(others')
    BY <1>1, <1>24, OnlyListed DEF RmEnds, TypeOK
  <2>3. toScan' \in Seq(Roots)
    BY <1>1, <1>24, OnlyRange DEF RmEnds, TypeOK
  <2> QED BY <1>1, <1>24, <2>1, <2>2, <2>3 DEF RmEnds, TypeOK, world, ends
<1>25. ASSUME NEW r \in Requests, Ends(r) PROVE TypeOK'
  <2>1. [NoRequest EXCEPT !.state = "ended"] \in GetHashesResults
    BY DEF NoRequest, GetHashesResults, States
  <2>2. request' \in [Requests -> GetHashesResults]
    BY <1>1, <1>25, <2>1 DEF Ends, TypeOK
  <2> QED BY <1>1, <1>25, <2>2 DEF Ends, TypeOK, world, lists, roots, ends
<1>26. ASSUME NEW r \in Requests, NEW f \in Files, NEW have \in SUBSET Chunks(f), Start(r, f, have)
       PROVE  TypeOK'
  <2>1. have \in SUBSET AllChunks
    BY DEF AllChunks
  <2>2. main' \in MainThread
    BY <1>1, <1>26 DEF Start, TypeOK, MainThread, MainPlaces
  <2>3. request' \in [Requests -> GetHashesResults]
    <3>1. [request[r] EXCEPT !.state = "refused"] \in GetHashesResults
      BY <1>1 DEF TypeOK, GetHashesResults, States
    <3>2. \A state \in States, sent, remaining \in SUBSET AllChunks :
            [state |-> state, file |-> f, have |-> have, sent |-> sent, remaining |-> remaining]
              \in GetHashesResults
      BY <2>1 DEF GetHashesResults
    <3>3. \A h : have \cap h \in SUBSET AllChunks /\ have \ h \in SUBSET AllChunks
      BY <2>1
    <3>4. "waiting" \in States /\ "started" \in States
      BY DEF States
    <3>5. \/ request' = [request EXCEPT ![r] = [@ EXCEPT !.state = "refused"]]
          \/ \E state \in {"waiting", "started"} :
               request' = [request EXCEPT ![r] = [state |-> state, file |-> f, have |-> have,
                 sent |-> have \cap hash[f], remaining |-> have \ hash[f]]]
      BY <1>26 DEF Start, ToBeSent
    <3>6. \E q \in GetHashesResults : request' = [request EXCEPT ![r] = q]
      BY <3>1, <3>2, <3>3, <3>4, <3>5
    <3> QED BY <1>1, <3>6 DEF TypeOK
  <2> QED BY <1>1, <1>26, <2>2, <2>3 DEF Start, TypeOK, world, lists, roots, ends
<1>27. ASSUME NEW root \in Roots, AddRoot(root) PROVE TypeOK'
  <2>1. toScan' \in Seq(Roots)
    BY <1>1, <1>27 DEF AddRoot, TypeOK
  <2> QED BY <1>1, <1>27, <2>1 DEF AddRoot, TypeOK, world, lists, ends
<1>28. ASSUME NEW root \in Roots, RmRoot(root) PROVE TypeOK'
  <2>1. toScan' \in Seq(Roots)
    BY <1>1, <1>28, OnlyRange DEF RmRoot, TypeOK
  <2>2. scanning' \in Roots \cup {NoRoot} /\ faults' \in 0..MaxFaults
    BY <1>1, <1>28, FaultsAssumption DEF RmRoot, Fault, TypeOK
  <2>3. main' \in MainThread
    <3>1. \E place \in {"awaits scan", "rm"} : main' = [main EXCEPT !.at = place, !.root = root]
      BY <1>28 DEF RmRoot
    <3> QED BY <1>1, <3>1 DEF TypeOK, MainThread, MainPlaces
  <2> QED BY <1>1, <1>28, <2>1, <2>2, <2>3 DEF RmRoot, TypeOK, world, lists
<1>29. ASSUME NEW f \in Files, UserChanges(f) PROVE TypeOK'
  <2>1. disk' \subseteq Files /\ events' \subseteq Files /\ faults' \in 0..MaxFaults
    BY <1>1, <1>29, FaultsAssumption DEF UserChanges, Fault, TypeOK
  <2> QED BY <1>1, <1>29, <2>1 DEF UserChanges, TypeOK, lists, roots
<1>30. CASE UNCHANGED vars
  BY <1>1, <1>30 DEF vars, lists, roots, ends, TypeOK
<1> QED
  BY <1>4, <1>5, <1>6, <1>7, <1>8, <1>9, <1>10, <1>11, <1>12, <1>13, <1>14, <1>15, <1>16, <1>17, <1>18,
     <1>20, <1>21, <1>22, <1>23, <1>24, <1>25, <1>26, <1>27, <1>28, <1>29, <1>30
  DEF Next, Hashing, Updating, Scanning, MainGoesOn, Peers, User

-----------------------------------------------------------------------------
(* What the three actors remember.                                         *)

LEMMA UpdaterStep ==
  ASSUME IInv, [Next]_vars
  PROVE  UpdaterOK'
<1>1. TypeOK /\ UpdaterOK /\ upd \in Updater /\ hash \in [Files -> SUBSET AllChunks]
  BY DEF IInv, TypeOK
<1>2. ASSUME upd'.at \notin Computing PROVE UpdaterOK'
  BY <1>2 DEF UpdaterOK, Computing
<1>3. ASSUME UNCHANGED <<upd, hash>>, failed' = failed PROVE UpdaterOK'
  BY <1>1, <1>3 DEF UpdaterOK, Hashed
<1>4. CASE Compute \/ RemoveRoots \/ Awakes \/ ProcessEvents \/ TakeRoot
  <2>1. upd'.at \in {"compute", "pick", "remove", "awaits root", "awaits", "polls", "take", "scan"}
    <3>1. \/ \E place \in {"compute", "pick", "remove", "awaits root", "awaits", "polls", "take"} :
               upd' = [upd EXCEPT !.at = place]
          \/ upd' = [upd EXCEPT !.at = "scan", !.root = Last(toScan)]
      BY <1>4, Zenon DEF Compute, RemoveRoots, Awakes, ProcessEvents, TakeRoot, Goes
    <3> QED BY <1>1, <3>1 DEF Updater
  <2> QED BY <1>2, <2>1 DEF Computing
<1>5. CASE ScanBegins \/ ScanAborts \/ ScanEnds \/ (\E f \in Files : ScanFile(f)) \/ Hashes
  <2>1. upd'.at \in {"compute", "pick", "remove", "scanning"}
    BY <1>1, <1>5 DEF ScanBegins, ScanAborts, ScanEnds, ScanReturns, ScanFile, Hashes, Updater
  <2> QED BY <1>2, <2>1 DEF Computing
<1>6. CASE Pick
  <2>1. CASE List = <<>>
    <3>1. /\ upd.at = "pick"
          /\ \/ upd' = [upd EXCEPT !.first = FALSE]
             \/ upd' = [upd EXCEPT !.first = TRUE, !.at = "remove"]
      BY <1>6, <2>1 DEF Pick
    <3> QED BY <1>1, <1>2, <3>1 DEF Updater, Computing
  <2>2. CASE List # <<>>
    <3>1. Head(List) \in Files
      BY <1>1, <2>2, TailListed DEF List, TypeOK
    <3>2. upd.at = "pick" /\ (upd' = [upd EXCEPT !.at = "start", !.file = Head(List)] \/ upd' = upd)
      BY <1>6, <2>2 DEF Pick
    <3> QED BY <1>1, <3>1, <3>2 DEF UpdaterOK, Updater, Computing
  <2> QED BY <2>1, <2>2
<1>7. ASSUME upd.at \in Computing, Fails PROVE UpdaterOK'
  <2>1. upd.file \in Files /\ upd'.at = "ended" /\ upd'.file = upd.file /\ upd.file \in failed'
    BY <1>1, <1>7 DEF UpdaterOK, Fails, Updater
  <2> QED BY <2>1 DEF UpdaterOK
<1>8. CASE HasherStarts
  <2>1. upd.file \in Files /\ upd.at \in Computing
    BY <1>1, <1>8 DEF HasherStarts, UpdaterOK, Computing
  <2>2. CASE Fails
    BY <1>7, <2>1, <2>2
  <2>3. CASE upd' = [upd EXCEPT !.at = "ended", !.got = FALSE] \/ upd' = [upd EXCEPT !.at = "reading"]
    BY <1>1, <2>1, <2>3 DEF UpdaterOK, Updater
  <2> QED BY <1>8, <2>2, <2>3 DEF HasherStarts, Goes
<1>9. CASE HasherStops
  BY <1>1, <1>9 DEF HasherStops, UpdaterOK, Updater, Computing
<1>10. CASE HasherReads
  <2>1. upd.file \in Files
    BY <1>1, <1>10 DEF HasherReads, UpdaterOK, Computing
  <2>2. PICK c \in Chunks(upd.file) \ hash[upd.file] :
          /\ \A d \in Chunks(upd.file) \ hash[upd.file] : c <= d
          /\ hash' = [hash EXCEPT ![upd.file] = @ \cup {c}]
          /\ upd' = [upd EXCEPT !.at = "known", !.chunk = c]
    BY <1>10 DEF HasherReads
  <2>3. upd'.at = "known" /\ upd'.chunk = c /\ upd'.file = upd.file
    BY <1>1, <2>2 DEF Updater
  <2>4. hash'[upd.file] = hash[upd.file] \cup {c} /\ c \in Nat /\ Chunks(upd.file) \subseteq Nat
    BY <1>1, <2>1, <2>2, FilesAssumption DEF Chunks
  <2>5. \A d \in Chunks(upd.file) : d < c => d \in hash[upd.file]
    BY <2>2, <2>4
  <2> QED BY <2>1, <2>3, <2>4, <2>5 DEF UpdaterOK
<1>11. CASE HasherFindsAll
  BY <1>1, <1>11 DEF HasherFindsAll, UpdaterOK, Updater, Computing, Hashed
<1>12. CASE HasherFails
  BY <1>7, <1>12 DEF HasherFails, Computing
<1>13. CASE HashKnown
  <2> DEFINE f == upd.file
             c == upd.chunk
  <2>1. /\ f \in Files /\ c \in hash[f] /\ \A d \in Chunks(f) : d < c => d \in hash[f]
        /\ hash[f] \subseteq Chunks(f)
    BY <1>1, <1>13 DEF HashKnown, UpdaterOK, Computing, TypeOK
  <2>2. upd' = [upd EXCEPT !.at = "ended", !.chunk = 1, !.got = (upd.chunk = NbChunk[upd.file])] /\ hash' = hash
    BY <1>13 DEF HashKnown
  <2>3. upd'.at = "ended" /\ upd'.file = f /\ (upd'.got <=> c = NbChunk[f])
    BY <1>1, <2>2 DEF Updater
  <2>4. c = NbChunk[f] => hash[f] = Chunks(f)
    <3>1. \A d \in Chunks(f) : c = NbChunk[f] => d < c \/ d = c
      BY <2>1, FilesAssumption DEF Chunks
    <3> QED BY <2>1, <3>1
  <2> QED BY <2>1, <2>2, <2>3, <2>4 DEF UpdaterOK, Hashed
<1>14. CASE UNCHANGED vars \/ MainGoesOn \/ Peers \/ User
  <2>1. UNCHANGED <<upd, hash>> /\ failed' = failed
    BY <1>14, Zenon DEF vars, ends, MainGoesOn, Prioritize, RmStopsHasher, RmEnds, Peers, Ends, Start, User, AddRoot,
      RmRoot, UserChanges
  <2> QED BY <1>3, <2>1
<1> QED
  BY <1>4, <1>5, <1>6, <1>8, <1>9, <1>10, <1>11, <1>12, <1>13, <1>14 DEF Next, Hashing, Updating, Scanning

LEMMA MainStep ==
  ASSUME IInv, [Next]_vars
  PROVE  MainOK'
<1>1. TypeOK /\ MainOK /\ main \in MainThread
  BY DEF IInv, TypeOK
<1>2. ASSUME UNCHANGED <<main, shared>> PROVE MainOK'
  BY <1>1, <1>2 DEF MainOK
<1>3. CASE UNCHANGED vars \/ Compute \/ Pick \/ HasherStarts \/ HasherReads \/ HasherFindsAll \/ HasherFails
           \/ HashKnown \/ Hashes
  BY <1>2, <1>3, Zenon DEF vars, roots, Compute, Pick, HasherStarts, HasherReads, HasherFindsAll, HasherFails,
    HashKnown, Hashes
<1>4. CASE Updating \/ ScanBegins \/ \E f \in Files : ScanFile(f) \/ UserChanges(f)
  BY <1>2, <1>4, Zenon DEF roots, Updating, RemoveRoots, Awakes, ProcessEvents, TakeRoot, ScanBegins, ScanFile,
    UserChanges
<1>5. CASE HasherStops
  <2>1. shared' = shared /\ (main' = main \/ (main.at = "awaits hasher" /\ main' = [main EXCEPT !.at = "removes"]))
    BY <1>5 DEF HasherStops, roots
  <2> QED BY <1>1, <2>1 DEF MainOK, MainThread, Removing
<1>6. CASE ScanAborts \/ ScanEnds
  <2>1. shared' = shared /\ (main' = main \/ (main.at = "awaits scan" /\ main' = [main EXCEPT !.at = "rm"]))
    BY <1>6 DEF ScanAborts, ScanEnds, ScanReturns
  <2> QED BY <1>1, <2>1 DEF MainOK, MainThread, Removing
<1>7. CASE Prioritize \/ RmEnds
  <2>1. main'.at = "idle"
    BY <1>1, <1>7 DEF Prioritize, RmEnds, MainThread
  <2> QED BY <2>1 DEF MainOK, Removing
<1>8. CASE RmStopsHasher
  <2>1. /\ shared' = shared /\ main.at = "rm"
        /\ \/ main' = [main EXCEPT !.at = "awaits hasher"]
           \/ main' = [main EXCEPT !.at = "removes"]
    BY <1>8 DEF RmStopsHasher, MainGoes, roots
  <2> QED BY <1>1, <2>1 DEF MainOK, MainThread, Removing
<1>9. ASSUME NEW r \in Requests, Ends(r) PROVE MainOK'
  BY <1>2, <1>9 DEF Ends, roots
<1>10. ASSUME NEW r \in Requests, NEW f \in Files, NEW have \in SUBSET Chunks(f), Start(r, f, have)
       PROVE  MainOK'
  <2>1. shared' = shared /\ (main' = main \/ main' = [main EXCEPT !.at = "asks", !.file = f])
    BY <1>10 DEF Start, roots
  <2> QED BY <1>1, <2>1 DEF MainOK, MainThread, Removing
<1>11. ASSUME NEW root \in Roots, AddRoot(root) PROVE MainOK'
  BY <1>1, <1>11 DEF AddRoot, MainOK, Removing
<1>12. ASSUME NEW root \in Roots, RmRoot(root) PROVE MainOK'
  <2>1. /\ root \notin shared'
        /\ \/ main' = [main EXCEPT !.at = "awaits scan", !.root = root]
           \/ main' = [main EXCEPT !.at = "rm", !.root = root]
    BY <1>12 DEF RmRoot
  <2> QED BY <1>1, <2>1 DEF MainOK, MainThread, Removing
<1> QED
  BY <1>3, <1>4, <1>5, <1>6, <1>7, <1>8, <1>9, <1>10, <1>11, <1>12
  DEF Next, Hashing, Scanning, MainGoesOn, Peers, User

LEMMA WaitsStep ==
  ASSUME IInv, [Next]_vars
  PROVE  WaitsEnd'
<1>1. /\ TypeOK /\ WaitsEnd /\ upd \in Updater /\ main \in MainThread
      /\ hasher \in [hashing : BOOLEAN, toStop : BOOLEAN]
      /\ hasher.hashing <=> upd.at \in {"reading", "known"}
  BY DEF IInv, TypeOK
<1>2. ASSUME UNCHANGED <<upd, main, hasher, scanning>> PROVE WaitsEnd'
  BY <1>1, <1>2 DEF WaitsEnd
<1>3. ASSUME UNCHANGED <<main, scanning>>, upd.at # "scanning", upd.at # "reading" \/ ~hasher.toStop
      PROVE  WaitsEnd'
  BY <1>1, <1>3 DEF WaitsEnd
<1>4. CASE Compute \/ Pick \/ HasherStarts \/ HasherReads \/ HasherFindsAll \/ HasherFails \/ HashKnown \/ Hashes
  <2>1. /\ UNCHANGED <<main, scanning>> /\ upd.at # "scanning"
        /\ upd.at # "reading" \/ ~hasher.toStop
    BY <1>4 DEF Compute, Pick, HasherStarts, HasherReads, HasherFindsAll, HasherFails, HashKnown, Hashes, roots
  <2> QED BY <1>3, <2>1
<1>5. CASE RemoveRoots \/ Awakes \/ ProcessEvents \/ TakeRoot
  <2>1. UNCHANGED <<main, scanning>> /\ upd.at # "scanning" /\ upd.at # "reading"
    BY <1>5 DEF RemoveRoots, Awakes, ProcessEvents, TakeRoot
  <2> QED BY <1>3, <2>1
<1>6. CASE HasherStops
  <2>1. /\ main'.at # "awaits hasher" /\ (main'.at = "awaits scan" => main.at = "awaits scan")
        /\ scanning' = scanning /\ upd.at = "reading"
    BY <1>1, <1>6 DEF HasherStops, roots, MainThread
  <2> QED BY <1>1, <2>1 DEF WaitsEnd
<1>7. CASE ScanBegins
  <2>1. upd'.at = "scanning" /\ main' = main /\ upd.at = "scan"
    BY <1>1, <1>7 DEF ScanBegins, Updater
  <2> QED BY <1>1, <2>1 DEF WaitsEnd
<1>8. ASSUME NEW f \in Files, ScanFile(f) PROVE WaitsEnd'
  <2>1. upd'.at = upd.at /\ UNCHANGED <<main, hasher, scanning>>
    BY <1>1, <1>8 DEF ScanFile, Updater, roots
  <2> QED BY <1>1, <2>1 DEF WaitsEnd
<1>9. CASE ScanAborts \/ ScanEnds
  <2>1. upd.at = "scanning" /\ scanning' = NoRoot /\ main'.at # "awaits scan"
        /\ (main'.at = "awaits hasher" => main.at = "awaits hasher")
    BY <1>1, <1>9 DEF ScanAborts, ScanEnds, ScanReturns, MainThread
  <2> QED BY <1>1, <2>1 DEF WaitsEnd
<1>10. CASE Prioritize \/ RmEnds
  <2>1. main'.at = "idle" /\ UNCHANGED <<upd, scanning>>
    BY <1>1, <1>10 DEF Prioritize, RmEnds, MainThread, roots
  <2> QED BY <1>1, <2>1 DEF WaitsEnd
<1>11. CASE RmStopsHasher
  <2>1. /\ main.at = "rm" /\ upd.at # "known" /\ UNCHANGED <<upd, scanning>>
        /\ hasher' = [hasher EXCEPT !.toStop = TRUE]
        /\ main' = [main EXCEPT !.at = IF hasher.hashing THEN "awaits hasher" ELSE "removes"]
    BY <1>11 DEF RmStopsHasher, MainGoes, HasherFree, roots
  <2>2. hasher'.toStop /\ hasher'.hashing = hasher.hashing
        /\ main'.at = IF hasher.hashing THEN "awaits hasher" ELSE "removes"
    BY <1>1, <2>1 DEF MainThread
  <2>3. hasher.hashing => upd.at = "reading"
    BY <1>1, <2>1
  <2>4. scanning' # NoRoot => upd'.at = "scanning"
    BY <1>1, <2>1 DEF WaitsEnd
  <2>5. CASE hasher.hashing
    <3>1. hasher'.hashing /\ hasher'.toStop
      BY <1>1, <2>1, <2>5
    <3>2. main'.at = "awaits hasher" /\ upd'.at = "reading"
      BY <2>1, <2>2, <2>3, <2>5
    <3> QED BY <2>4, <3>1, <3>2 DEF WaitsEnd
  <2>6. CASE ~hasher.hashing
    BY <2>2, <2>4, <2>6 DEF WaitsEnd
  <2> QED BY <2>5, <2>6
<1>12. ASSUME NEW r \in Requests, Ends(r) PROVE WaitsEnd'
  BY <1>2, <1>12 DEF Ends, roots
<1>13. ASSUME NEW r \in Requests, NEW f \in Files, NEW have \in SUBSET Chunks(f), Start(r, f, have)
       PROVE  WaitsEnd'
  <2>1. main'.at \in {"idle", "asks"} /\ UNCHANGED <<upd, scanning>>
    BY <1>1, <1>13 DEF Start, roots, MainThread
  <2> QED BY <1>1, <2>1 DEF WaitsEnd
<1>14. ASSUME NEW root \in Roots, AddRoot(root) PROVE WaitsEnd'
  BY <1>2, <1>14 DEF AddRoot
<1>15. ASSUME NEW root \in Roots, RmRoot(root) PROVE WaitsEnd'
  <2>1. /\ upd' = upd /\ main.at = "idle"
        /\ \/ scanning = root /\ scanning' = NoRoot /\ main' = [main EXCEPT !.at = "awaits scan", !.root = root]
           \/ scanning' = scanning /\ main' = [main EXCEPT !.at = "rm", !.root = root]
    BY <1>15 DEF RmRoot
  <2> QED BY <1>1, <2>1, RootsAssumption DEF WaitsEnd, MainThread
<1>16. ASSUME NEW f \in Files, UserChanges(f) PROVE WaitsEnd'
  BY <1>2, <1>16 DEF UserChanges, roots
<1>17. CASE UNCHANGED vars
  BY <1>2, <1>17 DEF vars, roots
<1> QED
  BY <1>4, <1>5, <1>6, <1>7, <1>8, <1>9, <1>10, <1>11, <1>12, <1>13, <1>14, <1>15, <1>16, <1>17
  DEF Next, Hashing, Updating, Scanning, MainGoesOn, Peers, User

LEMMA RequestsStep ==
  ASSUME IInv, [Next]_vars
  PROVE  RequestsOK'
<1>1. TypeOK /\ RequestsOK /\ request \in [Requests -> GetHashesResults]
  BY DEF IInv, TypeOK
<1>2. ASSUME \A r \in Requests : \/ request'[r].state \notin {"started", "waiting"}
                                 \/ /\ request[r].state \in {"started", "waiting"}
                                    /\ request'[r].file = request[r].file
                                 \/ request'[r].file \in Files
      PROVE  RequestsOK'
  BY <1>1, <1>2 DEF RequestsOK
<1>3. CASE UNCHANGED request
  BY <1>1, <1>3 DEF RequestsOK
<1>4. ASSUME NEW gone, Deleted(gone) PROVE RequestsOK'
  <2>1. [NoRequest EXCEPT !.state = "orphan"].state = "orphan"
    BY DEF NoRequest
  <2> QED BY <1>1, <1>4, <2>1 DEF Deleted, RequestsOK
<1>5. CASE HashKnown
  <2>1. \A r \in Requests : request'[r].state = request[r].state /\ request'[r].file = request[r].file
    BY <1>1, <1>5 DEF HashKnown, Heard, GetHashesResults
  <2> QED BY <1>1, <2>1 DEF RequestsOK
<1>6. CASE Prioritize
  <2>1. \A r \in Requests : \/ request'[r] = request[r]
                            \/ /\ request[r].state = "started" /\ request'[r].file = request[r].file
    BY <1>1, <1>6 DEF Prioritize, GetHashesResults
  <2> QED BY <1>1, <2>1 DEF RequestsOK
<1>7. ASSUME NEW r \in Requests, Ends(r) PROVE RequestsOK'
  <2>1. request'[r].state = "ended" /\ \A q \in Requests \ {r} : request'[q] = request[q]
    BY <1>1, <1>7 DEF Ends, NoRequest
  <2> QED BY <1>1, <2>1 DEF RequestsOK
<1>8. ASSUME NEW r \in Requests, NEW f \in Files, NEW have \in SUBSET Chunks(f), Start(r, f, have)
      PROVE  RequestsOK'
  <2>1. /\ request'[r].state = "refused" \/ request'[r].file = f
        /\ \A q \in Requests \ {r} : request'[q] = request[q]
    BY <1>1, <1>8 DEF Start, GetHashesResults
  <2> QED BY <1>1, <2>1 DEF RequestsOK
<1>9. CASE RemoveRoots \/ ProcessEvents \/ ScanEnds
  BY <1>4, <1>9 DEF RemoveRoots, ProcessEvents, ScanEnds, DeleteEntries
<1>10. CASE UNCHANGED vars \/ Compute \/ Pick \/ HasherStarts \/ HasherStops \/ HasherReads \/ HasherFindsAll
            \/ HasherFails \/ Hashes
  BY <1>3, <1>10, Zenon DEF vars, Compute, Pick, HasherStarts, HasherStops, HasherReads, HasherFindsAll, HasherFails,
    Hashes
<1>11. CASE Awakes \/ TakeRoot \/ ScanBegins \/ (\E f \in Files : ScanFile(f)) \/ ScanAborts \/ RmStopsHasher
            \/ RmEnds \/ User
  BY <1>3, <1>11, Zenon DEF Awakes, TakeRoot, ScanBegins, ScanFile, ScanAborts, RmStopsHasher, RmEnds, User, AddRoot,
    RmRoot, UserChanges
<1> QED
  BY <1>5, <1>6, <1>7, <1>8, <1>9, <1>10, <1>11 DEF Next, Hashing, Updating, Scanning, MainGoesOn, Peers

-----------------------------------------------------------------------------
(* The lists.                                                              *)

(* Every step but the scan of a file and the sharing of a directory only   *)
(* takes away reasons to be listed; it must take no file that has one.     *)
LEMMA StillQueued ==
  ASSUME QueuedOnce, failed \subseteq failed',
         \A f \in Files : ~(f \in Range(prioritized') /\ f \in Range(others')),
         \A f \in Files : f \in cached' /\ RootOf[f] \in shared' => f \in cached /\ RootOf[f] \in shared,
         \A f \in Files : Hashed(f) => Hashed(f)',
         \A f \in Files : f \in Listed /\ f \notin Listed' =>
                            \/ f \notin cached' \/ RootOf[f] \notin shared' \/ Hashed(f) \/ f \in failed'
  PROVE  QueuedOnce'
BY DEF QueuedOnce

LEMMA DeleteQueued ==
  ASSUME TypeOK, QueuedOnce, NEW gone, DeleteEntries(gone), shared' = shared, failed' = failed
  PROVE  QueuedOnce'
<1>1. /\ Range(prioritized') = Range(prioritized) \ gone
      /\ Range(others') = Range(others) \ gone
  BY OnlyListed DEF TypeOK, DeleteEntries
<1>2. cached' = cached \ gone /\ hash' = hash
  BY DEF DeleteEntries, Deleted
<1>3. \A f \in Files : ~(f \in Range(prioritized) /\ f \in Range(others))
  BY DEF QueuedOnce
<1>4. \A f \in Files : Hashed(f) => Hashed(f)'
  BY <1>2 DEF Hashed
<1>5. \A f \in Files : f \in Listed /\ f \notin Listed' => f \notin cached'
  BY <1>1, <1>2 DEF Listed
<1>6. \A f \in Files : f \in cached' /\ RootOf[f] \in shared' => f \in cached /\ RootOf[f] \in shared
  BY <1>2
<1>7. \A f \in Files : ~(f \in Range(prioritized') /\ f \in Range(others'))
  BY <1>1, <1>3
<1> QED BY <1>4, <1>5, <1>6, <1>7, StillQueued

LEMMA QueuedStep ==
  ASSUME IInv, [Next]_vars
  PROVE  QueuedOnce'
<1>1. TypeOK /\ QueuedOnce /\ UpdaterOK /\ MainOK /\ TypeOK'
  BY TypesStep DEF IInv
<1>2. \A f \in Files : ~(f \in Range(prioritized) /\ f \in Range(others))
  BY <1>1 DEF QueuedOnce
<1>3. ASSUME lists' = lists, shared' \subseteq shared, cached' \subseteq cached, failed \subseteq failed',
             \A f \in Files : Hashed(f) => Hashed(f)'
      PROVE  QueuedOnce'
  <2>1. prioritized' = prioritized /\ others' = others
    BY <1>3 DEF lists
  <2>2. Listed' = Listed
    BY <2>1 DEF Listed
  <2> QED BY <1>1, <1>2, <1>3, <2>1, <2>2, StillQueued
<1>4. ASSUME lists' = lists, shared' \subseteq shared, cached' \subseteq cached, failed \subseteq failed', hash' = hash
      PROVE  QueuedOnce'
  BY <1>3, <1>4 DEF Hashed
<1>5. CASE Pick \/ HasherStarts \/ HasherStops \/ HasherFindsAll \/ HasherFails \/ HashKnown
  <2>1. lists' = lists /\ shared' = shared /\ cached' = cached /\ failed \subseteq failed' /\ hash' = hash
    BY <1>5 DEF Pick, HasherStarts, HasherStops, HasherFindsAll, HasherFails, HashKnown, Fails, roots, ends
  <2> QED BY <1>4, <2>1
<1>6. CASE UNCHANGED vars \/ Awakes \/ TakeRoot \/ ScanBegins \/ ScanAborts \/ RmStopsHasher \/ Peers
  <2>1. lists' = lists /\ shared' = shared /\ cached' = cached /\ failed' = failed /\ hash' = hash
    BY <1>6 DEF vars, Awakes, TakeRoot, ScanBegins, ScanAborts, RmStopsHasher, Peers, Ends, Start, roots, ends
  <2> QED BY <1>4, <2>1
<1>7. CASE RemoveRoots
  <2>1. lists' = lists /\ shared' = shared /\ cached' \subseteq cached /\ failed' = failed /\ hash' = hash
    BY <1>7 DEF RemoveRoots, Deleted, ends
  <2> QED BY <1>4, <2>1
<1>8. CASE Compute
  <2>1. /\ prioritized' = prioritized /\ others' = others /\ shared' = shared /\ cached' = cached
        /\ failed' = failed /\ hash' = hash
    BY <1>8 DEF Compute, roots, ends
  <2>2. Listed' = Listed /\ \A f \in Files : Hashed(f) => Hashed(f)'
    BY <2>1 DEF Listed, Hashed
  <2> QED BY <1>1, <1>2, <2>1, <2>2, StillQueued
<1>9. CASE HasherReads
  <2>1. PICK c \in Chunks(upd.file) \ hash[upd.file] : hash' = [hash EXCEPT ![upd.file] = @ \cup {c}]
    BY <1>9 DEF HasherReads
  <2>2. \A f \in Files : Hashed(f) => Hashed(f)'
    <3>1. hash \in [Files -> SUBSET AllChunks] /\ \A f \in Files : hash'[f] \subseteq Chunks(f)
      BY <1>1 DEF TypeOK
    <3>2. \A f \in Files : hash[f] \subseteq hash'[f]
      BY <2>1, <3>1
    <3> QED BY <3>1, <3>2 DEF Hashed, Chunks
  <2>3. lists' = lists /\ shared' = shared /\ cached' = cached /\ failed' = failed
    BY <1>9 DEF HasherReads, roots, ends
  <2> QED BY <1>3, <2>2, <2>3
<1>10. CASE Hashes
  <2>1. ListOK(List) /\ ListOK(prioritized) /\ ListOK(others)
    BY <1>1 DEF List, TypeOK
  <2>2. /\ \A f : f \in Range(Leaves) => f \in Range(List)
        /\ \A f : f \in Range(List) /\ (f # upd.file \/ ~upd.got) => f \in Range(Leaves)
    BY <2>1, LeavesListed
  <2>3. upd.got => upd.file \in failed \/ Hashed(upd.file)
    BY <1>1, <1>10 DEF Hashes, UpdaterOK
  <2>4. shared' = shared /\ cached' = cached /\ failed' = failed /\ hash' = hash
    BY <1>10 DEF Hashes, roots, ends
  <2>5. CASE upd.first
    <3>1. prioritized' = Leaves /\ others' = others /\ List = prioritized
      BY <1>10, <2>5 DEF Hashes, List
    <3> HIDE DEF List
    <3>2. \A f \in Files : f \in Listed /\ f \notin Listed' => f \in failed \/ Hashed(f)
      BY <2>2, <2>3, <3>1 DEF Listed
    <3>3. \A f \in Files : ~(f \in Range(prioritized') /\ f \in Range(others'))
      BY <1>2, <2>2, <3>1
    <3>4. \A f \in Files : Hashed(f) => Hashed(f)'
      BY <2>4 DEF Hashed
    <3> QED BY <1>1, <2>4, <3>2, <3>3, <3>4, StillQueued
  <2>6. CASE ~upd.first
    <3>1. others' = Leaves /\ prioritized' = prioritized /\ List = others
      BY <1>10, <2>6 DEF Hashes, List
    <3>2. \A f \in Files : f \in Listed /\ f \notin Listed' => f \in failed \/ Hashed(f)
      BY <2>2, <2>3, <3>1 DEF Listed
    <3>3. \A f \in Files : ~(f \in Range(prioritized') /\ f \in Range(others'))
      BY <1>2, <2>2, <3>1
    <3>4. \A f \in Files : Hashed(f) => Hashed(f)'
      BY <2>4 DEF Hashed
    <3> QED BY <1>1, <2>4, <3>2, <3>3, <3>4, StillQueued
  <2> QED BY <2>5, <2>6
<1>11. CASE ProcessEvents
  <2>1. \E gone : DeleteEntries(gone)
    BY <1>11 DEF ProcessEvents
  <2>2. shared' = shared /\ failed' = failed
    BY <1>11 DEF ProcessEvents, ends
  <2> QED BY <1>1, <2>1, <2>2, DeleteQueued
<1>12. CASE ScanEnds
  <2>1. DeleteEntries(upd.unseen) /\ shared' = shared /\ failed' = failed
    BY <1>12 DEF ScanEnds, ends
  <2> QED BY <1>1, <2>1, DeleteQueued
<1>13. ASSUME NEW g \in Files, ScanFile(g) PROVE QueuedOnce'
  <2>1. /\ cached' = cached \cup {g} /\ shared' = shared /\ failed' = failed /\ prioritized' = prioritized
        /\ hash' = (IF g \in cached THEN hash ELSE [hash EXCEPT ![g] = {}])
        /\ others' = (IF hash'[g] = Chunks(g) \/ g \in Listed THEN others ELSE Append(others, g))
    BY <1>13 DEF ScanFile, roots, ends
  <2>2. \A f \in Files \ {g} : hash'[f] = hash[f]
    BY <1>1, <2>1 DEF TypeOK
  <2>3. Range(others) \subseteq Range(others') /\ Range(others') \subseteq Range(others) \cup {g}
        /\ (g \notin Listed /\ hash'[g] # Chunks(g) => g \in Range(others'))
        /\ (g \in Listed => others' = others)
    <3>1. CASE hash'[g] = Chunks(g) \/ g \in Listed
      BY <2>1, <3>1
    <3>2. CASE ~(hash'[g] = Chunks(g) \/ g \in Listed)
      <4>1. others' = Append(others, g) /\ g \notin Range(others)
        BY <2>1, <3>2 DEF Listed
      <4>2. Range(others') = Range(others) \cup {g}
        BY <1>1, <4>1, AppendListed DEF TypeOK
      <4> QED BY <3>2, <4>2
    <3> QED BY <3>1, <3>2
  <2>4. ASSUME NEW f \in Files PROVE ~(f \in Range(prioritized') /\ f \in Range(others'))
    BY <1>2, <2>1, <2>3 DEF Listed
  <2>5. ASSUME NEW f \in Files, f \in cached', RootOf[f] \in shared', ~Hashed(f)', f \notin failed'
        PROVE  f \in Listed'
    <3>1. CASE f = g
      BY <2>1, <2>3, <2>5, <3>1 DEF Listed, Hashed
    <3>2. CASE f # g
      <4>1. f \in Listed
        BY <1>1, <2>1, <2>2, <2>5, <3>2 DEF QueuedOnce, Hashed
      <4> QED BY <2>1, <2>3, <4>1 DEF Listed
    <3> QED BY <3>1, <3>2
  <2> QED BY <2>4, <2>5 DEF QueuedOnce
<1>14. CASE Prioritize
  <2> DEFINE g == main.file
  <2>1. g \in Files /\ ListOK(prioritized) /\ ListOK(others)
    BY <1>1, <1>14 DEF Prioritize, MainOK, TypeOK
  <2>2. /\ shared' = shared /\ cached' = cached /\ failed' = failed /\ hash' = hash
        /\ \/ lists' = lists
           \/ /\ others' = Without(others, {g})
              /\ prioritized' = IF Contains(prioritized, g) THEN prioritized ELSE Append(prioritized, g)
    BY <1>14 DEF Prioritize, roots, ends
  <2>3. CASE lists' = lists
    BY <1>4, <2>2, <2>3
  <2>4. CASE /\ others' = Without(others, {g})
             /\ prioritized' = IF Contains(prioritized, g) THEN prioritized ELSE Append(prioritized, g)
    <3> HIDE DEF g
    <3>1. Range(others') = Range(others) \ {g}
      BY <2>1, <2>4, OnlyListed
    <3>2. Range(prioritized') = Range(prioritized) \cup {g}
      <4>1. CASE Contains(prioritized, g)
        BY <2>1, <2>4, <4>1, ContainsIs
      <4>2. CASE ~Contains(prioritized, g)
        <5>1. g \notin Range(prioritized)
          BY <2>1, <4>2, ContainsIs
        <5> QED BY <2>1, <2>4, <4>2, <5>1, AppendListed
      <4> QED BY <4>1, <4>2
    <3>3. Listed \subseteq Listed' /\ \A f \in Files : ~(f \in Range(prioritized') /\ f \in Range(others'))
      BY <1>2, <3>1, <3>2 DEF Listed
    <3>4. \A f \in Files : Hashed(f) => Hashed(f)'
      BY <2>2 DEF Hashed
    <3> QED BY <1>1, <2>2, <3>3, <3>4, StillQueued
  <2> QED BY <2>2, <2>3, <2>4
<1>15. CASE RmEnds
  <2>1. main.root \notin shared
    BY <1>1, <1>15 DEF RmEnds, MainOK, Removing
  <2>2. /\ shared' = shared /\ cached' = cached /\ failed' = failed /\ hash' = hash
        /\ Range(prioritized') = Range(prioritized) \ Under({main.root})
        /\ Range(others') = Range(others) \ Under({main.root})
    BY <1>1, <1>15, OnlyListed DEF RmEnds, ends, TypeOK
  <2>3. \A f \in Files : f \in Listed /\ f \notin Listed' => RootOf[f] \notin shared'
    BY <2>1, <2>2 DEF Listed, Under
  <2>4. \A f \in Files : Hashed(f) => Hashed(f)'
    BY <2>2 DEF Hashed
  <2>5. \A f \in Files : ~(f \in Range(prioritized') /\ f \in Range(others'))
    BY <1>2, <2>2
  <2> QED BY <1>1, <2>2, <2>3, <2>4, <2>5, StillQueued
<1>16. ASSUME NEW root \in Roots, AddRoot(root) PROVE QueuedOnce'
  <2>1. /\ shared' = shared \cup {root} /\ Under({root}) \cap cached = {} /\ lists' = lists
        /\ cached' = cached /\ failed' = failed /\ hash' = hash
    BY <1>16 DEF AddRoot, ends
  <2>2. \A f \in Files : f \in cached' /\ RootOf[f] \in shared' => f \in cached /\ RootOf[f] \in shared
    BY <2>1 DEF Under
  <2>3. prioritized' = prioritized /\ others' = others /\ Listed' = Listed
    BY <2>1 DEF lists, Listed
  <2>4. \A f \in Files : Hashed(f) => Hashed(f)'
    BY <2>1 DEF Hashed
  <2> QED BY <1>1, <1>2, <2>1, <2>2, <2>3, <2>4, StillQueued
<1>17. ASSUME NEW root \in Roots, RmRoot(root) PROVE QueuedOnce'
  <2>1. lists' = lists /\ shared' \subseteq shared /\ cached' = cached /\ failed' = failed /\ hash' = hash
    BY <1>17 DEF RmRoot
  <2> QED BY <1>4, <2>1
<1>18. ASSUME NEW f \in Files, UserChanges(f) PROVE QueuedOnce'
  <2>1. lists' = lists /\ shared' = shared /\ cached' = cached /\ failed' = failed /\ hash' = hash
    BY <1>18 DEF UserChanges, roots
  <2> QED BY <1>4, <2>1
<1> QED
  BY <1>5, <1>6, <1>7, <1>8, <1>9, <1>10, <1>11, <1>12, <1>13, <1>14, <1>15, <1>16, <1>17, <1>18
  DEF Next, Hashing, Updating, Scanning, MainGoesOn, User

-----------------------------------------------------------------------------
(* The hashes sent.                                                        *)

(* A request owes nothing that is known but the hash being announced. *)
Owed(q) == \A c \in q.remaining \cap hash[q.file] : upd.at = "known" /\ upd.file = q.file /\ upd.chunk = c
Covered(q) == q.have \subseteq q.sent \cup q.remaining
Alive(q) == q.state \in {"started", "waiting"}

LEMMA MissedIs == NoHashMissed <=> \A r \in Requests : Alive(request[r]) => Covered(request[r]) /\ Owed(request[r])
BY Zenon DEF NoHashMissed, Alive, Covered, Owed

LEMMA MissedStep ==
  ASSUME IInv, [Next]_vars
  PROVE  NoHashMissed'
<1>1. /\ TypeOK /\ RequestsOK /\ UpdaterOK /\ upd \in Updater
      /\ request \in [Requests -> GetHashesResults] /\ hash \in [Files -> SUBSET AllChunks]
  BY DEF IInv, TypeOK
<1>2. \A r \in Requests : Alive(request[r]) =>
        Covered(request[r]) /\ Owed(request[r]) /\ request[r].file \in Files
  BY <1>1, MissedIs DEF IInv, RequestsOK, Alive
<1> SUFFICES ASSUME NEW r \in Requests, Alive(request'[r])
             PROVE  Covered(request'[r]) /\ Owed(request[r])'
  BY DEF NoHashMissed, Alive, Covered, Owed
<1>3. ASSUME request'[r] = request[r], hash'[request[r].file] \subseteq hash[request[r].file],
             upd.at # "known" \/ upd' = upd
      PROVE  Covered(request'[r]) /\ Owed(request[r])'
  BY <1>2, <1>3 DEF Owed
<1>4. CASE UNCHANGED vars \/ Compute \/ Pick \/ HasherStarts \/ HasherStops \/ HasherFindsAll \/ HasherFails
           \/ Hashes \/ Awakes \/ TakeRoot \/ ScanBegins \/ ScanAborts
  <2>1. UNCHANGED <<request, hash>> /\ (upd.at # "known" \/ upd' = upd)
    BY <1>4 DEF vars, Compute, Pick, HasherStarts, Fails, HasherStops, HasherFindsAll, HasherFails, Hashes,
      Awakes, TakeRoot, ScanBegins, ScanAborts
  <2> QED BY <1>3, <2>1
<1>5. CASE RmStopsHasher \/ RmEnds \/ User
  <2>1. UNCHANGED <<request, hash, upd>>
    BY <1>5, Zenon DEF RmStopsHasher, RmEnds, User, AddRoot, RmRoot, UserChanges
  <2> QED BY <1>3, <2>1
<1>6. CASE HasherReads
  <2>1. PICK c \in Chunks(upd.file) \ hash[upd.file] :
          /\ hash' = [hash EXCEPT ![upd.file] = @ \cup {c}]
          /\ upd' = [upd EXCEPT !.at = "known", !.chunk = c]
    BY <1>6 DEF HasherReads
  <2>2. upd'.at = "known" /\ upd'.chunk = c /\ upd'.file = upd.file /\ upd.at = "reading" /\ request' = request
    BY <1>1, <1>6, <2>1 DEF HasherReads, Updater
  <2>3. Covered(request[r]) /\ request[r].remaining \cap hash[request[r].file] = {} /\ request[r].file \in Files
    BY <1>2, <2>2 DEF Owed
  <2>4. \/ hash'[request[r].file] = hash[request[r].file]
        \/ request[r].file = upd.file /\ hash'[upd.file] = hash[upd.file] \cup {c}
    BY <1>1, <2>1, <2>3
  <2> QED BY <2>2, <2>3, <2>4 DEF Owed
<1>7. CASE HashKnown
  <2> DEFINE q == request[r]
  <2>1. /\ request'[r] = (IF Connected(r) /\ q.file = upd.file
                          THEN [q EXCEPT !.remaining = @ \ {upd.chunk}, !.sent = @ \cup {upd.chunk}] ELSE q)
        /\ hash' = hash /\ upd.at = "known"
    BY <1>7 DEF HashKnown, Heard
  <2>2. CASE Connected(r) /\ q.file = upd.file
    <3>1. /\ request'[r].remaining = q.remaining \ {upd.chunk} /\ request'[r].sent = q.sent \cup {upd.chunk}
          /\ request'[r].have = q.have /\ request'[r].file = q.file
      BY <1>1, <2>1, <2>2 DEF GetHashesResults
    <3>2. Covered(q) /\ \A c \in q.remaining \cap hash[q.file] : c = upd.chunk
      BY <1>2, <2>2 DEF Connected, Alive, Owed
    <3>3. Covered(request'[r])
      BY <3>1, <3>2 DEF Covered
    <3>4. request'[r].remaining \cap hash'[request'[r].file] = {}
      BY <2>1, <3>1, <3>2
    <3> QED BY <3>3, <3>4 DEF Owed
  <2>3. CASE ~(Connected(r) /\ q.file = upd.file)
    <3>1. request'[r] = q /\ Alive(q)
      BY <2>1, <2>3
    <3>2. q.remaining = {} \/ q.file # upd.file
      BY <2>3, <3>1 DEF Connected, Alive
    <3>3. Covered(q) /\ q.remaining \cap hash[q.file] = {}
      BY <1>2, <3>1, <3>2 DEF Owed
    <3> QED BY <2>1, <3>1, <3>3 DEF Owed
  <2> QED BY <2>2, <2>3
<1>8. ASSUME NEW gone, Deleted(gone), upd.at # "known" PROVE Covered(request'[r]) /\ Owed(request[r])'
  <2>1. [NoRequest EXCEPT !.state = "orphan"].state = "orphan"
    BY DEF NoRequest
  <2>2. request'[r] = request[r] /\ hash' = hash
    BY <1>8, <2>1 DEF Deleted, Alive
  <2> QED BY <1>3, <1>8, <2>2
<1>9. CASE RemoveRoots \/ ProcessEvents \/ ScanEnds
  BY <1>8, <1>9 DEF RemoveRoots, ProcessEvents, ScanEnds, DeleteEntries
<1>10. ASSUME NEW f \in Files, ScanFile(f) PROVE Covered(request'[r]) /\ Owed(request[r])'
  <2>1. request' = request /\ upd.at = "scanning" /\ hash' = (IF f \in cached THEN hash ELSE [hash EXCEPT ![f] = {}])
    BY <1>10 DEF ScanFile
  <2>2. request[r].file \in Files
    BY <1>2, <2>1
  <2>3. hash'[request[r].file] \subseteq hash[request[r].file]
    BY <1>1, <2>1, <2>2
  <2> QED BY <1>3, <2>1, <2>3
<1>11. CASE Prioritize
  <2>1. /\ request'[r] = (IF request[r].state = "started" THEN [request[r] EXCEPT !.state = "waiting"] ELSE request[r])
        /\ hash' = hash /\ upd' = upd
    BY <1>11 DEF Prioritize
  <2>2. /\ Alive(request[r]) /\ request'[r].file = request[r].file /\ request'[r].have = request[r].have
        /\ request'[r].sent = request[r].sent /\ request'[r].remaining = request[r].remaining
    BY <1>1, <2>1 DEF Alive, GetHashesResults
  <2>3. Covered(request[r]) /\ Owed(request[r])
    BY <1>2, <2>2
  <2> QED BY <2>1, <2>2, <2>3 DEF Owed, Covered
<1>12. ASSUME NEW s \in Requests, Ends(s) PROVE Covered(request'[r]) /\ Owed(request[r])'
  <2>1. r # s
    BY <1>1, <1>12 DEF Ends, Alive, NoRequest
  <2>2. UNCHANGED <<hash, upd>> /\ request'[r] = request[r]
    BY <1>1, <1>12, <2>1 DEF Ends
  <2> QED BY <1>3, <2>2
<1>13. ASSUME NEW s \in Requests, NEW f \in Files, NEW have \in SUBSET Chunks(f), Start(s, f, have)
       PROVE  Covered(request'[r]) /\ Owed(request[r])'
  <2>1. UNCHANGED <<hash, upd>>
    BY <1>13 DEF Start
  <2>2. CASE r # s
    <3>1. request'[r] = request[r]
      BY <1>1, <1>13, <2>2 DEF Start
    <3> QED BY <1>3, <2>1, <3>1
  <2>3. CASE r = s
    <3>1. \/ request'[r].state = "refused"
          \/ /\ request'[r].file = f /\ request'[r].have = have
             /\ request'[r].sent = have \cap hash[f] /\ request'[r].remaining = have \ hash[f]
      BY <1>1, <1>13, <2>3 DEF Start, ToBeSent, GetHashesResults
    <3>2. request'[r].state # "refused"
      BY DEF Alive
    <3> QED BY <2>1, <3>1, <3>2 DEF Covered, Owed
  <2> QED BY <2>2, <2>3
<1> QED
  BY <1>4, <1>5, <1>6, <1>7, <1>9, <1>10, <1>11, <1>12, <1>13
  DEF Next, Hashing, Updating, Scanning, MainGoesOn, Peers

-----------------------------------------------------------------------------
(* The theorems.                                                           *)

LEMMA InitIInv == Init => IInv
<1> SUFFICES ASSUME Init PROVE IInv
  OBVIOUS
<1>1. Range(prioritized) = {} /\ Range(others) = {}
  BY DEF Init, Range
<1>2. QueuedOnce
  BY <1>1 DEF Init, QueuedOnce
<1>3. NoHashMissed /\ RequestsOK
  BY DEF Init, NoHashMissed, RequestsOK, NoRequest
<1>4. UpdaterOK /\ MainOK
  BY DEF Init, UpdaterOK, MainOK, Computing, Removing
<1>5. WaitsEnd
  BY DEF Init, WaitsEnd
<1> QED BY <1>2, <1>3, <1>4, <1>5, InitTypes DEF IInv

LEMMA AlwaysIInv == Spec => []IInv
<1>1. Init => IInv
  BY InitIInv
<1>2. IInv /\ [Next]_vars => IInv'
  BY TypesStep, QueuedStep, MissedStep, UpdaterStep, MainStep, WaitsStep, RequestsStep DEF IInv
<1> QED BY <1>1, <1>2, PTL DEF Spec

(* Every variable has its type, no list has a file twice, and              *)
(* FileHasher::hashing is what it says: the wait of stop() is for a hasher *)
(* that works.                                                             *)
THEOREM TypeCorrect == Spec => []TypeOK
<1>1. IInv => TypeOK
  BY DEF IInv
<1> QED BY <1>1, AlwaysIInv, PTL

(* A shared file that lacks hashes is in exactly one of the two lists of   *)
(* FileUpdater, whatever is asked, scanned, shared or removed while        *)
(* computeSomeHashes() works at the head of one of them.                   *)
THEOREM FilesQueuedOnce == Spec => []QueuedOnce
<1>1. IInv => QueuedOnce
  BY DEF IInv
<1> QED BY <1>1, AlwaysIInv, PTL

(* GetHashesResult::start looks at the hashes and listens to the new ones  *)
(* with none lost between the two, and onChunkHashKnown tells everyone.    *)
THEOREM NoHashEverMissed == Spec => []NoHashMissed
<1>1. IInv => NoHashMissed
  BY DEF IInv
<1> QED BY <1>1, AlwaysIInv, PTL

(* The main thread, which waits in FileUpdater::rmRoot with the mutexes of *)
(* the updater, never waits for a scan or a hasher that has already ended: *)
(* the safety part of RemovalEnds.                                         *)
THEOREM NobodyWaitsInVain == Spec => []WaitsEnd
<1>1. IInv => WaitsEnd
  BY DEF IInv
<1> QED BY <1>1, AlwaysIInv, PTL
=============================================================================

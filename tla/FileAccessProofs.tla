-------------------------- MODULE FileAccessProofs --------------------------
(***************************************************************************)
(* Proofs about FileAccess, for every number of chunks, of buffers, of     *)
(* threads and of faults.  The four invariants of the runs hold together,  *)
(* with what each of them leans on: who holds which lock at which place,   *)
(* how many threads use an open file, and that the pool has at most one    *)
(* file open per path and mode.                                            *)
(***************************************************************************)
EXTENDS FileAccess, InductionFacts

Workers   == Chunks \cup Uploads
Finishing == {"locking", "releasing", "relocking", "renaming"}
Writers   == {"open", "closing", "written"} \cup Finishing
Linked    == object = "linked"

(* The threads that have been counted for a mode, and those at rest.       *)
UsesAt(m, t, place) ==
  IF m = "read" THEN (t \in Chunks /\ place = "hashed") \/ (t \in Uploads /\ place = "open")
  ELSE t \in Chunks /\ place \in Writers
Users(m) == {t \in Workers : UsesAt(m, t, pc[t])}
AtRest   == {t \in Workers : pc[t] = "idle"}

(* Each kind of thread has its places. *)
PlacesOf(t) ==
  IF t \in Chunks THEN {"idle", "hash", "hashed", "opening"} \cup Writers
  ELSE IF t \in Uploads THEN {"idle", "hash", "open"}
  ELSE {"idle", "removing", "unlinking", "closing file", "waiting"}
PlacesOK == pc \in [Threads -> Places] /\ \A t \in Threads : pc[t] \in PlacesOf(t)

TypesOK ==
  /\ known \in [Chunks -> 0..Buffers] /\ indexed \subseteq Chunks /\ complete \in BOOLEAN
  /\ count \in [Modes -> Nat] /\ handle \in [Modes -> {0} \cup Ids]
  /\ pool \subseteq Handles
  /\ disk \in [Paths -> {0} \cup Inodes]
  /\ content \in [Inodes -> SUBSET (Chunks \X (1..Buffers))]
  /\ mutex \in Threads \cup {NoThread} /\ ioLocks \in Threads \cup {NoThread}
  /\ object \in {"linked", "unlinked", "freed"} /\ crashed \in BOOLEAN
  /\ faults \in 0..MaxFaults /\ spoiled \subseteq {"read", "write", "rename"}

(* A user of an open file is counted until it leaves; so is an open that   *)
(* failed, and for ever one that is told late that the file has gone.      *)
CountedFor(m) ==
  IF Linked THEN count[m] = Cardinality(Users(m)) + (IF m \in spoiled THEN 1 ELSE 0)
  ELSE /\ Cardinality(Users(m)) <= count[m]
       /\ count[m] <= Cardinality(Users(m) \cup AtRest) + 1
UsersCounted == \A m \in Modes : CountedFor(m)

(* A chunk that is written is not full; one that completes the file has    *)
(* seen them all full.                                                     *)
KnownOK ==
  /\ complete => \A c \in Chunks : Full(c)
  /\ \A c \in Chunks :
       /\ pc[c] \in {"hash", "hashed", "opening", "open"} => known[c] < Buffers
       /\ pc[c] \in Finishing => ~complete /\ \A d \in Chunks : Full(d)

(* Who holds which lock. *)
LocksHeld ==
  /\ \A c \in Chunks :
       /\ pc[c] \in {"locking", "renaming"} => mutex = c
       /\ pc[c] \in {"releasing", "relocking"} => ioLocks = c
       /\ pc[c] = "renaming" => ioLocks = NoThread
       /\ pc[c] = "relocking" => pool = {}
  /\ \A r \in Removers :
       /\ pc[r] = "removing" => mutex = r /\ ~complete
       /\ pc[r] \in {"closing file", "waiting"} => ~Linked

(* The pool: one file per id, and one per path and mode.                   *)
PoolKeyed ==
  /\ \A g, h \in pool : g.id = h.id \/ (g.path = h.path /\ g.mode = h.mode) => g = h
  /\ \A h \in pool : ~h.released => h.id = handle[h.mode]
  /\ \A m \in Modes : count[m] = 0 => handle[m] = 0
  /\ ~complete => \A h \in pool : h.path = "unfinished"

HandlesOpen ==
  Linked /\ ioLocks = NoThread =>
    \A m \in Modes : handle[m] # 0 => \E h \in pool : h.id = handle[m] /\ h.mode = m /\ ~h.released

(* What is open to write is the file of the disk, if it is still there.    *)
WritesToDisk ==
  ~complete /\ disk.unfinished # 0 => \A h \in pool : h.mode = "write" => h.inode = disk.unfinished

(* No step uses what has been deleted while the chunks know their file. *)
NotCrashed == crashed => ~Linked

IInv ==
  /\ TypesOK /\ PlacesOK /\ UsersCounted /\ KnownOK /\ LocksHeld /\ PoolKeyed /\ HandlesOpen
  /\ WritesToDisk /\ KnownIsOnDisk /\ CompletedByLast /\ NotCrashed

(* The invariants of the runs are parts of it, the bound of the counts     *)
(* apart.                                                                  *)
-----------------------------------------------------------------------------
(* The pool is small: there is always an id and an inode to take.          *)

LEMMA SmallestOf ==
  ASSUME NEW U \in SUBSET Nat, U # {}
  PROVE  Min(U) \in U
<1>1. PICK n \in U : \A m \in U : n <= m
  BY LeastNatural
<1> QED BY <1>1 DEF Min

LEMMA WorkersFinite == IsFiniteSet(Workers) /\ Workers \subseteq Threads
<1>1. IsFiniteSet(Chunks)
  BY SizesAssumption, FS_Interval DEF Chunks
<1> QED BY <1>1, ThreadsAssumption, FS_Union DEF Workers, Threads

LEMMA TwoElements ==
  ASSUME NEW a, NEW b, a # b
  PROVE  IsFiniteSet({a, b}) /\ Cardinality({a, b}) = 2
<1>1. IsFiniteSet({a}) /\ Cardinality({a}) = 1
  BY FS_Singleton, Zenon
<1>2. /\ IsFiniteSet({a} \cup {b})
      /\ Cardinality({a} \cup {b}) = IF b \in {a} THEN Cardinality({a}) ELSE Cardinality({a}) + 1
  BY <1>1, FS_AddElement, Zenon
<1>3. {a, b} = {a} \cup {b} /\ b \notin {a}
  OBVIOUS
<1> QED BY <1>1, <1>2, <1>3

LEMMA KeysFour == IsFiniteSet(Paths \X Modes) /\ Cardinality(Paths \X Modes) = 4
<1>1. /\ IsFiniteSet(Paths) /\ Cardinality(Paths) = 2
      /\ IsFiniteSet(Modes) /\ Cardinality(Modes) = 2
  BY TwoElements DEF Paths, Modes
<1> QED BY <1>1, FS_Product

LEMMA IdsAre ==
  /\ Ids = 1..8 /\ Ids \subseteq Nat /\ Cardinality(Ids) = 8
  /\ Inodes = 1..16 /\ Inodes \subseteq Nat /\ Cardinality(Inodes) = 16
<1>1. /\ Cardinality(1..8) = (IF 1 > 8 THEN 0 ELSE 8 - 1 + 1)
      /\ Cardinality(1..16) = (IF 1 > 16 THEN 0 ELSE 16 - 1 + 1)
  <2>1. 1 \in Int /\ 8 \in Int /\ 16 \in Int
    OBVIOUS
  <2> QED BY <2>1, FS_Interval, Zenon
<1>2. Cardinality(1..8) = 8 /\ Cardinality(1..16) = 16
  BY <1>1
<1>3. Ids = 1..8
  BY KeysFour DEF Ids
<1>4. Inodes = 1..16
  BY <1>2, <1>3 DEF Inodes
<1> QED BY <1>2, <1>3, <1>4

LEMMA PoolSmall ==
  ASSUME TypesOK, PoolKeyed
  PROVE  IsFiniteSet(pool) /\ Cardinality(pool) <= 4
<1> DEFINE key == [h \in pool |-> <<h.path, h.mode>>]
<1>1. key \in Injection(pool, Paths \X Modes)
  <2>1. key \in [pool -> Paths \X Modes]
    BY DEF TypesOK, Handles
  <2>2. \A g, h \in pool : key[g] = key[h] => g = h
    BY DEF PoolKeyed
  <2> QED BY <2>1, <2>2 DEF Injection, IsInjective
<1> QED BY <1>1, KeysFour, FS_Injection

(* Taking an image of the pool does not make it larger. *)
LEMMA FreeId ==
  ASSUME TypesOK, PoolKeyed
  PROVE  Min(Ids \ {h.id : h \in pool}) \in Ids \ {h.id : h \in pool}
<1> DEFINE used == {h.id : h \in pool}
<1>1. IsFiniteSet(used) /\ Cardinality(used) <= 4
  <2> DEFINE id == [h \in pool |-> h.id]
  <2>1. id \in Surjection(pool, used)
    BY DEF Surjection
  <2>2. IsFiniteSet(used) /\ Cardinality(used) <= Cardinality(pool)
    BY <2>1, PoolSmall, FS_Surjection
  <2>3. Cardinality(used) \in Nat /\ Cardinality(pool) \in Nat
    BY <2>2, PoolSmall, FS_CardinalityType
  <2> QED BY <2>2, <2>3, PoolSmall
<1> HIDE DEF used
<1>2. Ids \ used # {}
  <2> SUFFICES ASSUME Ids \subseteq used PROVE FALSE
    OBVIOUS
  <2>1. Cardinality(Ids) <= Cardinality(used) /\ Cardinality(used) \in Nat
    BY <1>1, FS_Subset, FS_CardinalityType
  <2> QED BY <1>1, <2>1, IdsAre
<1>3. Ids \ used \in SUBSET Nat
  BY IdsAre
<1> QED BY <1>2, <1>3, SmallestOf DEF used

LEMMA FreeInode ==
  ASSUME TypesOK, PoolKeyed
  PROVE  FreshInode \in Inodes \ {disk[p] : p \in Paths}
<1> DEFINE open == {h.inode : h \in pool}
           used == {disk[p] : p \in Paths} \cup open
<1>1. IsFiniteSet(open) /\ Cardinality(open) <= 4
  <2> DEFINE inode == [h \in pool |-> h.inode]
  <2>1. inode \in Surjection(pool, open)
    BY DEF Surjection
  <2>2. IsFiniteSet(open) /\ Cardinality(open) <= Cardinality(pool)
    BY <2>1, PoolSmall, FS_Surjection
  <2>3. Cardinality(open) \in Nat /\ Cardinality(pool) \in Nat
    BY <2>2, PoolSmall, FS_CardinalityType
  <2> QED BY <2>2, <2>3, PoolSmall
<1>2. used = (open \cup {disk.unfinished}) \cup {disk.final}
  BY DEF Paths
<1> HIDE DEF open, used
<1>3. IsFiniteSet(used) /\ Cardinality(used) <= 6
  <2>1. ASSUME NEW S, NEW x, IsFiniteSet(S)
        PROVE  IsFiniteSet(S \cup {x}) /\ Cardinality(S \cup {x}) <= Cardinality(S) + 1
    <3>1. Cardinality(S) \in Nat
      BY <2>1, FS_CardinalityType
    <3> QED BY <2>1, <3>1, FS_AddElement
  <2>2. Cardinality(open) \in Nat
    BY <1>1, FS_CardinalityType
  <2>3. IsFiniteSet(open \cup {disk.unfinished}) /\ Cardinality(open \cup {disk.unfinished}) <= Cardinality(open) + 1
    BY <1>1, <2>1
  <2>4. IsFiniteSet(used) /\ Cardinality(used) <= Cardinality(open \cup {disk.unfinished}) + 1
    BY <1>2, <2>1, <2>3
  <2>5. Cardinality(open \cup {disk.unfinished}) \in Nat /\ Cardinality(used) \in Nat
    BY <2>3, <2>4, FS_CardinalityType
  <2> QED BY <1>1, <2>2, <2>3, <2>4, <2>5
<1>4. Inodes \ used # {}
  <2> SUFFICES ASSUME Inodes \subseteq used PROVE FALSE
    OBVIOUS
  <2>1. Cardinality(Inodes) <= Cardinality(used) /\ Cardinality(used) \in Nat
    BY <1>3, FS_Subset, FS_CardinalityType
  <2> QED BY <1>3, <2>1, IdsAre
<1>5. Inodes \ used \in SUBSET Nat
  BY IdsAre
<1>6. FreshInode = Min(Inodes \ used)
  BY DEF FreshInode, used, open
<1>7. Min(Inodes \ used) \in Inodes \ used
  BY <1>4, <1>5, SmallestOf
<1> QED BY <1>6, <1>7 DEF used

-----------------------------------------------------------------------------
(* The users of an open file.                                              *)

(* One thread more or less. *)
LEMMA OneMore ==
  ASSUME NEW U, NEW V, NEW t, IsFiniteSet(U), U \ {t} = V \ {t}
  PROVE  /\ IsFiniteSet(V) /\ Cardinality(U) \in Nat /\ Cardinality(V) \in Nat
         /\ Cardinality(V) + (IF t \in U THEN 1 ELSE 0) = Cardinality(U) + (IF t \in V THEN 1 ELSE 0)
<1>1. Cardinality(U) \in Nat
  BY FS_CardinalityType
<1>2. CASE (t \in U) <=> (t \in V)
  <2>1. U = V
    BY <1>2
  <2> QED BY <1>1, <1>2, <2>1
<1>3. CASE t \in U /\ t \notin V
  <2>1. V = U \ {t}
    BY <1>3
  <2>2. IsFiniteSet(V) /\ Cardinality(V) = Cardinality(U) - 1
    BY <1>3, <2>1, FS_RemoveElement
  <2>3. Cardinality(V) \in Nat
    BY <2>2, FS_CardinalityType
  <2> QED BY <1>1, <1>3, <2>2, <2>3
<1>4. CASE t \notin U /\ t \in V
  <2>1. V = U \cup {t}
    BY <1>4
  <2>2. IsFiniteSet(V) /\ Cardinality(V) = Cardinality(U) + 1
    BY <1>4, <2>1, FS_AddElement
  <2> QED BY <1>1, <1>4, <2>2
<1> QED BY <1>2, <1>3, <1>4

LEMMA UsersFinite ==
  ASSUME NEW m
  PROVE  /\ IsFiniteSet(Users(m)) /\ IsFiniteSet(Users(m) \cup AtRest)
         /\ Cardinality(Users(m)) \in Nat /\ Cardinality(Users(m) \cup AtRest) \in Nat
         /\ Cardinality(Users(m)) <= Cardinality(Users(m) \cup AtRest)
<1>1. IsFiniteSet(Users(m) \cup AtRest)
  <2>1. Users(m) \cup AtRest \subseteq Workers
    BY DEF Users, AtRest
  <2> QED BY <2>1, WorkersFinite, FS_Subset
<1>2. IsFiniteSet(Users(m)) /\ Cardinality(Users(m)) <= Cardinality(Users(m) \cup AtRest)
  BY <1>1, FS_Subset
<1> QED BY <1>1, <1>2, FS_CardinalityType

(* A thread that uses an open file is counted, so its count is not 0. *)
LEMMA UserIsCounted ==
  ASSUME TypesOK, UsersCounted, NEW m \in Modes, NEW t \in Workers, UsesAt(m, t, pc[t])
  PROVE  count[m] \in Nat /\ count[m] >= 1
<1>1. t \in Users(m)
  BY DEF Users
<1>2. Cardinality(Users(m)) \in Nat /\ Cardinality(Users(m)) # 0
  BY <1>1, UsersFinite, FS_EmptySet
<1>3. CountedFor(m) /\ count[m] \in Nat
  BY DEF UsersCounted, TypesOK
<1> QED BY <1>2, <1>3 DEF CountedFor

(* How the count of a mode must follow a thread that moves, while the      *)
(* chunks know their file and after.                                       *)
Bit(b) == IF b THEN 1 ELSE 0
Follows(m, t, place) ==
  IF Linked
  THEN count'[m] + Bit(UsesAt(m, t, pc[t])) + Bit(m \in spoiled)
         = count[m] + Bit(UsesAt(m, t, place)) + Bit(m \in spoiled')
  ELSE \/ /\ count'[m] = count[m]
          /\ UsesAt(m, t, place) => UsesAt(m, t, pc[t])
          /\ UsesAt(m, t, pc[t]) \/ pc[t] = "idle" => UsesAt(m, t, place) \/ place = "idle"
       \/ /\ count'[m] = count[m] + 1
          /\ ~UsesAt(m, t, pc[t]) /\ pc[t] # "idle"
          /\ UsesAt(m, t, place) \/ place = "idle"
       \/ /\ count'[m] = count[m] - 1
          /\ UsesAt(m, t, pc[t]) /\ ~UsesAt(m, t, place)

LEMMA CountFollows ==
  ASSUME TypesOK, PlacesOK, UsersCounted, NEW m \in Modes, NEW t \in Workers, NEW place,
         count'[m] \in Int, Goes(t, place), Linked' = Linked, Follows(m, t, place)
  PROVE  CountedFor(m)'
<1> DEFINE U == Users(m)
           V == Users(m)'
           A == U \cup AtRest
           B == V \cup AtRest'
<1>1. t \in Threads /\ pc'[t] = place /\ \A s \in Threads \ {t} : pc'[s] = pc[s]
  BY WorkersFinite DEF Goes, PlacesOK
<1>2. /\ U \ {t} = V \ {t} /\ A \ {t} = B \ {t}
      /\ t \in U <=> UsesAt(m, t, pc[t])
      /\ t \in V <=> UsesAt(m, t, place)
      /\ t \in A <=> UsesAt(m, t, pc[t]) \/ pc[t] = "idle"
      /\ t \in B <=> UsesAt(m, t, place) \/ place = "idle"
  BY <1>1, WorkersFinite DEF Users, AtRest, UsesAt
<1>3. IsFiniteSet(U) /\ IsFiniteSet(A) /\ Cardinality(U) <= Cardinality(A)
  BY UsersFinite
<1>4. V \subseteq B
  OBVIOUS
<1>5. count[m] \in Nat /\ CountedFor(m)
  BY DEF TypesOK, UsersCounted
<1> HIDE DEF U, V, A, B
<1>6. /\ Cardinality(U) \in Nat /\ Cardinality(V) \in Nat
      /\ Cardinality(V) + Bit(t \in U) = Cardinality(U) + Bit(t \in V)
  BY <1>2, <1>3, OneMore DEF Bit
<1>7. /\ Cardinality(A) \in Nat /\ Cardinality(B) \in Nat
      /\ Cardinality(B) + Bit(t \in A) = Cardinality(A) + Bit(t \in B)
  BY <1>2, <1>3, OneMore DEF Bit
<1>8. CASE Linked
  <2>1. count[m] = Cardinality(U) + Bit(m \in spoiled)
    BY <1>5, <1>8 DEF CountedFor, Bit, U
  <2>2. count'[m] + Bit(t \in U) + Bit(m \in spoiled) = count[m] + Bit(t \in V) + Bit(m \in spoiled')
    BY <1>2, <1>8 DEF Follows, Bit
  <2>3. count'[m] = Cardinality(V) + Bit(m \in spoiled')
    BY <1>6, <2>1, <2>2 DEF Bit
  <2> QED BY <1>8, <2>3 DEF CountedFor, Bit, V
<1>9. CASE ~Linked
  <2>1. Cardinality(U) <= count[m] /\ count[m] <= Cardinality(A) + 1
    BY <1>5, <1>9 DEF CountedFor, U, A
  <2>2. \/ count'[m] = count[m] /\ (t \in V => t \in U) /\ (t \in A => t \in B)
        \/ count'[m] = count[m] + 1 /\ t \notin A /\ t \in B
        \/ count'[m] = count[m] - 1 /\ t \in U /\ t \notin V
    BY <1>2, <1>9 DEF Follows
  <2>3. Cardinality(V) <= count'[m] /\ count'[m] <= Cardinality(B) + 1
    BY <1>2, <1>5, <1>6, <1>7, <2>1, <2>2 DEF Bit
  <2> QED BY <1>9, <2>3 DEF CountedFor, V, B
<1> QED BY <1>8, <1>9

-----------------------------------------------------------------------------
(* Types and places.                                                       *)

LEMMA ThreadsAre ==
  /\ \A c \in Chunks : c \in Threads /\ c \in Workers /\ c \notin Uploads /\ c \notin Removers
  /\ \A u \in Uploads : u \in Threads /\ u \in Workers /\ u \notin Chunks /\ u \notin Removers
  /\ \A r \in Removers : r \in Threads /\ r \notin Workers /\ r \notin Chunks /\ r \notin Uploads
  /\ \A t \in Threads : t # NoThread
BY ThreadsAssumption DEF Threads, Workers

LEMMA GoesPlaces ==
  ASSUME PlacesOK, NEW t \in Threads, NEW place \in PlacesOf(t), Goes(t, place)
  PROVE  PlacesOK' /\ pc'[t] = place /\ \A s \in Threads \ {t} : pc'[s] = pc[s]
<1>1. place \in Places
  BY DEF PlacesOf, Places, Writers, Finishing
<1> QED BY <1>1 DEF PlacesOK, Goes, PlacesOf

(* open() and release() of the pool. *)
LEMMA UseTyped ==
  ASSUME TypesOK, NEW m \in Modes, NEW h \in Handles, Use(m, h)
  PROVE  pool' \subseteq Handles /\ handle' \in [Modes -> {0} \cup Ids]
<1>1. [h EXCEPT !.released = FALSE] \in Handles
  BY DEF Handles
<1> QED BY <1>1 DEF TypesOK, Use, Handles

LEMMA NewHandleTyped ==
  ASSUME TypesOK, PoolKeyed, NEW m \in Modes, NEW inode \in Inodes
  PROVE  NewHandle(m, inode) \in Handles
BY FreeId DEF NewHandle, Handles, Path, Paths

LEMMA ReleasedTyped ==
  ASSUME TypesOK, NEW m
  PROVE  Released(m) \subseteq Handles
<1>1. \A h \in Handles : [h EXCEPT !.released = TRUE] \in Handles
  BY DEF Handles
<1> QED BY <1>1 DEF TypesOK, Released

LEMMA OpenReadTyped ==
  ASSUME TypesOK, PlacesOK, PoolKeyed, NEW t \in Threads, NEW ok \in PlacesOf(t),
         NEW fails \in PlacesOf(t), OpenRead(t, ok, fails)
  PROVE  TypesOK' /\ PlacesOK'
<1>1. PlacesOK'
  BY GoesPlaces DEF OpenRead
<1>2. disk[Path] \in {0} \cup Inodes /\ "read" \in Modes
  BY DEF TypesOK, Path, Paths, Modes
<1>3. pool' \subseteq Handles /\ handle' \in [Modes -> {0} \cup Ids]
  <2>1. CASE UNCHANGED <<handle, pool>>
    BY <2>1 DEF TypesOK
  <2>2. CASE \E h \in Reusable("read") : Use("read", h)
    BY <1>2, <2>2, UseTyped DEF Reusable, TypesOK
  <2>3. CASE disk[Path] # 0 /\ Use("read", NewHandle("read", disk[Path]))
    BY <1>2, <2>3, UseTyped, NewHandleTyped
  <2> QED BY <2>1, <2>2, <2>3 DEF OpenRead
<1>4. count' \in [Modes -> Nat]
  BY DEF OpenRead, TypesOK, Modes
<1>5. faults' \in 0..MaxFaults
  BY SizesAssumption DEF OpenRead, TypesOK, Fault
<1>6. spoiled' \subseteq {"read", "write", "rename"}
  BY DEF OpenRead, TypesOK
<1> QED BY <1>1, <1>3, <1>4, <1>5, <1>6 DEF OpenRead, TypesOK, data, locks, rest

LEMMA CloseReadTyped ==
  ASSUME TypesOK, PlacesOK, UsersCounted, NEW t \in Workers, NEW next \in PlacesOf(t),
         UsesAt("read", t, pc[t]), CloseRead(t, next)
  PROVE  TypesOK' /\ PlacesOK'
<1>1. PlacesOK'
  BY GoesPlaces, WorkersFinite DEF CloseRead
<1>2. count.read \in Nat /\ count.read >= 1
  BY UserIsCounted DEF Modes
<1>3. count' \in [Modes -> Nat]
  BY <1>2 DEF CloseRead, TypesOK, Modes
<1>4. pool' \subseteq Handles /\ handle' \in [Modes -> {0} \cup Ids]
  BY ReleasedTyped DEF CloseRead, TypesOK, Modes
<1> QED BY <1>1, <1>3, <1>4 DEF CloseRead, TypesOK, data, locks, rest

LEMMA CloseWriteTyped ==
  ASSUME TypesOK, PlacesOK, UsersCounted, NEW c \in Chunks,
         UsesAt("write", c, pc[c]), CloseWrite(c)
  PROVE  TypesOK' /\ PlacesOK'
<1>1. PlacesOK'
  <2>1. "idle" \in PlacesOf(c)
    BY DEF PlacesOf
  <2> QED BY <2>1, GoesPlaces, ThreadsAre DEF CloseWrite
<1>2. count.write \in Nat /\ count.write >= 1
  BY UserIsCounted, ThreadsAre DEF Modes
<1>3. count' \in [Modes -> Nat]
  BY <1>2 DEF CloseWrite, TypesOK, Modes
<1>4. pool' \subseteq Handles /\ handle' \in [Modes -> {0} \cup Ids]
  BY ReleasedTyped DEF CloseWrite, TypesOK, Modes
<1> QED BY <1>1, <1>3, <1>4 DEF CloseWrite, TypesOK, data, locks, rest

LEMMA OpenWriteTyped ==
  ASSUME TypesOK, PlacesOK, PoolKeyed, NEW c \in Chunks, OpenWrite(c)
  PROVE  TypesOK' /\ PlacesOK'
<1>1. PlacesOK'
  <2>1. "idle" \in PlacesOf(c) /\ "open" \in PlacesOf(c)
    BY DEF PlacesOf, Writers
  <2>2. Goes(c, "idle") \/ Goes(c, "open")
    BY DEF OpenWrite, Created
  <2> QED BY <2>1, <2>2, GoesPlaces, ThreadsAre
<1>2. disk[Path] \in {0} \cup Inodes /\ "write" \in Modes /\ FreshInode \in Inodes /\ Path \in Paths
  BY FreeInode DEF TypesOK, Path, Paths, Modes
<1>3. pool' \subseteq Handles /\ handle' \in [Modes -> {0} \cup Ids]
  <2>1. CASE UNCHANGED <<handle, pool>>
    BY <2>1 DEF TypesOK
  <2>2. CASE \E h \in Reusable("write") : Use("write", h)
    BY <1>2, <2>2, UseTyped DEF Reusable, TypesOK
  <2>3. CASE disk[Path] # 0 /\ Use("write", NewHandle("write", disk[Path]))
    BY <1>2, <2>3, UseTyped, NewHandleTyped
  <2>4. CASE Use("write", NewHandle("write", FreshInode))
    BY <1>2, <2>4, UseTyped, NewHandleTyped
  <2> QED BY <2>1, <2>2, <2>3, <2>4 DEF OpenWrite
<1>4. count' \in [Modes -> Nat]
  BY DEF OpenWrite, TypesOK, Modes
<1>5. faults' \in 0..MaxFaults
  BY SizesAssumption DEF OpenWrite, TypesOK, Fault
<1>6. /\ spoiled' \subseteq {"read", "write", "rename"}
      /\ known' \in [Chunks -> 0..Buffers] /\ indexed' \subseteq Chunks
      /\ disk' \in [Paths -> {0} \cup Inodes]
      /\ content' \in [Inodes -> SUBSET (Chunks \X (1..Buffers))]
  <2>1. CASE data' = data /\ (spoiled' = spoiled \/ spoiled' = spoiled \cup {"write"})
    BY <2>1 DEF data, TypesOK
  <2>2. CASE Created(c)
    <3>1. disk' \in [Paths -> {0} \cup Inodes] /\ content' \in [Inodes -> SUBSET (Chunks \X (1..Buffers))]
      BY <1>2, <2>2 DEF Created, TypesOK
    <3>2. CASE Linked
      <4>1. /\ known' = [d \in Chunks |-> 0] /\ indexed' \subseteq indexed
            /\ spoiled' = spoiled \/ spoiled' = spoiled \cup {"write"}
        BY <2>2, <3>2 DEF Created, Linked
      <4>2. known' \in [Chunks -> 0..Buffers]
        BY <4>1, SizesAssumption
      <4>3. indexed' \subseteq Chunks /\ spoiled' \subseteq {"read", "write", "rename"}
        BY <4>1 DEF TypesOK
      <4> QED BY <3>1, <4>2, <4>3
    <3>3. CASE ~Linked
      BY <2>2, <3>1, <3>3 DEF Created, Linked, TypesOK
    <3> QED BY <3>2, <3>3
  <2>3. (data' = data /\ (spoiled' = spoiled \/ spoiled' = spoiled \cup {"write"})) \/ Created(c)
    BY DEF OpenWrite
  <2> QED BY <2>1, <2>2, <2>3
<1> QED BY <1>1, <1>3, <1>4, <1>5, <1>6 DEF OpenWrite, TypesOK, locks, rest

(* An id that is open is that of one file of the pool. *)
LEMMA OpenedIs ==
  ASSUME NEW h \in pool, PoolKeyed
  PROVE  Opened(h.id) = h
<1>1. \E g \in pool : g.id = h.id
  OBVIOUS
<1>2. Opened(h.id) \in pool /\ Opened(h.id).id = h.id
  BY <1>1 DEF Opened
<1> QED BY <1>2 DEF PoolKeyed

LEMMA WritingTyped ==
  ASSUME TypesOK, PlacesOK, PoolKeyed, KnownOK, NEW c \in Chunks, Writing(c)
  PROVE  TypesOK' /\ PlacesOK'
<1>1. PlacesOK'
  <2>1. \A place \in {"idle", "open", "closing", "written"} : place \in PlacesOf(c)
    BY DEF PlacesOf, Writers
  <2>2. \E place \in {"idle", "open", "closing", "written"} : Goes(c, place)
    BY DEF Writing, Unless
  <2> QED BY <2>1, <2>2, GoesPlaces, ThreadsAre
<1>2. known[c] \in Nat /\ known[c] < Buffers
  BY SizesAssumption DEF Writing, KnownOK, TypesOK
<1>3. known' \in [Chunks -> 0..Buffers]
  <2>1. known[c] + 1 \in 0..Buffers /\ 0 \in 0..Buffers
    BY <1>2, SizesAssumption
  <2>2. \/ UNCHANGED known \/ known' = [known EXCEPT ![c] = @ + 1] \/ known' = [known EXCEPT ![c] = 0]
    BY DEF Writing
  <2> QED BY <2>1, <2>2 DEF TypesOK
<1>4. content' \in [Inodes -> SUBSET (Chunks \X (1..Buffers))]
  <2>1. CASE UNCHANGED content
    BY <2>1 DEF TypesOK
  <2>2. CASE ~UNCHANGED content
    <3>1. /\ handle.write \in {h.id : h \in pool}
          /\ content' = [content EXCEPT ![Opened(handle.write).inode] = @ \cup {<<c, known[c] + 1>>}]
      BY <2>2 DEF Writing
    <3>2. Opened(handle.write) \in pool
      BY <3>1, OpenedIs
    <3>3. Opened(handle.write).inode \in Inodes /\ <<c, known[c] + 1>> \in Chunks \X (1..Buffers)
      BY <1>2, <3>2, SizesAssumption DEF TypesOK, Handles
    <3> QED BY <3>1, <3>3 DEF TypesOK
  <2> QED BY <2>1, <2>2
<1>5. crashed' \in BOOLEAN
  BY DEF Writing, TypesOK
<1> QED BY <1>1, <1>3, <1>4, <1>5 DEF Writing, TypesOK, opened, locks

LEMMA TypesStep ==
  ASSUME IInv, [Next]_vars
  PROVE  TypesOK' /\ PlacesOK'
<1>1. TypesOK /\ PlacesOK /\ UsersCounted /\ KnownOK /\ LocksHeld /\ PoolKeyed
  BY DEF IInv
<1> USE DEF opened, data, locks, rest
<1>2. CASE UNCHANGED vars \/ PoolCloses
  BY <1>1, <1>2 DEF vars, PoolCloses, TypesOK, PlacesOK
<1>3. CASE UserDeletes
  BY <1>1, <1>3, SizesAssumption DEF UserDeletes, Fault, TypesOK, PlacesOK, Path, Paths
<1>4. ASSUME NEW c \in Chunks, Download(c) PROVE TypesOK' /\ PlacesOK'
  <2>1. c \in Threads /\ c \in Workers /\ \A place \in {"idle", "hash", "hashed", "opening"} : place \in PlacesOf(c)
    BY ThreadsAre DEF PlacesOf
  <2>2. CASE StartsRun(c)
    <3>1. PlacesOK'
      BY <1>1, <2>1, <2>2, GoesPlaces DEF StartsRun
    <3> QED BY <1>1, <2>2, <3>1 DEF StartsRun, TypesOK
  <2>3. CASE Hashing(c)
    BY <1>1, <2>1, <2>3, OpenReadTyped DEF Hashing, Unless
  <2>4. CASE Hashed(c)
    <3>1. UsesAt("read", c, pc[c])
      BY <2>4 DEF Hashed, UsesAt
    <3> QED BY <1>1, <2>1, <2>4, <3>1, CloseReadTyped DEF Hashed, Unless
  <2>5. CASE Opening(c)
    BY <1>1, <2>5, OpenWriteTyped DEF Opening
  <2>6. CASE Writing(c)
    BY <1>1, <2>6, WritingTyped
  <2>7. CASE EndsRun(c)
    <3>1. UsesAt("write", c, pc[c])
      BY <2>7 DEF EndsRun, UsesAt, Writers
    <3> QED BY <1>1, <2>7, <3>1, CloseWriteTyped DEF EndsRun
  <2> QED BY <1>4, <2>2, <2>3, <2>4, <2>5, <2>6, <2>7 DEF Download
<1>5. ASSUME NEW c \in Chunks, Completion(c) PROVE TypesOK' /\ PlacesOK'
  <2>1. /\ c \in Threads
        /\ \A place \in {"idle", "closing", "locking", "releasing", "relocking", "renaming"} : place \in PlacesOf(c)
    BY ThreadsAre DEF PlacesOf, Writers, Finishing
  <2>2. CASE ChunkComplete(c)
    <3>1. \E place \in {"idle", "closing", "locking", "renaming"} : Goes(c, place)
      BY <2>2 DEF ChunkComplete
    <3>2. PlacesOK'
      BY <1>1, <2>1, <3>1, GoesPlaces
    <3> QED BY <1>1, <2>1, <2>2, <3>2 DEF ChunkComplete, TypesOK
  <2>3. CASE TakesLocks(c)
    <3>1. PlacesOK'
      BY <1>1, <2>1, <2>3, GoesPlaces DEF TakesLocks
    <3> QED BY <1>1, <2>1, <2>3, <3>1 DEF TakesLocks, TypesOK
  <2>4. CASE ForceReleases(c)
    <3>1. PlacesOK'
      BY <1>1, <2>1, <2>4, GoesPlaces DEF ForceReleases
    <3> QED BY <1>1, <2>1, <2>4, <3>1 DEF ForceReleases, TypesOK
  <2>5. CASE Relocks(c)
    <3>1. PlacesOK'
      BY <1>1, <2>1, <2>5, GoesPlaces DEF Relocks
    <3> QED BY <1>1, <2>1, <2>5, <3>1 DEF Relocks, TypesOK
  <2>6. CASE Renames(c)
    <3>1. PlacesOK'
      BY <1>1, <2>1, <2>6, GoesPlaces DEF Renames, Unless
    <3>2. disk' \in [Paths -> {0} \cup Inodes] /\ complete' \in BOOLEAN
      BY <1>1, <2>6 DEF Renames, TypesOK, Paths
    <3>3. faults' \in 0..MaxFaults
      BY <1>1, <2>6, SizesAssumption DEF Renames, TypesOK, Fault
    <3>4. spoiled' \subseteq {"read", "write", "rename"}
      BY <1>1, <2>6 DEF Renames, TypesOK
    <3> QED BY <1>1, <2>1, <2>6, <3>1, <3>2, <3>4, <3>3 DEF Renames, TypesOK
  <2> QED BY <1>5, <2>2, <2>3, <2>4, <2>5, <2>6 DEF Completion
<1>6. ASSUME NEW u \in Uploads, Upload(u) PROVE TypesOK' /\ PlacesOK'
  <2>1. u \in Threads /\ u \in Workers /\ \A place \in {"idle", "hash", "open"} : place \in PlacesOf(u)
    BY ThreadsAre DEF PlacesOf
  <2>2. CASE StartsUpload(u)
    <3>1. PlacesOK'
      BY <1>1, <2>1, <2>2, GoesPlaces DEF StartsUpload
    <3> QED BY <1>1, <2>2, <3>1 DEF StartsUpload, TypesOK
  <2>3. CASE OpensUpload(u)
    BY <1>1, <2>1, <2>3, OpenReadTyped DEF OpensUpload, Unless
  <2>4. CASE EndsUpload(u)
    <3>1. UsesAt("read", u, pc[u])
      BY <2>4 DEF EndsUpload, UsesAt
    <3> QED BY <1>1, <2>1, <2>4, <3>1, CloseReadTyped DEF EndsUpload
  <2> QED BY <1>6, <2>2, <2>3, <2>4 DEF Upload
<1>7. ASSUME NEW r \in Removers, Removal(r) PROVE TypesOK' /\ PlacesOK'
  <2>1. /\ r \in Threads
        /\ \A place \in {"idle", "removing", "unlinking", "closing file", "waiting"} : place \in PlacesOf(r)
    BY ThreadsAre DEF PlacesOf
  <2>2. CASE StartsRemoval(r)
    <3>1. PlacesOK'
      BY <1>1, <2>1, <2>2, GoesPlaces DEF StartsRemoval
    <3> QED BY <1>1, <2>1, <2>2, <3>1 DEF StartsRemoval, TypesOK
  <2>3. CASE RemovesFile(r)
    <3>1. PlacesOK'
      BY <1>1, <2>1, <2>3, GoesPlaces DEF RemovesFile
    <3>2. disk' \in [Paths -> {0} \cup Inodes]
      BY <1>1, <2>3 DEF RemovesFile, TypesOK
    <3> QED BY <1>1, <2>3, <3>1, <3>2 DEF RemovesFile, TypesOK
  <2>4. CASE Unlinks(r)
    <3>1. PlacesOK'
      BY <1>1, <2>1, <2>4, GoesPlaces DEF Unlinks
    <3> QED BY <1>1, <2>4, <3>1 DEF Unlinks, TypesOK
  <2>5. CASE ClosesFile(r)
    <3>1. PlacesOK'
      BY <1>1, <2>1, <2>5, GoesPlaces DEF ClosesFile
    <3> QED BY <1>1, <2>5, <3>1 DEF ClosesFile, TypesOK
  <2>6. CASE Deletes(r)
    <3>1. PlacesOK'
      BY <1>1, <2>1, <2>6, GoesPlaces DEF Deletes
    <3> QED BY <1>1, <2>6, <3>1 DEF Deletes, TypesOK
  <2> QED BY <1>7, <2>2, <2>3, <2>4, <2>5, <2>6 DEF Removal
<1>8. ASSUME NEW t \in Chunks \cup Uploads, ToldLate(t) \/ UsesDeleted(t) PROVE TypesOK' /\ PlacesOK'
  <2>1. t \in Threads /\ "idle" \in PlacesOf(t)
    BY ThreadsAre DEF PlacesOf
  <2>2. PlacesOK'
    BY <1>1, <1>8, <2>1, GoesPlaces DEF ToldLate, UsesDeleted
  <2> QED BY <1>1, <1>8, <2>2 DEF ToldLate, UsesDeleted, TypesOK
<1> QED BY <1>2, <1>3, <1>4, <1>5, <1>6, <1>7, <1>8 DEF Next

-----------------------------------------------------------------------------
(* The counts of readers and of writers follow the threads.                *)

LEMMA NotSpoiledYet ==
  ASSUME TypesOK, UsersCounted, NEW m \in Modes, Linked, count[m] = 0
  PROVE  m \notin spoiled
<1>1. Cardinality(Users(m)) \in Nat
  BY UsersFinite
<1> QED BY <1>1 DEF UsersCounted, CountedFor

LEMMA UsersSame ==
  ASSUME TypesOK, UsersCounted, UNCHANGED <<count, spoiled>>, \A t \in Workers : pc'[t] = pc[t],
         Linked' => Linked
  PROVE  UsersCounted'
<1> SUFFICES ASSUME NEW m \in Modes PROVE CountedFor(m)'
  BY DEF UsersCounted
<1>1. Users(m)' = Users(m) /\ AtRest' = AtRest
  BY DEF Users, AtRest
<1>2. CountedFor(m) /\ count[m] \in Nat
  BY DEF UsersCounted, TypesOK
<1>3. /\ Cardinality(Users(m)) \in Nat /\ Cardinality(Users(m) \cup AtRest) \in Nat
      /\ Cardinality(Users(m)) <= Cardinality(Users(m) \cup AtRest)
  BY UsersFinite
<1> HIDE DEF Users, AtRest
<1> QED BY <1>1, <1>2, <1>3 DEF CountedFor

LEMMA UsersFollow ==
  ASSUME TypesOK, PlacesOK, UsersCounted, TypesOK', NEW t \in Workers, NEW place,
         Goes(t, place), Linked' = Linked, Follows("read", t, place), Follows("write", t, place)
  PROVE  UsersCounted'
<1>1. ASSUME NEW m \in Modes PROVE CountedFor(m)'
  <2>1. count'[m] \in Int /\ Follows(m, t, place)
    BY DEF TypesOK, Modes
  <2> QED BY <2>1, CountFollows
<1> QED BY <1>1 DEF UsersCounted

(* A thread that opens to read, one that stops reading: what it does with  *)
(* the count of the readers depends on where it goes.                      *)
LEMMA OpenReadFollows ==
  ASSUME TypesOK, PlacesOK, UsersCounted, TypesOK', NEW t \in Workers, NEW ok, NEW fails,
         OpenRead(t, ok, fails), ~UsesAt("read", t, pc[t]), ~UsesAt("write", t, pc[t]), pc[t] # "idle",
         ~UsesAt("write", t, ok), ~UsesAt("write", t, fails), ~UsesAt("read", t, fails),
         IF Linked THEN UsesAt("read", t, ok) ELSE (UsesAt("read", t, ok) \/ ok = "idle") /\ fails = "idle"
  PROVE  UsersCounted'
<1>1. "read" \in Modes /\ "write" \in Modes
  BY DEF Modes
<1>2. /\ count.read \in Nat /\ count.write \in Nat
      /\ count'["read"] = count.read + 1 /\ count'["write"] = count.write
  BY <1>1 DEF TypesOK, OpenRead
<1>3. Linked' = Linked
  BY DEF OpenRead, rest, Linked
<1>4. CASE Goes(t, ok) /\ spoiled' = spoiled
  <2>1. Follows("read", t, ok) /\ Follows("write", t, ok)
    BY <1>2, <1>4 DEF Follows, Bit
  <2> QED BY <1>3, <1>4, <2>1, UsersFollow
<1>5. CASE Goes(t, fails) /\ spoiled' = spoiled \cup {"read"} /\ count.read = 0
  <2>1. Linked => "read" \notin spoiled
    BY <1>1, <1>5, NotSpoiledYet
  <2>2. Follows("read", t, fails) /\ Follows("write", t, fails)
    BY <1>2, <1>5, <2>1 DEF Follows, Bit
  <2> QED BY <1>3, <1>5, <2>2, UsersFollow
<1> QED BY <1>4, <1>5 DEF OpenRead

LEMMA CloseReadFollows ==
  ASSUME TypesOK, PlacesOK, UsersCounted, TypesOK', NEW t \in Workers, NEW next,
         CloseRead(t, next), UsesAt("read", t, pc[t]), ~UsesAt("write", t, pc[t]), pc[t] # "idle",
         ~UsesAt("read", t, next), ~UsesAt("write", t, next)
  PROVE  UsersCounted'
<1>1. "read" \in Modes /\ "write" \in Modes
  BY DEF Modes
<1>2. /\ count.read \in Nat /\ count.write \in Nat /\ spoiled' = spoiled
      /\ count'["read"] = count.read - 1 /\ count'["write"] = count.write
  BY <1>1 DEF TypesOK, CloseRead
<1>3. Linked' = Linked /\ Goes(t, next)
  BY DEF CloseRead, rest, Linked
<1>4. Follows("read", t, next) /\ Follows("write", t, next)
  BY <1>2 DEF Follows, Bit
<1> QED BY <1>3, <1>4, UsersFollow

LEMMA OpenWriteFollows ==
  ASSUME TypesOK, PlacesOK, UsersCounted, TypesOK', NEW c \in Chunks, pc[c] = "opening", OpenWrite(c)
  PROVE  UsersCounted'
<1>1. "read" \in Modes /\ "write" \in Modes /\ c \in Workers
  BY ThreadsAre DEF Modes
<1>2. /\ count.read \in Nat /\ count.write \in Nat
      /\ count'["write"] = count.write + 1 /\ count'["read"] = count.read
  BY <1>1 DEF TypesOK, OpenWrite
<1>3. Linked' = Linked
  BY DEF OpenWrite, rest, Linked
<1>4. /\ UsesAt("write", c, "open") /\ ~UsesAt("write", c, "opening") /\ ~UsesAt("write", c, "idle")
      /\ ~UsesAt("read", c, "open") /\ ~UsesAt("read", c, "opening") /\ ~UsesAt("read", c, "idle")
  BY ThreadsAre DEF UsesAt, Writers, Finishing
<1>5. CASE Goes(c, "open") /\ spoiled' = spoiled
  <2>1. Follows("read", c, "open") /\ Follows("write", c, "open")
    BY <1>2, <1>4, <1>5 DEF Follows, Bit
  <2> QED BY <1>1, <1>3, <1>5, <2>1, UsersFollow
<1>6. CASE Goes(c, "idle") /\ spoiled' = spoiled \cup {"write"} /\ count.write = 0
  <2>1. Linked => "write" \notin spoiled
    BY <1>1, <1>6, NotSpoiledYet
  <2>2. Follows("read", c, "idle") /\ Follows("write", c, "idle")
    BY <1>2, <1>4, <1>6, <2>1 DEF Follows, Bit
  <2> QED BY <1>1, <1>3, <1>6, <2>2, UsersFollow
<1>7. CASE Goes(c, "idle") /\ spoiled' = spoiled /\ ~Linked
  <2>1. Follows("read", c, "idle") /\ Follows("write", c, "idle")
    BY <1>2, <1>4, <1>7 DEF Follows, Bit
  <2> QED BY <1>1, <1>3, <1>7, <2>1, UsersFollow
<1>8. CASE count.write = 0 /\ Created(c)
  <2>1. \/ Goes(c, "open") /\ spoiled' = spoiled
        \/ Goes(c, "idle") /\ spoiled' = spoiled \cup {"write"}
        \/ Goes(c, "idle") /\ spoiled' = spoiled /\ ~Linked
    BY <1>8 DEF Created, Linked
  <2> QED BY <1>5, <1>6, <1>7, <1>8, <2>1
<1> QED BY <1>5, <1>6, <1>8 DEF OpenWrite

LEMMA CloseWriteFollows ==
  ASSUME TypesOK, PlacesOK, UsersCounted, TypesOK', NEW c \in Chunks, pc[c] \in Writers, CloseWrite(c)
  PROVE  UsersCounted'
<1>1. "read" \in Modes /\ "write" \in Modes /\ c \in Workers
  BY ThreadsAre DEF Modes
<1>2. /\ count.read \in Nat /\ count.write \in Nat /\ spoiled' = spoiled
      /\ count'["write"] = count.write - 1 /\ count'["read"] = count.read
  BY <1>1 DEF TypesOK, CloseWrite
<1>3. Linked' = Linked /\ Goes(c, "idle")
  BY DEF CloseWrite, rest, Linked
<1>4. /\ UsesAt("write", c, pc[c]) /\ ~UsesAt("write", c, "idle")
      /\ ~UsesAt("read", c, pc[c]) /\ ~UsesAt("read", c, "idle") /\ pc[c] # "idle"
  BY ThreadsAre DEF UsesAt, Writers, Finishing
<1>5. Follows("read", c, "idle") /\ Follows("write", c, "idle")
  BY <1>2, <1>4 DEF Follows, Bit
<1> QED BY <1>1, <1>3, <1>5, UsersFollow

(* The other moves of a thread open and close nothing. *)
LEMMA MovesFollow ==
  ASSUME TypesOK, PlacesOK, UsersCounted, TypesOK', NEW t \in Workers, NEW place, Goes(t, place),
         UNCHANGED <<count, object>>, \A m \in Modes : m \in spoiled' <=> m \in spoiled,
         \A m \in Modes : IF Linked THEN UsesAt(m, t, place) <=> UsesAt(m, t, pc[t])
                          ELSE /\ UsesAt(m, t, place) => UsesAt(m, t, pc[t])
                               /\ place = "idle" \/ (UsesAt(m, t, place) /\ pc[t] # "idle")
                                  \/ (~UsesAt(m, t, pc[t]) /\ pc[t] # "idle")
  PROVE  UsersCounted'
<1>1. \A m \in Modes : count[m] \in Nat
  BY DEF TypesOK
<1>2. Follows("read", t, place) /\ Follows("write", t, place)
  BY <1>1 DEF Follows, Bit, Modes
<1>3. Linked' = Linked
  BY DEF Linked
<1> QED BY <1>2, <1>3, UsersFollow

LEMMA UsersStep ==
  ASSUME IInv, TypesOK', [Next]_vars
  PROVE  UsersCounted'
<1>1. TypesOK /\ PlacesOK /\ UsersCounted /\ LocksHeld
  BY DEF IInv
<1> USE DEF opened, data, locks, rest
<1>2. CASE UNCHANGED vars \/ PoolCloses \/ UserDeletes
  BY <1>1, <1>2, UsersSame DEF vars, PoolCloses, UserDeletes, Linked
<1>3. ASSUME NEW c \in Chunks, Download(c) PROVE UsersCounted'
  <2>1. /\ c \in Workers
        /\ \A place : UsesAt("read", c, place) <=> place = "hashed"
        /\ \A place : UsesAt("write", c, place) <=> place \in Writers
    BY ThreadsAre DEF UsesAt
  <2> USE DEF Writers, Finishing, Modes
  <2>2. CASE StartsRun(c)
    <3>1. \E place \in {"hash", "opening"} : Goes(c, place)
      BY <2>2 DEF StartsRun
    <3>2. UNCHANGED <<count, spoiled, object>> /\ Linked /\ pc[c] = "idle"
      BY <2>2 DEF StartsRun, Linked
    <3> QED BY <1>1, <2>1, <3>1, <3>2, MovesFollow
  <2>3. CASE Hashing(c)
    <3>1. OpenRead(c, "hashed", Unless("idle", "opening")) /\ pc[c] = "hash"
      BY <2>3 DEF Hashing
    <3>2. Unless("idle", "opening") = IF Linked THEN "opening" ELSE "idle"
      BY DEF Unless, Linked
    <3> QED BY <1>1, <2>1, <3>1, <3>2, OpenReadFollows
  <2>4. CASE Hashed(c)
    <3>1. CloseRead(c, Unless("idle", "opening")) /\ pc[c] = "hashed"
      BY <2>4 DEF Hashed
    <3>2. Unless("idle", "opening") \in {"opening", "idle"}
      BY DEF Unless
    <3> QED BY <1>1, <2>1, <3>1, <3>2, CloseReadFollows
  <2>5. CASE Opening(c)
    BY <1>1, <2>5, OpenWriteFollows DEF Opening
  <2>6. CASE Writing(c)
    <3>1. \E place \in {"idle", "open", "closing", "written"} : Goes(c, place) /\ (Linked => place # "idle")
      BY <2>6 DEF Writing, Unless, Linked
    <3>2. UNCHANGED <<count, spoiled, object>> /\ pc[c] = "open"
      BY <2>6 DEF Writing
    <3> QED BY <1>1, <2>1, <3>1, <3>2, MovesFollow
  <2>7. CASE EndsRun(c)
    BY <1>1, <2>7, CloseWriteFollows DEF EndsRun
  <2> QED BY <1>3, <2>2, <2>3, <2>4, <2>5, <2>6, <2>7 DEF Download
<1>4. ASSUME NEW c \in Chunks, Completion(c) PROVE UsersCounted'
  <2>1. /\ c \in Workers
        /\ \A place : UsesAt("read", c, place) <=> place = "hashed"
        /\ \A place : UsesAt("write", c, place) <=> place \in Writers
    BY ThreadsAre DEF UsesAt
  <2>2. /\ pc[c] \in {"written"} \cup Finishing
        /\ \E place \in {"idle", "closing"} \cup Finishing : Goes(c, place) /\ (Linked => place # "idle")
    BY <1>4 DEF Completion, ChunkComplete, TakesLocks, ForceReleases, Relocks, Renames, Unless,
                Linked, Finishing
  <2>3. UNCHANGED <<count, object>>
    BY <1>4 DEF Completion, ChunkComplete, TakesLocks, ForceReleases, Relocks, Renames
  <2>4. \A m \in Modes : m \in spoiled' <=> m \in spoiled
    BY <1>4 DEF Completion, ChunkComplete, TakesLocks, ForceReleases, Relocks, Renames, Modes
  <2> QED BY <1>1, <2>1, <2>2, <2>3, <2>4, MovesFollow DEF Writers, Finishing, Modes
<1>5. ASSUME NEW u \in Uploads, Upload(u) PROVE UsersCounted'
  <2>1. /\ u \in Workers
        /\ \A place : UsesAt("read", u, place) <=> place = "open"
        /\ \A place : ~UsesAt("write", u, place)
    BY ThreadsAre DEF UsesAt
  <2> USE DEF Modes
  <2>2. CASE StartsUpload(u)
    <3>1. Goes(u, "hash") /\ UNCHANGED <<count, spoiled, object>> /\ Linked /\ pc[u] = "idle"
      BY <2>2 DEF StartsUpload, Linked
    <3> QED BY <1>1, <2>1, <3>1, MovesFollow
  <2>3. CASE OpensUpload(u)
    <3>1. OpenRead(u, Unless("idle", "open"), "idle") /\ pc[u] = "hash"
      BY <2>3 DEF OpensUpload
    <3>2. Unless("idle", "open") = IF Linked THEN "open" ELSE "idle"
      BY DEF Unless, Linked
    <3> QED BY <1>1, <2>1, <3>1, <3>2, OpenReadFollows
  <2>4. CASE EndsUpload(u)
    <3>1. CloseRead(u, "idle") /\ pc[u] = "open"
      BY <2>4 DEF EndsUpload
    <3> QED BY <1>1, <2>1, <3>1, CloseReadFollows
  <2> QED BY <1>5, <2>2, <2>3, <2>4 DEF Upload
<1>6. ASSUME NEW r \in Removers, Removal(r) PROVE UsersCounted'
  <2>1. \A t \in Workers : pc'[t] = pc[t]
    <3>1. r \notin Workers
      BY ThreadsAre
    <3>2. \E place : Goes(r, place)
      BY <1>6 DEF Removal, StartsRemoval, RemovesFile, Unlinks, ClosesFile, Deletes
    <3> QED BY <1>1, <3>1, <3>2, WorkersFinite DEF Goes, PlacesOK
  <2>2. UNCHANGED <<count, spoiled>>
    BY <1>6 DEF Removal, StartsRemoval, RemovesFile, Unlinks, ClosesFile, Deletes
  <2>3. Linked' => Linked
    BY <1>6 DEF Removal, StartsRemoval, RemovesFile, Unlinks, ClosesFile, Deletes, Linked
  <2> QED BY <1>1, <2>1, <2>2, <2>3, UsersSame
<1>7. ASSUME NEW t \in Chunks \cup Uploads, ToldLate(t) \/ UsesDeleted(t) PROVE UsersCounted'
  <2>1. Goes(t, "idle") /\ UNCHANGED <<count, spoiled, object>> /\ ~Linked /\ t \in Workers
    BY <1>7 DEF ToldLate, UsesDeleted, Linked, Workers
  <2>2. \A m \in Modes : ~UsesAt(m, t, "idle")
    BY DEF UsesAt, Writers, Finishing, Modes
  <2> QED BY <1>1, <2>1, <2>2, MovesFollow
<1> QED BY <1>2, <1>3, <1>4, <1>5, <1>6, <1>7 DEF Next

-----------------------------------------------------------------------------
(* What the chunks know.                                                   *)

LEMMA NobodyWrites ==
  ASSUME TypesOK, UsersCounted, count.write = 0, NEW c \in Chunks
  PROVE  pc[c] \notin Writers
<1>1. c \in Workers /\ "write" \in Modes
  BY ThreadsAre DEF Modes
<1>2. ~UsesAt("write", c, pc[c])
  BY <1>1, UserIsCounted
<1> QED BY <1>2 DEF UsesAt

LEMMA KnownMoves ==
  ASSUME PlacesOK, KnownOK, NEW t \in Threads, NEW place, Goes(t, place), UNCHANGED <<known, complete>>,
         t \in Chunks => /\ place \in {"hash", "hashed", "opening", "open"} => known[t] < Buffers
                         /\ place \in Finishing => ~complete /\ \A d \in Chunks : Full(d)
  PROVE  KnownOK'
<1>1. pc'[t] = place /\ \A s \in Threads \ {t} : pc'[s] = pc[s]
  BY DEF PlacesOK, Goes
<1>2. \A c \in Chunks : c \in Threads
  BY ThreadsAre
<1>3. ASSUME NEW c \in Chunks
      PROVE  /\ pc'[c] \in {"hash", "hashed", "opening", "open"} => known[c] < Buffers
             /\ pc'[c] \in Finishing => ~complete /\ \A d \in Chunks : Full(d)
  <2>1. CASE c = t
    <3>1. pc'[c] = place /\ t \in Chunks
      BY <1>1, <2>1
    <3> QED BY <2>1, <3>1, Zenon
  <2>2. CASE c # t
    <3>1. pc'[c] = pc[c]
      BY <1>1, <1>2, <2>2
    <3> QED BY <3>1, Zenon DEF KnownOK
  <2> QED BY <2>1, <2>2
<1>4. complete => \A c \in Chunks : Full(c)
  BY DEF KnownOK
<1> QED BY <1>3, <1>4 DEF KnownOK, Full

LEMMA WritingKnown ==
  ASSUME TypesOK, PlacesOK, KnownOK, NEW c \in Chunks, Writing(c)
  PROVE  KnownOK'
<1>1. known[c] < Buffers /\ known[c] \in Nat /\ known \in [Chunks -> 0..Buffers]
  BY SizesAssumption DEF Writing, KnownOK, TypesOK
<1>2. ~complete /\ \A d \in Chunks : pc[d] \notin Finishing
  BY <1>1, SizesAssumption DEF KnownOK, Full
<1>3. complete' = complete /\ \A d \in Chunks \ {c} : pc'[d] = pc[d] /\ known'[d] = known[d]
  BY <1>1, ThreadsAre DEF Writing, Goes, PlacesOK
<1>4. /\ pc'[c] \in {"idle", "open", "closing", "written"}
      /\ pc'[c] = "open" => known'[c] < Buffers
  <2>1. c \in Threads
    BY ThreadsAre
  <2>2. CASE known' = [known EXCEPT ![c] = @ + 1] /\ known'[c] # Buffers
    <3>1. known'[c] = known[c] + 1
      BY <1>1, <2>2
    <3>2. known'[c] < Buffers
      BY <1>1, <2>2, <3>1, SizesAssumption
    <3> QED BY <2>1, <2>2, <3>2 DEF Writing, Goes, Unless, PlacesOK
  <2>3. CASE known' = [known EXCEPT ![c] = @ + 1] /\ known'[c] = Buffers
    <3>1. Goes(c, "written") \/ known' = known \/ known' = [known EXCEPT ![c] = 0]
      BY <2>3 DEF Writing
    <3>2. known' # known /\ known'[c] # 0
      BY <1>1, <2>3, SizesAssumption
    <3>3. Goes(c, "written")
      BY <1>1, <3>1, <3>2
    <3> QED BY <2>1, <3>3 DEF Goes, PlacesOK
  <2>4. CASE ~(known' = [known EXCEPT ![c] = @ + 1])
    <3>1. Goes(c, Unless("idle", "closing"))
      BY <2>4 DEF Writing
    <3> QED BY <2>1, <3>1 DEF Goes, PlacesOK, Unless
  <2> QED BY <2>2, <2>3, <2>4
<1> QED BY <1>2, <1>3, <1>4 DEF KnownOK, Finishing

LEMMA OpenWriteKnown ==
  ASSUME TypesOK, PlacesOK, UsersCounted, KnownOK, NEW c \in Chunks, pc[c] = "opening", OpenWrite(c)
  PROVE  KnownOK'
<1>1. known[c] < Buffers /\ c \in Threads
  BY ThreadsAre DEF KnownOK
<1>2. complete' = complete
  BY DEF OpenWrite, rest
<1>3. CASE UNCHANGED known
  <2>1. \E place \in {"idle", "open"} : Goes(c, place)
    BY DEF OpenWrite, Created
  <2> QED BY <1>1, <1>2, <1>3, <2>1, KnownMoves DEF Finishing
<1>4. CASE ~UNCHANGED known
  <2>1. count.write = 0 /\ Created(c)
    BY <1>4 DEF OpenWrite, data
  <2>2. known' = [d \in Chunks |-> 0] /\ \E place \in {"idle", "open"} : Goes(c, place)
    BY <1>4, <2>1 DEF Created
  <2>3. ~complete
    BY <1>1, SizesAssumption DEF KnownOK, Full, TypesOK
  <2>4. \A d \in Chunks : pc'[d] \notin Finishing
    <3>1. \A d \in Chunks : pc[d] \notin Finishing /\ d \in Threads
      BY <2>1, NobodyWrites, ThreadsAre DEF Writers
    <3> QED BY <1>1, <2>2, <3>1 DEF Goes, PlacesOK, Finishing
  <2> QED BY <1>2, <2>2, <2>3, <2>4, SizesAssumption DEF KnownOK
<1> QED BY <1>3, <1>4

LEMMA KnownStep ==
  ASSUME IInv, [Next]_vars
  PROVE  KnownOK'
<1>1. TypesOK /\ PlacesOK /\ UsersCounted /\ KnownOK /\ LocksHeld
  BY DEF IInv
<1> USE DEF opened, data, locks, rest
<1>2. CASE UNCHANGED vars \/ PoolCloses \/ UserDeletes
  <2>1. UNCHANGED <<known, complete, pc>>
    BY <1>2 DEF vars, PoolCloses, UserDeletes
  <2> QED BY <1>1, <2>1 DEF KnownOK, Full
<1>3. ASSUME NEW c \in Chunks, Download(c) PROVE KnownOK'
  <2>1. c \in Threads /\ known[c] \in 0..Buffers
    BY <1>1, ThreadsAre DEF TypesOK
  <2>2. CASE StartsRun(c)
    <3>1. \E place \in {"hash", "opening"} : Goes(c, place)
      BY <2>2 DEF StartsRun
    <3>2. known[c] < Buffers /\ UNCHANGED <<known, complete>>
      BY <2>1, <2>2, SizesAssumption DEF StartsRun, Full
    <3> QED BY <1>1, <2>1, <3>1, <3>2, KnownMoves DEF Finishing
  <2>3. CASE Hashing(c) \/ Hashed(c)
    <3>1. \E place \in {"idle", "hashed", "opening"} : Goes(c, place)
      BY <2>3 DEF Hashing, Hashed, OpenRead, CloseRead, Unless
    <3>2. known[c] < Buffers /\ UNCHANGED <<known, complete>>
      BY <1>1, <2>3 DEF Hashing, Hashed, OpenRead, CloseRead, KnownOK
    <3> QED BY <1>1, <2>1, <3>1, <3>2, KnownMoves DEF Finishing
  <2>4. CASE Opening(c)
    BY <1>1, <2>4, OpenWriteKnown DEF Opening
  <2>5. CASE Writing(c)
    BY <1>1, <2>5, WritingKnown
  <2>6. CASE EndsRun(c)
    <3>1. Goes(c, "idle") /\ UNCHANGED <<known, complete>>
      BY <2>6 DEF EndsRun, CloseWrite
    <3> QED BY <1>1, <2>1, <3>1, KnownMoves DEF Finishing
  <2> QED BY <1>3, <2>2, <2>3, <2>4, <2>5, <2>6 DEF Download
<1>4. ASSUME NEW c \in Chunks, Completion(c) PROVE KnownOK'
  <2>1. c \in Threads
    BY ThreadsAre
  <2>2. CASE ChunkComplete(c)
    <3>1. \E place \in {"idle", "closing", "locking", "renaming"} :
             Goes(c, place) /\ (place \in Finishing => LastChunk(c) /\ ~complete)
      BY <2>2 DEF ChunkComplete, Finishing
    <3>2. UNCHANGED <<known, complete>>
      BY <2>2 DEF ChunkComplete
    <3> QED BY <1>1, <2>1, <3>1, <3>2, KnownMoves DEF LastChunk
  <2>3. CASE TakesLocks(c) \/ ForceReleases(c) \/ Relocks(c)
    <3>1. \E place \in Finishing : Goes(c, place)
      BY <2>3 DEF TakesLocks, ForceReleases, Relocks, Finishing
    <3>2. UNCHANGED <<known, complete>> /\ pc[c] \in Finishing
      BY <2>3 DEF TakesLocks, ForceReleases, Relocks, Finishing
    <3>3. ~complete /\ \A d \in Chunks : Full(d)
      BY <1>1, <3>2 DEF KnownOK
    <3> QED BY <1>1, <2>1, <3>1, <3>2, <3>3, KnownMoves DEF Finishing
  <2>4. CASE Renames(c)
    <3>1. pc[c] = "renaming" /\ known' = known
      BY <2>4 DEF Renames
    <3>2. \A d \in Chunks : Full(d)' /\ Full(d) /\ known[d] = Buffers
      BY <1>1, <3>1 DEF KnownOK, Full, Finishing
    <3>3. \A d \in Chunks : pc'[d] \notin {"hash", "hashed", "opening", "open"} \cup Finishing
      <4>1. pc'[c] \in {"idle", "closing"} /\ \A d \in Chunks \ {c} : pc'[d] = pc[d]
        BY <1>1, <2>1, <2>4 DEF Renames, Goes, PlacesOK, Unless
      <4>2. \A d \in Chunks : pc[d] \notin {"hash", "hashed", "opening", "open"}
        BY <1>1, <3>2, SizesAssumption DEF KnownOK
      <4>3. \A d \in Chunks \ {c} : pc[d] \notin Finishing
        BY <1>1, <3>1, ThreadsAre DEF LocksHeld, Finishing
      <4> QED BY <4>1, <4>2, <4>3 DEF Finishing
    <3> QED BY <3>2, <3>3 DEF KnownOK
  <2> QED BY <1>4, <2>2, <2>3, <2>4 DEF Completion
<1>5. ASSUME NEW t \in Threads \ Chunks, NEW place, Goes(t, place), UNCHANGED <<known, complete>>
      PROVE KnownOK'
  BY <1>1, <1>5, KnownMoves
<1>6. ASSUME NEW u \in Uploads, Upload(u) PROVE KnownOK'
  <2>1. UNCHANGED <<known, complete>> /\ \E place : Goes(u, place)
    BY <1>6 DEF Upload, StartsUpload, OpensUpload, EndsUpload, OpenRead, CloseRead
  <2> QED BY <1>5, <2>1, ThreadsAre
<1>7. ASSUME NEW r \in Removers, Removal(r) PROVE KnownOK'
  <2>1. UNCHANGED <<known, complete>> /\ \E place : Goes(r, place)
    BY <1>7 DEF Removal, StartsRemoval, RemovesFile, Unlinks, ClosesFile, Deletes
  <2> QED BY <1>5, <2>1, ThreadsAre
<1>8. ASSUME NEW t \in Chunks \cup Uploads, ToldLate(t) \/ UsesDeleted(t) PROVE KnownOK'
  <2>1. Goes(t, "idle") /\ UNCHANGED <<known, complete>> /\ t \in Threads
    BY <1>8, ThreadsAre DEF ToldLate, UsesDeleted
  <2> QED BY <1>1, <2>1, KnownMoves DEF Finishing
<1> QED BY <1>2, <1>3, <1>4, <1>6, <1>7, <1>8 DEF Next

-----------------------------------------------------------------------------
(* The locks.                                                              *)

(* A thread that goes where no lock is held. *)
LEMMA LocksMoves ==
  ASSUME PlacesOK, LocksHeld, NEW t \in Threads, NEW place, Goes(t, place),
         place \notin Finishing \cup {"removing", "closing file", "waiting"},
         UNCHANGED <<mutex, ioLocks, complete>>, Linked' => Linked,
         ioLocks # NoThread /\ pool = {} => pool' = {}
  PROVE  LocksHeld'
<1>1. pc'[t] = place /\ \A s \in Threads \ {t} : pc'[s] = pc[s]
  BY DEF PlacesOK, Goes
<1>2. ASSUME NEW c \in Chunks
      PROVE  /\ pc'[c] \in {"locking", "renaming"} => mutex = c
             /\ pc'[c] \in {"releasing", "relocking"} => ioLocks = c
             /\ pc'[c] = "renaming" => ioLocks = NoThread
             /\ pc'[c] = "relocking" => pool' = {}
  <2>1. c \in Threads /\ c # NoThread
    BY ThreadsAre
  <2>2. CASE c = t
    BY <1>1, <2>2 DEF Finishing
  <2>3. CASE c # t
    <3>1. pc'[c] = pc[c]
      BY <1>1, <2>1, <2>3
    <3> QED BY <2>1, <3>1 DEF LocksHeld
  <2> QED BY <2>2, <2>3
<1>3. ASSUME NEW r \in Removers
      PROVE  /\ pc'[r] = "removing" => mutex = r /\ ~complete
             /\ pc'[r] \in {"closing file", "waiting"} => ~Linked'
  <2>1. r \in Threads
    BY ThreadsAre
  <2>2. CASE r = t
    BY <1>1, <2>2
  <2>3. CASE r # t
    <3>1. pc'[r] = pc[r]
      BY <1>1, <2>1, <2>3
    <3> QED BY <2>1, <3>1 DEF LocksHeld
  <2> QED BY <2>2, <2>3
<1> QED BY <1>2, <1>3 DEF LocksHeld

(* What a thread at each place keeps from the others. *)
LEMMA LocksAlone ==
  ASSUME LocksHeld, NEW c \in Chunks
  PROVE  /\ mutex = NoThread => pc[c] \notin {"locking", "renaming"}
         /\ ioLocks = NoThread => pc[c] \notin {"releasing", "relocking"}
         /\ \A t \in Threads \ {c} : mutex = t => pc[c] \notin {"locking", "renaming"}
         /\ \A t \in Threads \ {c} : ioLocks = t => pc[c] \notin {"releasing", "relocking", "renaming"}
BY ThreadsAre DEF LocksHeld

LEMMA CompletionLocks ==
  ASSUME IInv, NEW c \in Chunks, Completion(c)
  PROVE  LocksHeld'
<1>1. TypesOK /\ PlacesOK /\ UsersCounted /\ KnownOK /\ LocksHeld /\ PoolKeyed
  BY DEF IInv
<1>2. /\ c \in Threads /\ c \in Workers /\ c # NoThread /\ c \notin Removers
      /\ \A r \in Removers : r \in Threads /\ r # NoThread
      /\ \A d \in Chunks : d \in Threads /\ d # NoThread
  BY ThreadsAre
<1>3. /\ \A d \in Chunks \ {c} : pc'[d] = pc[d]
      /\ \A r \in Removers : pc'[r] = pc[r]
      /\ \A place : Goes(c, place) => pc'[c] = place
  <2>1. \E place : Goes(c, place)
    BY DEF Completion, ChunkComplete, TakesLocks, ForceReleases, Relocks, Renames
  <2> QED BY <1>1, <1>2, <2>1 DEF PlacesOK, Goes
<1>4. object' = object
  BY DEF Completion, ChunkComplete, TakesLocks, ForceReleases, Relocks, Renames, rest
<1> USE DEF opened, data, locks, rest
<1>5. CASE ChunkComplete(c)
  <2>1. count.read + count.write > 0
    <3>1. UsesAt("write", c, pc[c]) /\ "write" \in Modes /\ "read" \in Modes
      BY <1>5 DEF ChunkComplete, UsesAt, Writers, Modes
    <3>2. count.write \in Nat /\ count.write >= 1 /\ count.read \in Nat
      BY <1>1, <1>2, <3>1, UserIsCounted DEF TypesOK
    <3> QED BY <3>2
  <2>2. CASE Goes(c, "locking")
    <3>1. /\ mutex = NoThread /\ mutex' = c
          /\ UNCHANGED <<ioLocks, complete, pool>>
      BY <1>3, <1>5, <2>2 DEF ChunkComplete
    <3>2. \A d \in Chunks : pc[d] \notin {"locking", "renaming"}
      BY <1>1, <3>1, LocksAlone
    <3>3. \A r \in Removers : pc[r] # "removing"
      BY <1>1, <1>2, <3>1 DEF LocksHeld
    <3> QED BY <1>1, <1>3, <1>4, <2>2, <3>1, <3>2, <3>3 DEF LocksHeld, Linked
  <2>3. CASE Goes(c, "idle") \/ Goes(c, "closing")
    <3>1. UNCHANGED <<mutex, ioLocks, complete, pool>>
      BY <1>3, <1>5, <2>1, <2>3 DEF ChunkComplete
    <3>2. \E place \in {"idle", "closing"} : Goes(c, place)
      BY <2>3
    <3> QED BY <1>1, <1>2, <1>4, <3>1, <3>2, LocksMoves DEF Linked, Finishing
  <2> QED BY <1>5, <2>1, <2>2, <2>3 DEF ChunkComplete
<1>6. CASE TakesLocks(c)
  <2>1. /\ pc[c] = "locking" /\ ioLocks = NoThread /\ ioLocks' = c /\ mutex' = NoThread /\ pc'[c] = "releasing"
        /\ UNCHANGED <<complete, pool>>
    BY <1>3, <1>6 DEF TakesLocks
  <2>2. mutex = c
    BY <1>1, <2>1 DEF LocksHeld
  <2>3. \A d \in Chunks \ {c} : pc[d] \notin Finishing
    BY <1>1, <1>2, <2>1, <2>2, LocksAlone DEF Finishing
  <2>4. \A r \in Removers : pc[r] # "removing"
    BY <1>1, <1>2, <2>2 DEF LocksHeld
  <2> QED BY <1>1, <1>3, <1>4, <2>1, <2>3, <2>4 DEF LocksHeld, Linked, Finishing
<1>7. CASE ForceReleases(c)
  <2>1. /\ pc[c] = "releasing" /\ pc'[c] = "relocking" /\ pool' = pool \ Named(Path)
        /\ UNCHANGED <<complete, mutex, ioLocks>>
    BY <1>3, <1>7 DEF ForceReleases
  <2>2. ioLocks = c /\ ~complete
    BY <1>1, <2>1 DEF LocksHeld, KnownOK, Finishing
  <2>3. pool' = {}
    BY <1>1, <2>1, <2>2 DEF Named, Path, PoolKeyed
  <2> QED BY <1>1, <1>3, <1>4, <2>1, <2>2, <2>3 DEF LocksHeld, Linked
<1>8. CASE Relocks(c)
  <2>1. /\ pc[c] = "relocking" /\ mutex = NoThread /\ mutex' = c /\ ioLocks' = NoThread /\ pc'[c] = "renaming"
        /\ UNCHANGED <<complete, pool>>
    BY <1>3, <1>8 DEF Relocks
  <2>2. ioLocks = c
    BY <1>1, <2>1 DEF LocksHeld
  <2>3. \A d \in Chunks \ {c} : pc[d] \notin Finishing
    BY <1>1, <1>2, <2>1, <2>2, LocksAlone DEF Finishing
  <2>4. \A r \in Removers : pc[r] # "removing"
    BY <1>1, <1>2, <2>1 DEF LocksHeld
  <2> QED BY <1>1, <1>3, <1>4, <2>1, <2>3, <2>4 DEF LocksHeld, Linked, Finishing
<1>9. CASE Renames(c)
  <2>1. /\ pc[c] = "renaming" /\ mutex' = NoThread /\ pc'[c] \in {"idle", "closing"}
        /\ UNCHANGED <<ioLocks, pool>>
    BY <1>3, <1>9 DEF Renames, Unless
  <2>2. mutex = c /\ ioLocks = NoThread
    BY <1>1, <2>1 DEF LocksHeld
  <2>3. \A d \in Chunks \ {c} : pc[d] \notin Finishing
    BY <1>1, <1>2, <2>1, <2>2, LocksAlone DEF Finishing
  <2>4. \A r \in Removers : pc[r] # "removing"
    BY <1>1, <1>2, <2>2 DEF LocksHeld
  <2> QED BY <1>1, <1>3, <1>4, <2>1, <2>3, <2>4 DEF LocksHeld, Linked, Finishing
<1> QED BY <1>5, <1>6, <1>7, <1>8, <1>9 DEF Completion

LEMMA RemovalLocks ==
  ASSUME IInv, NEW r \in Removers, Removal(r)
  PROVE  LocksHeld'
<1>1. TypesOK /\ PlacesOK /\ LocksHeld /\ PoolKeyed
  BY DEF IInv
<1>2. /\ r \in Threads /\ r # NoThread /\ r \notin Chunks
      /\ \A q \in Removers : q \in Threads /\ q # NoThread
      /\ \A d \in Chunks : d \in Threads /\ d # NoThread
  BY ThreadsAre
<1>3. /\ \A d \in Chunks : pc'[d] = pc[d]
      /\ \A q \in Removers \ {r} : pc'[q] = pc[q]
      /\ \A place : Goes(r, place) => pc'[r] = place
  <2>1. \E place : Goes(r, place)
    BY DEF Removal, StartsRemoval, RemovesFile, Unlinks, ClosesFile, Deletes
  <2> QED BY <1>1, <1>2, <2>1 DEF PlacesOK, Goes
<1> USE DEF opened, data, locks, rest
<1>4. CASE StartsRemoval(r)
  <2>1. mutex = NoThread /\ UNCHANGED <<ioLocks, complete, pool, object>>
    BY <1>4 DEF StartsRemoval
  <2>2. CASE complete
    <3>1. Goes(r, "unlinking") /\ UNCHANGED mutex
      BY <1>4, <2>2 DEF StartsRemoval
    <3> QED BY <1>1, <1>2, <2>1, <3>1, LocksMoves DEF Linked, Finishing
  <2>3. CASE ~complete
    <3>1. pc'[r] = "removing" /\ mutex' = r
      BY <1>3, <1>4, <2>3 DEF StartsRemoval
    <3>2. \A d \in Chunks : pc[d] \notin {"locking", "renaming"}
      BY <1>1, <2>1, LocksAlone
    <3>3. \A q \in Removers : pc[q] # "removing"
      BY <1>1, <1>2, <2>1 DEF LocksHeld
    <3> QED BY <1>1, <1>3, <2>1, <2>3, <3>1, <3>2, <3>3 DEF LocksHeld, Linked
  <2> QED BY <2>2, <2>3
<1>5. CASE RemovesFile(r)
  <2>1. /\ pc[r] = "removing" /\ ioLocks = NoThread /\ mutex' = NoThread /\ pc'[r] = "unlinking"
        /\ UNCHANGED <<ioLocks, complete, object>>
    BY <1>3, <1>5 DEF RemovesFile
  <2>2. mutex = r
    BY <1>1, <2>1 DEF LocksHeld
  <2>3. \A d \in Chunks : pc[d] \notin Finishing
    BY <1>1, <1>2, <2>1, <2>2, LocksAlone DEF Finishing
  <2>4. \A q \in Removers \ {r} : pc[q] # "removing"
    BY <1>1, <1>2, <2>2 DEF LocksHeld
  <2> QED BY <1>1, <1>3, <2>1, <2>3, <2>4 DEF LocksHeld, Linked, Finishing
<1>6. CASE Unlinks(r)
  <2>1. pc'[r] = "closing file" /\ UNCHANGED <<mutex, ioLocks, complete, pool>> /\ ~Linked'
    BY <1>3, <1>6 DEF Unlinks, Linked
  <2> QED BY <1>1, <1>3, <2>1 DEF LocksHeld
<1>7. CASE ClosesFile(r)
  <2>1. /\ pc[r] = "closing file" /\ pc'[r] = "waiting" /\ pool' \subseteq pool
        /\ UNCHANGED <<mutex, ioLocks, complete, object>>
    BY <1>3, <1>7 DEF ClosesFile
  <2>2. pool = {} => pool' = {}
    BY <2>1
  <2> QED BY <1>1, <1>3, <2>1, <2>2 DEF LocksHeld, Linked
<1>8. CASE Deletes(r)
  <2>1. Goes(r, "idle") /\ UNCHANGED <<mutex, ioLocks, complete, pool>> /\ ~Linked'
    BY <1>8 DEF Deletes, Linked
  <2> QED BY <1>1, <1>2, <2>1, LocksMoves DEF Finishing
<1> QED BY <1>4, <1>5, <1>6, <1>7, <1>8 DEF Removal

LEMMA LocksStep ==
  ASSUME IInv, [Next]_vars
  PROVE  LocksHeld'
<1>1. PlacesOK /\ LocksHeld
  BY DEF IInv
<1> USE DEF opened, data, locks, rest
<1>2. CASE UNCHANGED vars \/ PoolCloses \/ UserDeletes
  <2>1. UNCHANGED <<mutex, ioLocks, complete, pc, object>> /\ pool' \subseteq pool
    BY <1>2 DEF vars, PoolCloses, UserDeletes
  <2>2. pool = {} => pool' = {}
    BY <2>1
  <2> QED BY <1>1, <2>1, <2>2 DEF LocksHeld, Linked
<1>3. ASSUME NEW c \in Chunks, Download(c) PROVE LocksHeld'
  <2>1. UNCHANGED <<mutex, ioLocks, complete, object>> /\ (pool' = pool \/ ioLocks = NoThread)
    BY <1>3 DEF Download, StartsRun, Hashing, Hashed, Opening, Writing, EndsRun,
                OpenRead, CloseRead, OpenWrite, CloseWrite
  <2>2. \E place \in {"idle", "hash", "hashed", "opening", "open", "closing", "written"} : Goes(c, place)
    BY <1>3 DEF Download, StartsRun, Hashing, Hashed, Opening, Writing, EndsRun,
                OpenRead, CloseRead, OpenWrite, CloseWrite, Created, Unless
  <2> QED BY <1>1, <2>1, <2>2, ThreadsAre, LocksMoves DEF Linked, Finishing
<1>4. ASSUME NEW u \in Uploads, Upload(u) PROVE LocksHeld'
  <2>1. UNCHANGED <<mutex, ioLocks, complete, object>> /\ (pool' = pool \/ ioLocks = NoThread)
    BY <1>4 DEF Upload, StartsUpload, OpensUpload, EndsUpload, OpenRead, CloseRead
  <2>2. \E place \in {"idle", "hash", "open"} : Goes(u, place)
    BY <1>4 DEF Upload, StartsUpload, OpensUpload, EndsUpload, OpenRead, CloseRead, Unless
  <2> QED BY <1>1, <2>1, <2>2, ThreadsAre, LocksMoves DEF Linked, Finishing
<1>5. ASSUME NEW t \in Chunks \cup Uploads, ToldLate(t) \/ UsesDeleted(t) PROVE LocksHeld'
  <2>1. Goes(t, "idle") /\ UNCHANGED <<mutex, ioLocks, complete, object, pool>>
    BY <1>5 DEF ToldLate, UsesDeleted
  <2> QED BY <1>1, <2>1, ThreadsAre, LocksMoves DEF Linked, Finishing
<1> QED BY <1>2, <1>3, <1>4, <1>5, CompletionLocks, RemovalLocks DEF Next

-----------------------------------------------------------------------------
(* The pool.                                                               *)

(* open(): one file per path and mode, as no other of this mode is in use. *)
LEMMA UseKeyed ==
  ASSUME TypesOK, PoolKeyed, HandlesOpen, NEW m \in Modes, NEW h \in Handles, h.mode = m, h.path = Path,
         count[m] = 0, count' = [count EXCEPT ![m] = @ + 1], Use(m, h),
         \/ h \in pool
         \/ \A g \in pool : g.id # h.id /\ ~(g.path = Path /\ g.mode = m),
         ioLocks = NoThread, UNCHANGED <<complete, object>>
  PROVE  PoolKeyed' /\ HandlesOpen'
<1> DEFINE k == [h EXCEPT !.released = FALSE]
<1>1. k \in Handles /\ k.id = h.id /\ k.path = Path /\ k.mode = m /\ ~k.released
  BY DEF Handles
<1> HIDE DEF k
<1>2. /\ \A g \in pool' : g = k \/ (g \in pool /\ g.id # h.id)
      /\ k \in pool' /\ \A g \in pool : g.id # h.id => g \in pool'
  BY DEF Use, k
<1>3. /\ handle'[m] = h.id /\ \A n \in Modes \ {m} : handle'[n] = handle[n]
      /\ count'[m] # 0 /\ \A n \in Modes \ {m} : count'[n] = count[n]
  BY DEF Use, TypesOK
<1>4. handle[m] = 0 /\ h.id # 0 /\ \A g \in pool : g.id # 0 /\ g.mode \in Modes
  BY IdsAre DEF PoolKeyed, TypesOK, Handles
<1>5. \A g \in pool : g.mode = m => g.released
  BY <1>4 DEF PoolKeyed
<1>6. \A f, g \in pool' : f.id = g.id \/ (f.path = g.path /\ f.mode = g.mode) => f = g
  <2>1. \A g \in pool : g.id # h.id => ~(g.path = Path /\ g.mode = m)
    BY DEF PoolKeyed
  <2> QED BY <1>1, <1>2, <2>1 DEF PoolKeyed
<1>7. \A g \in pool' : ~g.released => g.id = handle'[g.mode]
  BY <1>1, <1>2, <1>3, <1>4, <1>5 DEF PoolKeyed
<1>8. \A n \in Modes : count'[n] = 0 => handle'[n] = 0
  BY <1>3 DEF PoolKeyed
<1>9. ~complete' => \A g \in pool' : g.path = "unfinished"
  BY <1>1, <1>2 DEF PoolKeyed, Path
<1>10. ASSUME Linked, NEW n \in Modes, handle'[n] # 0
       PROVE  \E g \in pool' : g.id = handle'[n] /\ g.mode = n /\ ~g.released
  <2>1. CASE n = m
    BY <1>1, <1>2, <1>3, <2>1
  <2>2. CASE n # m
    <3>1. PICK g \in pool : g.id = handle[n] /\ g.mode = n /\ ~g.released
      BY <1>3, <1>10, <2>2 DEF HandlesOpen
    <3>2. g.id # h.id
      BY <2>2, <3>1 DEF PoolKeyed
    <3> QED BY <1>2, <1>3, <2>2, <3>1, <3>2
  <2> QED BY <2>1, <2>2
<1> QED BY <1>6, <1>7, <1>8, <1>9, <1>10 DEF PoolKeyed, HandlesOpen, Linked

(* release(): the file of the mode is released when its last user leaves.  *)
LEMMA ReleasedKeyed ==
  ASSUME TypesOK, PoolKeyed, HandlesOpen, NEW m \in Modes, count[m] >= 1,
         count' = [count EXCEPT ![m] = @ - 1],
         IF count[m] = 1 THEN pool' = Released(m) /\ handle' = [handle EXCEPT ![m] = 0]
         ELSE UNCHANGED <<handle, pool>>,
         ioLocks = NoThread, UNCHANGED <<complete, object>>
  PROVE  /\ PoolKeyed' /\ HandlesOpen'
         /\ \A g \in pool' : \E h \in pool : h.mode = g.mode /\ h.inode = g.inode
<1>1. /\ count[m] \in Nat /\ count'[m] = count[m] - 1 /\ \A n \in Modes \ {m} : count'[n] = count[n]
  BY DEF TypesOK
<1>2. CASE count[m] # 1
  <2>1. UNCHANGED <<handle, pool>> /\ count'[m] # 0
    BY <1>1, <1>2
  <2>2. PoolKeyed'
    BY <1>1, <2>1 DEF PoolKeyed
  <2> QED BY <2>1, <2>2 DEF HandlesOpen, Linked
<1>3. CASE count[m] = 1
  <2> DEFINE R(h) == IF h.id = handle[m] THEN [h EXCEPT !.released = TRUE] ELSE h
  <2>1. \A h \in pool : /\ R(h).id = h.id /\ R(h).path = h.path /\ R(h).mode = h.mode
                        /\ R(h).inode = h.inode
                        /\ ~R(h).released => R(h) = h /\ h.id # handle[m]
                        /\ h.id # handle[m] => R(h) = h
    BY DEF TypesOK, Handles
  <2>2. pool' = {R(h) : h \in pool}
    BY <1>3 DEF Released
  <2> HIDE DEF R
  <2>3. handle'[m] = 0 /\ \A n \in Modes \ {m} : handle'[n] = handle[n]
    BY <1>3 DEF TypesOK
  <2>4. \A f, g \in pool' : f.id = g.id \/ (f.path = g.path /\ f.mode = g.mode) => f = g
    <3> TAKE f, g \in pool'
    <3>1. PICK f1 \in pool, g1 \in pool : f = R(f1) /\ g = R(g1)
      BY <2>2
    <3> QED BY <2>1, <3>1 DEF PoolKeyed
  <2>5. \A g \in pool' : ~g.released => g.id = handle'[g.mode]
    <3> TAKE g \in pool'
    <3>1. PICK h \in pool : g = R(h)
      BY <2>2
    <3>2. h.mode \in Modes
      BY DEF TypesOK, Handles
    <3> QED BY <2>1, <2>3, <3>1, <3>2 DEF PoolKeyed
  <2>6. \A n \in Modes : count'[n] = 0 => handle'[n] = 0
    BY <1>1, <2>3 DEF PoolKeyed
  <2>7. ~complete' => \A g \in pool' : g.path = "unfinished"
    BY <2>1, <2>2 DEF PoolKeyed
  <2>8. ASSUME Linked, NEW n \in Modes, handle'[n] # 0
        PROVE  \E g \in pool' : g.id = handle'[n] /\ g.mode = n /\ ~g.released
    <3>1. n # m /\ handle'[n] = handle[n]
      BY <2>3, <2>8
    <3>2. PICK g \in pool : g.id = handle[n] /\ g.mode = n /\ ~g.released
      BY <2>8, <3>1 DEF HandlesOpen
    <3>3. g.id # handle[m]
      <4> SUFFICES ASSUME g.id = handle[m] PROVE FALSE
        OBVIOUS
      <4>1. PICK h \in pool : h.id = handle[m] /\ h.mode = m
        BY <2>8, <3>1, <3>2 DEF HandlesOpen
      <4> QED BY <3>1, <3>2, <4>1 DEF PoolKeyed
    <3> QED BY <2>1, <2>2, <3>1, <3>2, <3>3
  <2>9. PoolKeyed'
    BY <2>4, <2>5, <2>6, <2>7 DEF PoolKeyed
  <2>10. \A g \in pool' : \E h \in pool : h.mode = g.mode /\ h.inode = g.inode
    BY <2>1, <2>2
  <2> QED BY <2>8, <2>9, <2>10 DEF HandlesOpen, Linked
<1> QED BY <1>2, <1>3

(* Closing what is released closes nothing that is in use. *)
LEMMA PoolShrinks ==
  ASSUME PoolKeyed, HandlesOpen, pool' \subseteq pool, UNCHANGED <<count, handle, ioLocks>>,
         complete => complete', Linked' => Linked,
         Linked' /\ ioLocks = NoThread => \A h \in pool : ~h.released => h \in pool'
  PROVE  PoolKeyed' /\ HandlesOpen'
<1>1. PoolKeyed'
  BY DEF PoolKeyed
<1> QED BY <1>1 DEF HandlesOpen

(* forceReleaseAll(), and the pointers to null. *)
LEMMA PoolEmptied ==
  ASSUME TypesOK, UNCHANGED <<count>>, pool' = {}, handle' = [m \in Modes |-> 0]
  PROVE  PoolKeyed' /\ HandlesOpen'
BY DEF PoolKeyed, HandlesOpen

(* What a new file is like in the pool when there is none to use again.    *)
LEMMA NewHandleIs ==
  ASSUME TypesOK, PoolKeyed, NEW m \in Modes, NEW inode \in Inodes, count[m] = 0, Reusable(m) = {}
  PROVE  /\ NewHandle(m, inode) \in Handles
         /\ NewHandle(m, inode).mode = m /\ NewHandle(m, inode).path = Path
         /\ NewHandle(m, inode).inode = inode
         /\ \A g \in pool : g.id # NewHandle(m, inode).id /\ ~(g.path = Path /\ g.mode = m)
<1>1. NewHandle(m, inode) \in Handles
  BY NewHandleTyped
<1>2. \A g \in pool : g.id # NewHandle(m, inode).id
  BY FreeId DEF NewHandle
<1>3. \A g \in pool : ~(g.path = Path /\ g.mode = m)
  <2> TAKE g \in pool
  <2> SUFFICES ASSUME g.path = Path, g.mode = m PROVE FALSE
    OBVIOUS
  <2>1. ~g.released
    BY DEF Reusable
  <2>2. g.id = 0 /\ g.id \in Ids
    BY <2>1 DEF PoolKeyed, TypesOK, Handles
  <2> QED BY <2>2, IdsAre
<1> QED BY <1>1, <1>2, <1>3 DEF NewHandle

LEMMA OpenReadKeyed ==
  ASSUME TypesOK, PoolKeyed, HandlesOpen, WritesToDisk, NEW t, NEW ok, NEW fails, OpenRead(t, ok, fails)
  PROVE  PoolKeyed' /\ HandlesOpen' /\ WritesToDisk'
<1>1. /\ "read" \in Modes /\ ioLocks = NoThread /\ count' = [count EXCEPT !["read"] = @ + 1]
      /\ UNCHANGED <<complete, object, disk, ioLocks>>
  BY DEF OpenRead, Modes, rest, data, locks
<1>2. CASE UNCHANGED <<handle, pool>>
  <2>1. \A m \in Modes : count'[m] = 0 => count[m] = 0
    BY <1>1 DEF TypesOK
  <2>2. PoolKeyed'
    BY <1>1, <1>2, <2>1 DEF PoolKeyed
  <2> QED BY <1>1, <1>2, <2>2 DEF HandlesOpen, WritesToDisk, Linked
<1>3. ASSUME NEW h \in Handles, Use("read", h), h.mode = "read", h.path = Path, count.read = 0,
             h \in pool \/ \A g \in pool : g.id # h.id /\ ~(g.path = Path /\ g.mode = "read")
      PROVE  PoolKeyed' /\ HandlesOpen' /\ WritesToDisk'
  <2>1. PoolKeyed' /\ HandlesOpen'
    BY <1>1, <1>3, UseKeyed
  <2>2. \A g \in pool' : g.mode = "write" => g \in pool
    <3>1. [h EXCEPT !.released = FALSE].mode = "read"
      BY <1>3 DEF Handles
    <3> QED BY <1>3, <3>1 DEF Use
  <2> QED BY <1>1, <2>1, <2>2 DEF WritesToDisk
<1>4. CASE count.read = 0 /\ \E h \in Reusable("read") : Use("read", h)
  <2>1. PICK h \in Reusable("read") : Use("read", h)
    BY <1>4
  <2>2. h \in Handles /\ h.mode = "read" /\ h.path = Path /\ h \in pool
    BY DEF Reusable, TypesOK
  <2> QED BY <1>3, <1>4, <2>1, <2>2
<1>5. CASE count.read = 0 /\ Reusable("read") = {} /\ disk[Path] # 0 /\ Use("read", NewHandle("read", disk[Path]))
  <2>1. disk[Path] \in Inodes
    BY <1>5 DEF TypesOK, Path, Paths
  <2> QED BY <1>1, <1>3, <1>5, <2>1, NewHandleIs
<1> QED BY <1>2, <1>4, <1>5 DEF OpenRead

(* A file that had to be created is the only one open to write. *)
LEMMA OpenWriteKeyed ==
  ASSUME TypesOK, PlacesOK, PoolKeyed, KnownOK, HandlesOpen, WritesToDisk, KnownIsOnDisk,
         NEW c \in Chunks, pc[c] = "opening", OpenWrite(c)
  PROVE  PoolKeyed' /\ HandlesOpen' /\ WritesToDisk' /\ KnownIsOnDisk'
<1>1. /\ "write" \in Modes /\ ioLocks = NoThread /\ count' = [count EXCEPT !["write"] = @ + 1]
      /\ UNCHANGED <<complete, object, ioLocks>>
  BY DEF OpenWrite, Modes, rest, locks
<1>2. ~complete /\ Path = "unfinished" /\ Path' = "unfinished"
  <2>1. known[c] < Buffers
    BY DEF KnownOK
  <2>2. ~complete
    BY <2>1, SizesAssumption DEF KnownOK, Full, TypesOK
  <2> QED BY <1>1, <2>2 DEF Path
<1>3. ASSUME UNCHANGED data PROVE KnownIsOnDisk'
  BY <1>1, <1>3 DEF KnownIsOnDisk, data, Path
<1>4. CASE UNCHANGED <<handle, pool, data>>
  <2>1. \A m \in Modes : count'[m] = 0 => count[m] = 0
    BY <1>1 DEF TypesOK
  <2>2. PoolKeyed'
    BY <1>1, <1>4, <2>1 DEF PoolKeyed
  <2> QED BY <1>1, <1>3, <1>4, <2>2 DEF HandlesOpen, WritesToDisk, Linked, data
<1>5. ASSUME NEW h \in Handles, Use("write", h), h.mode = "write", h.path = Path, count.write = 0,
             h \in pool \/ \A g \in pool : g.id # h.id /\ ~(g.path = Path /\ g.mode = "write")
      PROVE  /\ PoolKeyed' /\ HandlesOpen'
             /\ \A g \in pool' : g.inode = h.inode \/ g \in pool
  <2>1. PoolKeyed' /\ HandlesOpen'
    BY <1>1, <1>5, UseKeyed
  <2>2. \A g \in pool' : g.inode = h.inode \/ g \in pool
    <3>1. [h EXCEPT !.released = FALSE].inode = h.inode
      BY <1>5 DEF Handles
    <3> QED BY <1>5, <3>1 DEF Use
  <2> QED BY <2>1, <2>2
<1>6. CASE count.write = 0 /\ UNCHANGED data /\ \E h \in Reusable("write") : Use("write", h)
  <2>1. PICK h \in Reusable("write") : Use("write", h)
    BY <1>6
  <2>2. h \in Handles /\ h.mode = "write" /\ h.path = Path /\ h \in pool
    BY DEF Reusable, TypesOK
  <2>3. /\ PoolKeyed' /\ HandlesOpen'
        /\ \A g \in pool' : g.inode = h.inode \/ g \in pool
    BY <1>5, <1>6, <2>1, <2>2
  <2>4. WritesToDisk'
    BY <1>1, <1>6, <2>2, <2>3 DEF WritesToDisk, data
  <2> QED BY <1>3, <1>6, <2>3, <2>4
<1>7. CASE /\ count.write = 0 /\ Reusable("write") = {} /\ UNCHANGED data
           /\ disk[Path] # 0 /\ Use("write", NewHandle("write", disk[Path]))
  <2>1. disk[Path] \in Inodes
    BY <1>7 DEF TypesOK, Path, Paths
  <2>2. /\ PoolKeyed' /\ HandlesOpen'
        /\ \A g \in pool' : g.inode = disk[Path] \/ g \in pool
    BY <1>1, <1>5, <1>7, <2>1, NewHandleIs
  <2>3. WritesToDisk'
    BY <1>1, <1>2, <1>7, <2>2 DEF WritesToDisk, data
  <2> QED BY <1>3, <1>7, <2>2, <2>3
<1>8. CASE /\ count.write = 0 /\ Reusable("write") = {}
           /\ Use("write", NewHandle("write", FreshInode)) /\ Created(c)
  <2> DEFINE h == NewHandle("write", FreshInode)
  <2>1. /\ h \in Handles /\ h.mode = "write" /\ h.path = Path /\ h.inode = FreshInode
        /\ \A g \in pool : g.id # h.id /\ ~(g.path = Path /\ g.mode = "write")
    BY <1>1, <1>8, FreeInode, NewHandleIs
  <2> HIDE DEF h
  <2>2. /\ PoolKeyed' /\ HandlesOpen'
        /\ \A g \in pool' : g.inode = FreshInode \/ g \in pool
    <3>1. Use("write", h)
      BY <1>8 DEF h
    <3> QED BY <1>5, <1>8, <2>1, <3>1
  <2>3. disk'.unfinished = FreshInode
    BY <1>2, <1>8 DEF Created, TypesOK, Paths
  <2>4. \A g \in pool : g.mode # "write"
    BY <1>2, <2>1 DEF PoolKeyed
  <2>5. WritesToDisk'
    BY <2>2, <2>3, <2>4 DEF WritesToDisk
  <2>6. KnownIsOnDisk'
    <3> SUFFICES ASSUME Linked, NEW d \in Chunks
                 PROVE  Written(d, known'[d]) \subseteq content'[disk'[Path']]
      BY <1>1 DEF KnownIsOnDisk, Linked
    <3>1. known'[d] = 0
      BY <1>8 DEF Created, Linked
    <3>2. Written(d, 0) = {}
      BY DEF Written
    <3> QED BY <3>1, <3>2
  <2> QED BY <2>2, <2>5, <2>6
<1> QED BY <1>4, <1>6, <1>7, <1>8 DEF OpenWrite

LEMMA WritingOnDisk ==
  ASSUME TypesOK, PlacesOK, PoolKeyed, KnownOK, HandlesOpen, WritesToDisk, KnownIsOnDisk,
         NEW c \in Chunks, Writing(c)
  PROVE  KnownIsOnDisk'
<1> SUFFICES ASSUME Linked, disk[Path] # 0, NEW d \in Chunks
             PROVE  Written(d, known'[d]) \subseteq content'[disk[Path]]
  BY DEF KnownIsOnDisk, Writing, Linked, Path
<1>1. /\ known[c] \in Nat /\ known[c] < Buffers /\ known \in [Chunks -> 0..Buffers]
      /\ ioLocks = NoThread
  BY SizesAssumption DEF Writing, KnownOK, TypesOK
<1>2. ~complete /\ Path = "unfinished"
  BY <1>1, SizesAssumption DEF KnownOK, Full, Path
<1>3. Written(d, known[d]) \subseteq content[disk[Path]]
  BY DEF KnownIsOnDisk, Linked
<1>4. CASE UNCHANGED content /\ known' = known
  BY <1>3, <1>4
<1>5. CASE UNCHANGED content /\ known' = [known EXCEPT ![c] = 0]
  <2>1. Written(d, 0) = {}
    BY DEF Written
  <2>2. known'[d] = 0 \/ known'[d] = known[d]
    BY <1>1, <1>5
  <2> QED BY <1>3, <1>5, <2>1, <2>2
<1>6. CASE /\ handle.write \in {h.id : h \in pool}
           /\ content' = [content EXCEPT ![Opened(handle.write).inode] = @ \cup {<<c, known[c] + 1>>}]
           /\ known' = [known EXCEPT ![c] = @ + 1]
  <2>1. PICK h \in pool : h.id = handle.write
    BY <1>6
  <2>2. h \in Handles /\ h.id # 0
    BY IdsAre DEF TypesOK, Handles
  <2>3. h.mode = "write"
    <3>1. \E g \in pool : g.id = handle["write"] /\ g.mode = "write"
      BY <1>1, <2>1, <2>2 DEF HandlesOpen, Modes
    <3> QED BY <2>1, <3>1 DEF PoolKeyed
  <2>4. Opened(handle.write).inode = disk[Path] /\ disk[Path] \in Inodes
    <3>1. Opened(handle.write) = h
      BY <2>1, OpenedIs
    <3>2. h.inode = disk[Path]
      BY <1>2, <2>3 DEF WritesToDisk
    <3> QED BY <2>2, <3>1, <3>2 DEF Handles
  <2>5. content'[disk[Path]] = content[disk[Path]] \cup {<<c, known[c] + 1>>}
    BY <1>6, <2>4 DEF TypesOK
  <2>6. CASE d = c
    <3>1. known'[d] = known[c] + 1
      BY <1>1, <1>6, <2>6
    <3>2. 1..known[c] + 1 = (1..known[c]) \cup {known[c] + 1}
      BY <1>1
    <3>3. Written(d, known'[d]) = Written(d, known[d]) \cup {<<c, known[c] + 1>>}
      BY <2>6, <3>1, <3>2 DEF Written
    <3> QED BY <1>3, <2>5, <3>3
  <2>7. CASE d # c
    <3>1. known'[d] = known[d]
      BY <1>1, <1>6, <2>7
    <3> QED BY <1>3, <2>5, <3>1
  <2> QED BY <2>6, <2>7
<1> QED BY <1>4, <1>5, <1>6 DEF Writing

(* The pool and the disk as they are, or with fewer files in the pool. *)
FilesOK == PoolKeyed /\ HandlesOpen /\ WritesToDisk /\ KnownIsOnDisk

LEMMA DiskKept ==
  ASSUME KnownIsOnDisk, UNCHANGED <<known, disk, content, complete>>, Linked' => Linked
  PROVE  KnownIsOnDisk'
BY DEF KnownIsOnDisk, Path, Linked

LEMMA FilesKept ==
  ASSUME FilesOK, UNCHANGED <<opened, known, disk, content, complete, ioLocks>>, Linked' => Linked
  PROVE  FilesOK'
<1>1. KnownIsOnDisk'
  BY DiskKept DEF FilesOK
<1> QED BY <1>1 DEF FilesOK, PoolKeyed, HandlesOpen, WritesToDisk, opened

LEMMA CloseKept ==
  ASSUME TypesOK, FilesOK, NEW m \in Modes, count[m] >= 1, ioLocks = NoThread,
         count' = [count EXCEPT ![m] = @ - 1],
         IF count[m] = 1 THEN pool' = Released(m) /\ handle' = [handle EXCEPT ![m] = 0]
         ELSE UNCHANGED <<handle, pool>>,
         UNCHANGED <<data, complete, object>>
  PROVE  FilesOK'
<1>1. /\ PoolKeyed' /\ HandlesOpen'
      /\ \A g \in pool' : \E h \in pool : h.mode = g.mode /\ h.inode = g.inode
  BY ReleasedKeyed DEF FilesOK
<1>2. WritesToDisk'
  BY <1>1 DEF FilesOK, WritesToDisk, data
<1>3. KnownIsOnDisk'
  BY DiskKept DEF FilesOK, data, Linked
<1> QED BY <1>1, <1>2, <1>3 DEF FilesOK

LEMMA FilesStep ==
  ASSUME IInv, [Next]_vars
  PROVE  FilesOK'
<1>1. TypesOK /\ PlacesOK /\ UsersCounted /\ KnownOK /\ LocksHeld /\ FilesOK
  BY DEF IInv, FilesOK
<1>2. CASE UNCHANGED vars
  BY <1>1, <1>2, FilesKept DEF vars, data, locks, rest, Linked
<1>3. CASE PoolCloses
  <2>1. /\ pool' \subseteq pool /\ UNCHANGED <<count, handle, ioLocks, object, complete, known, disk, content>>
        /\ \A h \in pool : ~h.released => h \in pool'
    BY <1>3 DEF PoolCloses, data, locks, rest
  <2>2. PoolKeyed' /\ HandlesOpen'
    BY <1>1, <2>1, PoolShrinks DEF FilesOK, Linked
  <2>3. KnownIsOnDisk'
    BY <1>1, <2>1, DiskKept DEF FilesOK, Linked
  <2> QED BY <1>1, <2>1, <2>2, <2>3 DEF FilesOK, WritesToDisk
<1>4. CASE UserDeletes
  <2>1. /\ disk' = [disk EXCEPT ![Path] = 0]
        /\ UNCHANGED <<count, handle, pool, ioLocks, object, complete>>
    BY <1>4 DEF UserDeletes, opened, locks, rest
  <2>2. disk'[Path'] = 0
    BY <1>1, <2>1 DEF TypesOK, Path, Paths
  <2>3. ~complete => disk'.unfinished = 0
    BY <2>1, <2>2 DEF Path
  <2>4. KnownIsOnDisk' /\ WritesToDisk'
    BY <2>1, <2>2, <2>3 DEF KnownIsOnDisk, WritesToDisk
  <2> QED BY <1>1, <2>1, <2>4 DEF FilesOK, PoolKeyed, HandlesOpen, Linked
<1>5. ASSUME NEW c \in Chunks, Download(c) PROVE FilesOK'
  <2>1. c \in Workers /\ c \in Threads
    BY ThreadsAre
  <2>2. CASE StartsRun(c)
    BY <1>1, <2>2, FilesKept DEF StartsRun, data, locks, rest, Linked
  <2>3. CASE Hashing(c)
    <3>1. \E ok, fails : OpenRead(c, ok, fails)
      BY <2>3 DEF Hashing
    <3>2. PoolKeyed' /\ HandlesOpen' /\ WritesToDisk'
      BY <1>1, <3>1, OpenReadKeyed DEF FilesOK
    <3>3. KnownIsOnDisk'
      BY <1>1, <3>1, DiskKept DEF FilesOK, OpenRead, data, rest, Linked
    <3> QED BY <3>2, <3>3 DEF FilesOK
  <2>4. CASE Hashed(c)
    <3>1. PICK next : CloseRead(c, next) /\ pc[c] = "hashed"
      BY <2>4 DEF Hashed
    <3>2. "read" \in Modes /\ count["read"] >= 1
      BY <1>1, <2>1, <3>1, UserIsCounted DEF UsesAt, Modes
    <3> QED BY <1>1, <3>1, <3>2, CloseKept DEF CloseRead, rest
  <2>5. CASE Opening(c)
    BY <1>1, <2>5, OpenWriteKeyed DEF Opening, FilesOK
  <2>6. CASE Writing(c)
    <3>1. KnownIsOnDisk'
      BY <1>1, <2>6, WritingOnDisk DEF FilesOK
    <3>2. UNCHANGED <<opened, disk, complete, object, ioLocks>>
      BY <2>6 DEF Writing, locks
    <3> QED BY <1>1, <3>1, <3>2 DEF FilesOK, PoolKeyed, HandlesOpen, WritesToDisk, Linked, opened
  <2>7. CASE EndsRun(c)
    <3>1. CloseWrite(c) /\ pc[c] \in {"open", "closing"}
      BY <2>7 DEF EndsRun
    <3>2. "write" \in Modes /\ count["write"] >= 1
      BY <1>1, <2>1, <3>1, UserIsCounted DEF UsesAt, Modes, Writers
    <3> QED BY <1>1, <3>1, <3>2, CloseKept DEF CloseWrite, rest
  <2> QED BY <1>5, <2>2, <2>3, <2>4, <2>5, <2>6, <2>7 DEF Download
<1>6. ASSUME NEW c \in Chunks, Completion(c) PROVE FilesOK'
  <2>1. CASE ChunkComplete(c)
    BY <1>1, <2>1, FilesKept DEF ChunkComplete, data, rest, Linked
  <2>2. CASE TakesLocks(c)
    <3>1. /\ ioLocks' = c /\ c # NoThread
          /\ UNCHANGED <<count, handle, pool, known, disk, content, complete, object>>
      BY <2>2, ThreadsAre DEF TakesLocks, opened, data, rest
    <3>2. KnownIsOnDisk'
      BY <1>1, <3>1, DiskKept DEF FilesOK, Linked
    <3> QED BY <1>1, <3>1, <3>2 DEF FilesOK, PoolKeyed, HandlesOpen, WritesToDisk
  <2>3. CASE ForceReleases(c)
    <3>1. /\ pool' \subseteq pool /\ pc[c] = "releasing"
          /\ UNCHANGED <<count, handle, known, disk, content, complete, object, ioLocks>>
      BY <2>3 DEF ForceReleases, data, locks, rest
    <3>2. ioLocks # NoThread
      BY <1>1, <3>1, ThreadsAre DEF LocksHeld
    <3>3. PoolKeyed' /\ HandlesOpen'
      BY <1>1, <3>1, <3>2, PoolShrinks DEF FilesOK, Linked
    <3>4. KnownIsOnDisk'
      BY <1>1, <3>1, DiskKept DEF FilesOK, Linked
    <3> QED BY <1>1, <3>1, <3>3, <3>4 DEF FilesOK, WritesToDisk
  <2>4. CASE Relocks(c)
    <3>1. /\ handle' = [m \in Modes |-> 0] /\ pc[c] = "relocking"
          /\ UNCHANGED <<count, pool, known, disk, content, complete, object>>
      BY <2>4 DEF Relocks, data, rest
    <3>2. pool' = {}
      BY <1>1, <3>1 DEF LocksHeld
    <3>3. PoolKeyed' /\ HandlesOpen'
      BY <1>1, <3>1, <3>2, PoolEmptied
    <3>4. KnownIsOnDisk'
      BY <1>1, <3>1, DiskKept DEF FilesOK, Linked
    <3> QED BY <3>2, <3>3, <3>4 DEF FilesOK, WritesToDisk
  <2>5. CASE Renames(c)
    <3>1. /\ UNCHANGED <<count, handle, pool, ioLocks, object, known, content>>
          /\ pc[c] = "renaming"
      BY <2>5 DEF Renames, opened
    <3>2. CASE UNCHANGED <<disk, complete>>
      <4>1. KnownIsOnDisk'
        BY <1>1, <3>1, <3>2, DiskKept DEF FilesOK, Linked
      <4> QED BY <1>1, <3>1, <3>2, <4>1 DEF FilesOK, PoolKeyed, HandlesOpen, WritesToDisk, Linked
    <3>3. CASE complete' = TRUE /\ disk'["final"] = disk.unfinished
      <4>1. ~complete
        BY <1>1, <3>1 DEF KnownOK, Finishing
      <4>2. disk'[Path'] = disk[Path]
        BY <3>3, <4>1 DEF Path
      <4>3. KnownIsOnDisk'
        BY <1>1, <3>1, <4>2 DEF FilesOK, KnownIsOnDisk
      <4> QED BY <1>1, <3>1, <3>3, <4>3 DEF FilesOK, PoolKeyed, HandlesOpen, WritesToDisk, Linked
    <3>4. UNCHANGED <<disk, complete>> \/ (complete' = TRUE /\ disk'["final"] = disk.unfinished)
      BY <2>5 DEF Renames, Paths
    <3> QED BY <3>2, <3>3, <3>4
  <2> QED BY <1>6, <2>1, <2>2, <2>3, <2>4, <2>5 DEF Completion
<1>7. ASSUME NEW u \in Uploads, Upload(u) PROVE FilesOK'
  <2>1. u \in Workers /\ u \in Threads
    BY ThreadsAre
  <2>2. CASE StartsUpload(u)
    BY <1>1, <2>2, FilesKept DEF StartsUpload, data, locks, rest, Linked
  <2>3. CASE OpensUpload(u)
    <3>1. \E ok, fails : OpenRead(u, ok, fails)
      BY <2>3 DEF OpensUpload
    <3>2. PoolKeyed' /\ HandlesOpen' /\ WritesToDisk'
      BY <1>1, <3>1, OpenReadKeyed DEF FilesOK
    <3>3. KnownIsOnDisk'
      BY <1>1, <3>1, DiskKept DEF FilesOK, OpenRead, data, rest, Linked
    <3> QED BY <3>2, <3>3 DEF FilesOK
  <2>4. CASE EndsUpload(u)
    <3>1. CloseRead(u, "idle") /\ pc[u] = "open"
      BY <2>4 DEF EndsUpload
    <3>2. "read" \in Modes /\ count["read"] >= 1
      BY <1>1, <2>1, <3>1, UserIsCounted DEF UsesAt, Modes
    <3> QED BY <1>1, <3>1, <3>2, CloseKept DEF CloseRead, rest
  <2> QED BY <1>7, <2>2, <2>3, <2>4 DEF Upload
<1>8. ASSUME NEW r \in Removers, Removal(r) PROVE FilesOK'
  <2>1. CASE StartsRemoval(r)
    BY <1>1, <2>1, FilesKept DEF StartsRemoval, data, rest, Linked
  <2>2. CASE RemovesFile(r)
    <3>1. /\ pc[r] = "removing" /\ pool' = pool \ Named(Path) /\ handle' = [m \in Modes |-> 0]
          /\ disk' = [disk EXCEPT ![Path] = 0] /\ UNCHANGED <<count, complete>>
      BY <2>2 DEF RemovesFile, rest
    <3>2. pool' = {}
      BY <1>1, <3>1 DEF LocksHeld, FilesOK, PoolKeyed, Named, Path
    <3>3. PoolKeyed' /\ HandlesOpen'
      BY <1>1, <3>1, <3>2, PoolEmptied
    <3>4. disk'[Path'] = 0
      BY <1>1, <3>1 DEF TypesOK, Path, Paths
    <3> QED BY <3>2, <3>3, <3>4 DEF FilesOK, WritesToDisk, KnownIsOnDisk
  <2>3. CASE Unlinks(r)
    BY <1>1, <2>3, FilesKept DEF Unlinks, locks, Linked
  <2>4. CASE ClosesFile(r)
    <3>1. /\ pc[r] = "closing file" /\ pool' \subseteq pool
          /\ UNCHANGED <<count, handle, known, disk, content, complete, object, ioLocks>>
      BY <2>4 DEF ClosesFile, data, locks, rest
    <3>2. ~Linked
      BY <1>1, <3>1 DEF LocksHeld
    <3>3. PoolKeyed' /\ HandlesOpen'
      BY <1>1, <3>1, <3>2, PoolShrinks DEF FilesOK, Linked
    <3>4. KnownIsOnDisk'
      BY <1>1, <3>1, DiskKept DEF FilesOK, Linked
    <3> QED BY <1>1, <3>1, <3>3, <3>4 DEF FilesOK, WritesToDisk
  <2>5. CASE Deletes(r)
    BY <1>1, <2>5, FilesKept DEF Deletes, data, locks, Linked
  <2> QED BY <1>8, <2>1, <2>2, <2>3, <2>4, <2>5 DEF Removal
<1>9. ASSUME NEW t \in Chunks \cup Uploads, ToldLate(t) \/ UsesDeleted(t) PROVE FilesOK'
  BY <1>1, <1>9, FilesKept DEF ToldLate, UsesDeleted, data, locks, rest, Linked
<1> QED BY <1>2, <1>3, <1>4, <1>5, <1>6, <1>7, <1>8, <1>9 DEF Next

-----------------------------------------------------------------------------
(* The completion.                                                         *)

Completing == {"written"} \cup Finishing

(* A chunk that stays where it completes the file, or one that makes       *)
(* another not full, is enough.                                            *)
LEMMA CompletionMoves ==
  ASSUME PlacesOK, CompletedByLast, KnownOK', NEW t \in Threads, NEW place, Goes(t, place),
         Linked' => Linked, complete => complete', spoiled \subseteq spoiled',
         Linked' /\ (\A c \in Chunks : Full(c)') /\ "rename" \notin spoiled' =>
           \/ complete'
           \/ t \in Chunks /\ place \in Completing
           \/ (\A c \in Chunks : Full(c)) /\ (t \in Chunks => pc[t] \notin Completing)
  PROVE  CompletedByLast'
<1>1. pc'[t] = place /\ \A s \in Threads \ {t} : pc'[s] = pc[s]
  BY DEF PlacesOK, Goes
<1>2. complete' => \A c \in Chunks : Full(c)'
  BY DEF KnownOK
<1>3. ASSUME Linked', "rename" \notin spoiled', \A c \in Chunks : Full(c)', ~complete'
      PROVE  \E c \in Chunks : pc'[c] \in Completing
  <2>1. CASE t \in Chunks /\ place \in Completing
    BY <1>1, <2>1
  <2>2. CASE (\A c \in Chunks : Full(c)) /\ (t \in Chunks => pc[t] \notin Completing)
    <3>1. PICK c \in Chunks : pc[c] \in Completing
      BY <1>3, <2>2 DEF CompletedByLast, Linked, Completing, Finishing
    <3>2. c # t /\ c \in Threads
      BY <2>2, <3>1, ThreadsAre
    <3> QED BY <1>1, <3>1, <3>2
  <2> QED BY <1>3, <2>1, <2>2
<1> QED BY <1>2, <1>3 DEF CompletedByLast, Linked, Completing, Finishing

LEMMA WrittenAtLast ==
  ASSUME TypesOK, PlacesOK, KnownOK, CompletedByLast, KnownOK', NEW c \in Chunks, Writing(c)
  PROVE  CompletedByLast'
<1>1. known[c] < Buffers /\ known[c] \in Nat /\ known \in [Chunks -> 0..Buffers] /\ c \in Threads
  BY SizesAssumption, ThreadsAre DEF Writing, KnownOK, TypesOK
<1>2. UNCHANGED <<complete, object, spoiled>>
  BY DEF Writing
<1>3. \E place : Goes(c, place) /\ (known'[c] = Buffers => place = "written")
  <2>1. CASE known' = [known EXCEPT ![c] = @ + 1]
    <3>1. known' # known /\ known' # [known EXCEPT ![c] = 0]
      BY <1>1, <2>1
    <3> QED BY <3>1 DEF Writing
  <2>2. CASE known' = known \/ known' = [known EXCEPT ![c] = 0]
    <3>1. known'[c] # Buffers
      BY <1>1, <2>2, SizesAssumption
    <3> QED BY <3>1 DEF Writing
  <2> QED BY <2>1, <2>2 DEF Writing
<1>4. (\A d \in Chunks : Full(d)') => known'[c] = Buffers
  BY DEF Full
<1> QED BY <1>1, <1>2, <1>3, <1>4, CompletionMoves DEF Linked, Completing

LEMMA CompletionStep ==
  ASSUME IInv, KnownOK', [Next]_vars
  PROVE  CompletedByLast'
<1>1. TypesOK /\ PlacesOK /\ KnownOK /\ CompletedByLast
  BY DEF IInv
<1> USE DEF opened, data, locks, rest
<1>2. CASE UNCHANGED vars \/ PoolCloses \/ UserDeletes
  <2>1. UNCHANGED <<known, complete, pc, object, spoiled>>
    BY <1>2 DEF vars, PoolCloses, UserDeletes
  <2> QED BY <1>1, <2>1 DEF CompletedByLast, Full
<1>3. ASSUME NEW c \in Chunks, Download(c) PROVE CompletedByLast'
  <2>1. c \in Threads /\ known[c] \in 0..Buffers
    BY <1>1, ThreadsAre DEF TypesOK
  <2>2. CASE StartsRun(c) \/ Hashing(c) \/ Hashed(c) \/ Opening(c)
    <3>1. ~Full(c)
      BY <1>1, <2>2, SizesAssumption DEF StartsRun, Hashing, Hashed, Opening, KnownOK, Full
    <3>2. Full(c)' => Full(c)
      <4>1. UNCHANGED known \/ known' = [d \in Chunks |-> 0]
        BY <2>2 DEF StartsRun, Hashing, Hashed, Opening, OpenRead, CloseRead, OpenWrite, Created
      <4> QED BY <4>1, SizesAssumption DEF Full
    <3>3. UNCHANGED <<complete, object>>
      BY <2>2 DEF StartsRun, Hashing, Hashed, Opening, OpenRead, CloseRead, OpenWrite
    <3>4. spoiled \subseteq spoiled'
      BY <2>2 DEF StartsRun, Hashing, Hashed, Opening, OpenRead, CloseRead, OpenWrite, Created
    <3>5. \E place : Goes(c, place)
      BY <2>2 DEF StartsRun, Hashing, Hashed, Opening, OpenRead, CloseRead, OpenWrite, Created
    <3> QED BY <1>1, <2>1, <3>1, <3>2, <3>3, <3>4, <3>5, CompletionMoves DEF Linked
  <2>3. CASE Writing(c)
    BY <1>1, <2>3, WrittenAtLast
  <2>4. CASE EndsRun(c)
    <3>1. Goes(c, "idle") /\ UNCHANGED <<known, complete, object, spoiled>> /\ pc[c] \notin Completing
      BY <2>4 DEF EndsRun, CloseWrite, Completing, Finishing
    <3>2. (\A d \in Chunks : Full(d)') => \A d \in Chunks : Full(d)
      BY <3>1 DEF Full
    <3> QED BY <1>1, <2>1, <3>1, <3>2, CompletionMoves DEF Linked
  <2> QED BY <1>3, <2>2, <2>3, <2>4 DEF Download
<1>4. ASSUME NEW c \in Chunks, Completion(c) PROVE CompletedByLast'
  <2>1. c \in Threads
    BY ThreadsAre
  <2>2. CASE ChunkComplete(c)
    <3>1. UNCHANGED <<known, complete, object, spoiled>>
      BY <2>2 DEF ChunkComplete
    <3>2. (\A d \in Chunks : Full(d)') <=> LastChunk(c)
      BY <3>1 DEF Full, LastChunk
    <3>3. \E place : Goes(c, place) /\ (Linked /\ LastChunk(c) => complete \/ place \in Finishing)
      BY <2>2 DEF ChunkComplete, Linked, Finishing
    <3> QED BY <1>1, <2>1, <3>1, <3>2, <3>3, CompletionMoves DEF Linked, Completing
  <2>3. CASE TakesLocks(c) \/ ForceReleases(c) \/ Relocks(c)
    <3>1. UNCHANGED <<known, complete, object, spoiled>> /\ \E place \in Finishing : Goes(c, place)
      BY <2>3 DEF TakesLocks, ForceReleases, Relocks, Finishing
    <3> QED BY <1>1, <2>1, <3>1, CompletionMoves DEF Linked, Completing
  <2>4. CASE Renames(c)
    <3>1. /\ object' = object /\ \E place : Goes(c, place)
          /\ \/ complete' = TRUE /\ spoiled' = spoiled
             \/ complete' = complete /\ spoiled' = spoiled \cup {"rename"}
      BY <2>4 DEF Renames
    <3>2. spoiled \subseteq spoiled' /\ (complete => complete') /\ (complete' \/ "rename" \in spoiled')
      BY <3>1
    <3> QED BY <1>1, <2>1, <3>1, <3>2, CompletionMoves DEF Linked
  <2> QED BY <1>4, <2>2, <2>3, <2>4 DEF Completion
<1>5. ASSUME NEW t \in Threads, NEW place, Goes(t, place), UNCHANGED <<known, complete>>,
             Linked' => Linked, spoiled \subseteq spoiled',
             Linked' => (t \in Chunks => pc[t] \notin Completing)
      PROVE  CompletedByLast'
  <2>1. (\A d \in Chunks : Full(d)') => \A d \in Chunks : Full(d)
    BY <1>5 DEF Full
  <2> QED BY <1>1, <1>5, <2>1, CompletionMoves
<1>6. ASSUME NEW u \in Uploads, Upload(u) PROVE CompletedByLast'
  <2>1. /\ UNCHANGED <<known, complete, object>> /\ spoiled \subseteq spoiled' /\ \E place : Goes(u, place)
    BY <1>6 DEF Upload, StartsUpload, OpensUpload, EndsUpload, OpenRead, CloseRead
  <2> QED BY <1>5, <2>1, ThreadsAre DEF Linked
<1>7. ASSUME NEW r \in Removers, Removal(r) PROVE CompletedByLast'
  <2>1. /\ UNCHANGED <<known, complete, spoiled>> /\ \E place : Goes(r, place)
    BY <1>7 DEF Removal, StartsRemoval, RemovesFile, Unlinks, ClosesFile, Deletes
  <2>2. Linked' => Linked
    BY <1>7 DEF Removal, StartsRemoval, RemovesFile, Unlinks, ClosesFile, Deletes, Linked
  <2> QED BY <1>5, <2>1, <2>2, ThreadsAre
<1>8. ASSUME NEW t \in Chunks \cup Uploads, ToldLate(t) \/ UsesDeleted(t) PROVE CompletedByLast'
  <2>1. Goes(t, "idle") /\ UNCHANGED <<known, complete, object, spoiled>> /\ t \in Threads /\ ~Linked
    BY <1>8, ThreadsAre DEF ToldLate, UsesDeleted, Linked
  <2> QED BY <1>5, <2>1 DEF Linked
<1> QED BY <1>2, <1>3, <1>4, <1>6, <1>7, <1>8 DEF Next

(* A handle that is closed is not written: while the chunks know their     *)
(* file, one that is not null is open.                                     *)
LEMMA CrashStep ==
  ASSUME IInv, [Next]_vars
  PROVE  NotCrashed'
<1>1. TypesOK /\ HandlesOpen /\ NotCrashed
  BY DEF IInv
<1> USE DEF opened, data, locks, rest
<1>2. ASSUME UNCHANGED crashed, Linked' => Linked PROVE NotCrashed'
  BY <1>1, <1>2 DEF NotCrashed
<1>3. CASE UNCHANGED vars \/ PoolCloses \/ UserDeletes
  BY <1>2, <1>3 DEF vars, PoolCloses, UserDeletes, Linked
<1>4. ASSUME NEW c \in Chunks, Download(c) PROVE NotCrashed'
  <2>1. CASE Writing(c)
    <3>1. object' = object
      BY <2>1 DEF Writing
    <3>2. CASE UNCHANGED crashed
      BY <1>2, <3>1, <3>2 DEF Linked
    <3>3. CASE handle.write \notin {h.id : h \in pool} /\ crashed' = (handle.write # 0)
      <4>1. ASSUME Linked PROVE handle["write"] = 0
        <5>1. ioLocks = NoThread /\ "write" \in Modes
          BY <2>1 DEF Writing, Modes
        <5> QED BY <1>1, <3>3, <4>1, <5>1 DEF HandlesOpen
      <4> QED BY <3>1, <3>3, <4>1 DEF NotCrashed, Linked
    <3> QED BY <2>1, <3>2, <3>3 DEF Writing
  <2>2. CASE ~Writing(c)
    <3>1. UNCHANGED <<crashed, object>>
      BY <1>4, <2>2 DEF Download, StartsRun, Hashing, Hashed, Opening, EndsRun,
                        OpenRead, CloseRead, OpenWrite, CloseWrite
    <3> QED BY <1>2, <3>1 DEF Linked
  <2> QED BY <2>1, <2>2
<1>5. ASSUME NEW c \in Chunks, Completion(c) PROVE NotCrashed'
  <2>1. object' = object /\ (Linked => crashed' = crashed)
    BY <1>5 DEF Completion, ChunkComplete, TakesLocks, ForceReleases, Relocks, Renames, Linked
  <2> QED BY <1>1, <2>1 DEF NotCrashed, Linked
<1>6. ASSUME NEW u \in Uploads, Upload(u) PROVE NotCrashed'
  <2>1. UNCHANGED <<crashed, object>>
    BY <1>6 DEF Upload, StartsUpload, OpensUpload, EndsUpload, OpenRead, CloseRead
  <2> QED BY <1>2, <2>1 DEF Linked
<1>7. ASSUME NEW r \in Removers, Removal(r) PROVE NotCrashed'
  <2>1. crashed' = crashed /\ (Linked' => Linked)
    BY <1>7 DEF Removal, StartsRemoval, RemovesFile, Unlinks, ClosesFile, Deletes, Linked
  <2> QED BY <1>2, <2>1
<1>8. ASSUME NEW t \in Chunks \cup Uploads, ToldLate(t) \/ UsesDeleted(t) PROVE NotCrashed'
  <2>1. object' = object /\ object # "linked"
    BY <1>8 DEF ToldLate, UsesDeleted
  <2> QED BY <2>1 DEF NotCrashed, Linked
<1> QED BY <1>3, <1>4, <1>5, <1>6, <1>7, <1>8 DEF Next

-----------------------------------------------------------------------------
(* The inductive invariant.                                                *)

LEMMA InitIInv ==
  ASSUME Init
  PROVE  IInv
<1>1. /\ pc \in [Threads -> Places] /\ \A t \in Threads : pc[t] = "idle"
      /\ \A m \in Modes : count[m] = 0 /\ handle[m] = 0
      /\ pool = {} /\ Linked /\ ~complete /\ ~crashed
      /\ disk["unfinished"] = 1 /\ disk \in [Paths -> {0, 1}]
      /\ known \in [Chunks -> 0..Buffers]
      /\ mutex = NoThread /\ ioLocks = NoThread
  BY DEF Init, Linked, Paths, Places
<1>2. PlacesOK
  BY <1>1 DEF PlacesOK, PlacesOf, Writers
<1>3. \A c \in Chunks, n \in 0..Buffers : Written(c, n) \subseteq Chunks \X (1..Buffers)
  BY SizesAssumption DEF Written
<1>4. TypesOK
  <2>1. content \in [Inodes -> SUBSET (Chunks \X (1..Buffers))]
    <3>1. UNION {Written(c, known[c]) : c \in Chunks} \subseteq Chunks \X (1..Buffers)
      BY <1>1, <1>3
    <3> QED BY <3>1 DEF Init
  <2>2. disk \in [Paths -> {0} \cup Inodes]
    BY <1>1, IdsAre
  <2>3. /\ count \in [Modes -> Nat] /\ handle \in [Modes -> {0} \cup Ids]
        /\ faults \in 0..MaxFaults /\ indexed \subseteq Chunks
        /\ spoiled \subseteq {"read", "write", "rename"}
    BY SizesAssumption DEF Init
  <2> QED BY <1>1, <2>1, <2>2, <2>3 DEF Init, TypesOK
<1>5. UsersCounted
  <2> SUFFICES ASSUME NEW m \in Modes PROVE CountedFor(m)
    BY DEF UsersCounted
  <2>1. Users(m) = {}
    <3>1. \A t \in Workers : ~UsesAt(m, t, pc[t])
      BY <1>1, WorkersFinite DEF UsesAt, Writers, Finishing
    <3> QED BY <3>1 DEF Users
  <2>2. m \notin spoiled
    BY DEF Init, Modes
  <2> QED BY <1>1, <2>1, <2>2, FS_EmptySet DEF CountedFor
<1>6. KnownOK /\ LocksHeld /\ PoolKeyed /\ HandlesOpen /\ WritesToDisk /\ NotCrashed
  BY <1>1, ThreadsAre DEF KnownOK, LocksHeld, PoolKeyed, HandlesOpen, WritesToDisk, NotCrashed, Finishing
<1>7. KnownIsOnDisk
  <2>1. disk[Path] = 1
    BY <1>1 DEF Path
  <2>2. content[1] = UNION {Written(c, known[c]) : c \in Chunks}
    BY IdsAre DEF Init
  <2> QED BY <2>1, <2>2 DEF KnownIsOnDisk
<1>8. CompletedByLast
  BY DEF Init, CompletedByLast
<1> QED BY <1>2, <1>4, <1>5, <1>6, <1>7, <1>8 DEF IInv

LEMMA NextIInv ==
  ASSUME IInv, [Next]_vars
  PROVE  IInv'
<1>1. TypesOK' /\ PlacesOK'
  BY TypesStep
<1>2. UsersCounted' /\ KnownOK' /\ LocksHeld' /\ NotCrashed'
  BY <1>1, UsersStep, KnownStep, LocksStep, CrashStep
<1>3. FilesOK' /\ CompletedByLast'
  BY <1>2, FilesStep, CompletionStep
<1> QED BY <1>1, <1>2, <1>3 DEF IInv, FilesOK

(* The counts are below their bound: as many as the threads, and one open  *)
(* that failed.                                                            *)
LEMMA TypesBound == IInv => TypeOK
<1> SUFFICES ASSUME IInv PROVE TypeOK
  OBVIOUS
<1>1. TypesOK /\ PlacesOK /\ UsersCounted
  BY DEF IInv
<1>2. /\ IsFiniteSet(Threads) /\ Cardinality(Threads) \in Nat
      /\ Cardinality(Workers) \in Nat /\ Cardinality(Workers) <= Cardinality(Threads)
      /\ Cardinality(Threads) >= 1
  <2>1. IsFiniteSet(Threads)
    <3>1. IsFiniteSet(Removers)
      BY TwoElements, ThreadsAssumption DEF Removers
    <3>2. Threads = Workers \cup Removers
      BY DEF Threads, Workers
    <3> QED BY <3>1, <3>2, WorkersFinite, FS_Union
  <2>2. Threads # {}
    BY DEF Threads, Removers
  <2>3. Cardinality(Threads) \in Nat /\ Cardinality(Threads) # 0
    BY <2>1, <2>2, FS_EmptySet, FS_CardinalityType
  <2> QED BY <2>1, <2>3, WorkersFinite, FS_Subset, FS_CardinalityType
<1>3. ASSUME NEW m \in Modes PROVE count[m] \in 0..(2 * Cardinality(Threads) + MaxFaults)
  <2>1. CountedFor(m) /\ count[m] \in Nat
    BY <1>1 DEF UsersCounted, TypesOK
  <2>2. Cardinality(Users(m) \cup AtRest) <= Cardinality(Workers)
    <3>1. Users(m) \cup AtRest \subseteq Workers
      BY DEF Users, AtRest
    <3> QED BY <3>1, WorkersFinite, FS_Subset
  <2>3. count[m] <= Cardinality(Workers) + 1
    BY <1>2, <2>1, <2>2, UsersFinite DEF CountedFor
  <2> QED BY <1>2, <2>1, <2>3, SizesAssumption
<1>4. count \in [Modes -> 0..(2 * Cardinality(Threads) + MaxFaults)]
  BY <1>1, <1>3 DEF TypesOK
<1> QED BY <1>1, <1>4 DEF TypesOK, PlacesOK, TypeOK

(* What is open in the pool and in use is what the file holds, and when    *)
(* all have left nothing is.                                               *)
LEMMA HandlesAreOwned == IInv => HandlesOwned
<1> SUFFICES ASSUME IInv, Linked, ioLocks = NoThread, NEW m \in Modes
             PROVE  /\ {h.id : h \in {g \in pool : g.mode = m /\ ~g.released}} = {handle[m]} \ {0}
                    /\ (\A t \in Workers : pc[t] = "idle") /\ m \notin spoiled =>
                         count[m] = 0 /\ \A h \in pool : h.mode = m => h.released
  BY DEF HandlesOwned, Linked, Workers
<1>1. TypesOK /\ UsersCounted /\ PoolKeyed /\ HandlesOpen
  BY DEF IInv
<1>2. \A h \in pool : h.mode = m /\ ~h.released => h.id = handle[m] /\ h.id # 0
  BY <1>1, IdsAre DEF PoolKeyed, TypesOK, Handles
<1>3. handle[m] # 0 => \E h \in pool : h.id = handle[m] /\ h.mode = m /\ ~h.released
  BY <1>1 DEF HandlesOpen
<1>4. ASSUME \A t \in Workers : pc[t] = "idle", m \notin spoiled
      PROVE  count[m] = 0
  <2>1. Users(m) = {}
    BY <1>4 DEF Users, UsesAt, Writers, Finishing
  <2> QED BY <1>1, <1>4, <2>1, FS_EmptySet DEF UsersCounted, CountedFor
<1>5. count[m] = 0 => \A h \in pool : h.mode = m => h.released
  BY <1>1, <1>2 DEF PoolKeyed
<1> QED BY <1>2, <1>3, <1>4, <1>5

LEMMA AlwaysIInv == Spec => []IInv
<1>1. Init => IInv
  BY InitIInv
<1>2. IInv /\ [Next]_vars => IInv'
  BY NextIInv
<1> QED BY <1>1, <1>2, PTL DEF Spec

(* Every variable has its type: the counts of readers and writers, that    *)
(* are unsigned, never wrap, whatever fails and whoever leaves.            *)
THEOREM TypeCorrect == Spec => []TypeOK
BY AlwaysIInv, TypesBound, PTL

(* The file and the pool agree on what is open, through the completion,    *)
(* the removal and the failures of File::newDataReaderCreated and the like.*)
THEOREM HandlesAlwaysOwned == Spec => []HandlesOwned
BY AlwaysIInv, HandlesAreOwned, PTL

(* Chunk::knownBytes counts data the file of the disk really has, whoever  *)
(* deleted, created or renamed it.                                         *)
THEOREM KnownAlwaysOnDisk == Spec => []KnownIsOnDisk
<1>1. IInv => KnownIsOnDisk
  BY DEF IInv
<1> QED BY <1>1, AlwaysIInv, PTL

(* File::chunkComplete is decided by the last chunk also when two chunks   *)
(* end together, and a file that is complete has all its chunks.           *)
THEOREM AlwaysCompletedByLast == Spec => []CompletedByLast
<1>1. IInv => CompletedByLast
  BY DEF IInv
<1> QED BY <1>1, AlwaysIInv, PTL

(* File::write never uses a handle that has been closed while the chunks   *)
(* know their file: what is deleted is used only after File::del.          *)
THEOREM NothingDeletedIsUsed == Spec => []NotCrashed
<1>1. IInv => NotCrashed
  BY DEF IInv
<1> QED BY <1>1, AlwaysIInv, PTL
=============================================================================

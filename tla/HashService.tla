----------------------------- MODULE HashService -----------------------------
(***************************************************************************)
(* The hashes of the shared files: FileUpdater, a thread that scans the    *)
(* shared directories and computes the hashes of what it finds, one chunk  *)
(* at a time (FileHasher), and GetHashesResult, which asks on behalf of a  *)
(* peer for the hashes of a file and hears of them as they are known.      *)
(*                                                                         *)
(* The updater and the main thread interleave.  A place of theirs, `at',   *)
(* says which mutexes they have: a step that holds a mutex from its        *)
(* beginning to its end is one action, and what keeps one over several     *)
(* actions is guarded by the predicates ListsFree, HasherFree, MutexFree.  *)
(***************************************************************************)
EXTENDS Integers, Sequences, FiniteSets, SequencesExt, Filters

CONSTANTS
  Files, Roots,   \* files and the shared directories they are in
  RootOf, NbChunk,
  Requests,       \* requests of hashes from peers
  NoFile, NoRoot,
  MaxFaults       \* bound: files created, removed, that cannot be read; roots shared or removed

Chunks(f) == 1..NbChunk[f]
AllChunks == UNION {Chunks(f) : f \in Files}
Under(R)  == {f \in Files : RootOf[f] \in R}

ASSUME RootsAssumption == RootOf \in [Files -> Roots] /\ NoRoot \notin Roots /\ IsFiniteSet(Roots)
ASSUME FilesAssumption == NbChunk \in [Files -> Nat \ {0}] /\ NoFile \notin Files
ASSUME FaultsAssumption == MaxFaults \in Nat

VARIABLES
  disk,       \* the files that are in the directories
  cached,     \* those the cache has an object of
  hash,       \* the chunks whose hash is known
  prioritized, others,   \* filesWithoutHashesPrioritized, filesWithoutHashes
  toStopHashing,         \* that of FileUpdater
  hasher,     \* FileHasher::hashing, toStopHashing
  shared,     \* Cache::sharedEntries, and the directories watched
  toScan, toRemove,      \* entriesToScan, entriesToRemove
  scanning,   \* currentScanningEntry
  dirEvent,   \* has dirEvent been released?
  events,     \* roots with events of the file system to be read
  upd, main,  \* what the updater and the main thread do next
  request,    \* the GetHashesResults
  failed,     \* history: the files given up
  crashed, faults

lists  == <<prioritized, others, toStopHashing>>
roots  == <<shared, toScan, toRemove, scanning, dirEvent>>
world  == <<disk, events>>
ends   == <<failed, crashed, faults>>
vars   == <<disk, cached, hash, lists, hasher, roots, events, upd, main, request, ends>>

Hashed(f)   == hash[f] = Chunks(f)
Listed      == Range(prioritized) \cup Range(others)
Without(s, gone) == Only(s, Files \ gone)

(* The updater holds FileUpdater::hashingMutex while it picks a file, and  *)
(* FileHasher::hashingMutex from the reading of a chunk to the signal;     *)
(* rmRoot() has FileUpdater::mutex and hashingMutex while it waits.        *)
ListsFree  == upd.at # "pick"
HasherFree == upd.at # "known"
MutexFree  == main.at \notin {"awaits hasher", "removes"}

Goes(place)     == upd' = [upd EXCEPT !.at = place]
MainGoes(place) == main' = [main EXCEPT !.at = place]
Fault == faults < MaxFaults /\ faults' = faults + 1
Live  == ~crashed

-----------------------------------------------------------------------------
(* GetHashesResult.                                                        *)

NoRequest == [state |-> "none", file |-> NoFile, have |-> {}, sent |-> {}, remaining |-> {}]

(* The chunks to be sent: those whose hash is in the entry of the peer.    *)
ToBeSent(f, have) == have

(* chunkHashKnown() and sendNextHash(): what a connected request does when *)
(* the hash of chunk c of f is known, asked for or not.                    *)
Connected_Late(r) == request[r].state = "waiting"   \* mutant: connected once prioritized
Connected(r) == request[r].state \in {"started", "waiting"} /\ request[r].remaining # {}
Heard(f, c) ==
  [r \in Requests |->
    IF Connected(r) /\ request[r].file = f
    THEN [request[r] EXCEPT !.remaining = @ \ {c}, !.sent = @ \cup {c}]
    ELSE request[r]]

(* start(), then prioritizeAFileToHash() if a hash is missing.             *)
Start(r, f, have) ==
  /\ Live /\ main.at = "idle" /\ request[r].state = "none"
  /\ have # Chunks(f)
  /\ IF f \in cached /\ RootOf[f] \in shared
     THEN LET asked == ToBeSent(f, have)
          IN /\ request' = [request EXCEPT ![r] =
                  [state |-> IF asked \subseteq hash[f] THEN "waiting" ELSE "started",
                   file |-> f, have |-> have, sent |-> asked \cap hash[f], remaining |-> asked \ hash[f]]]
             /\ main' = IF asked \subseteq hash[f] THEN main ELSE [main EXCEPT !.at = "asks", !.file = f]
     ELSE request' = [request EXCEPT ![r] = [@ EXCEPT !.state = "refused"]] /\ UNCHANGED main
  /\ UNCHANGED <<world, cached, hash, lists, hasher, roots, upd, ends>>

Prioritize_Twice ==   \* mutant: the file may be in the list already
  /\ Live /\ main.at = "asks" /\ ListsFree
  /\ request' = [r \in Requests |->
       IF request[r].state = "started" THEN [request[r] EXCEPT !.state = "waiting"] ELSE request[r]]
  /\ LET f == main.file
     IN IF Hashed(f) \/ \E r \in Requests : request[r].state = "started" /\ request[r].remaining = {}
        THEN UNCHANGED lists
        ELSE /\ others' = Without(others, {f})
             /\ prioritized' = Append(prioritized, f)
             /\ toStopHashing' = TRUE
  /\ main' = [main EXCEPT !.at = "idle", !.file = NoFile]
  /\ UNCHANGED <<world, cached, hash, hasher, roots, upd, ends>>
Prioritize ==
  /\ Live /\ main.at = "asks" /\ ListsFree
  /\ request' = [r \in Requests |->
       IF request[r].state = "started" THEN [request[r] EXCEPT !.state = "waiting"] ELSE request[r]]
  /\ LET f == main.file
     IN IF Hashed(f) \/ \E r \in Requests : request[r].state = "started" /\ request[r].remaining = {}
        THEN UNCHANGED lists
        ELSE /\ others' = Without(others, {f})
             /\ prioritized' = IF Contains(prioritized, f) THEN prioritized ELSE Append(prioritized, f)
             /\ toStopHashing' = TRUE
  /\ main' = [main EXCEPT !.at = "idle", !.file = NoFile]
  /\ UNCHANGED <<world, cached, hash, hasher, roots, upd, ends>>

(* The socket of the peer is closed, or has all its hashes.                *)
Ends(r) ==
  /\ Live /\ main.at = "idle" /\ request[r].state \in {"started", "waiting"}
  /\ request' = [request EXCEPT ![r] = [NoRequest EXCEPT !.state = "ended"]]
  /\ UNCHANGED <<world, cached, hash, lists, hasher, roots, upd, main, ends>>

-----------------------------------------------------------------------------
(* computeSomeHashes() and FileHasher::start() for one chunk.              *)

Compute_StaysStopped ==   \* mutant: toStopHashing is not reset
  /\ Live /\ upd.at = "compute" /\ MutexFree
  /\ IF toStopHashing THEN Goes("remove")
     ELSE Goes("pick")
  /\ UNCHANGED <<world, cached, hash, lists, hasher, roots, main, request, ends>>
Compute ==
  /\ Live /\ upd.at = "compute" /\ MutexFree
  /\ IF toStopHashing
     THEN toStopHashing' = FALSE /\ Goes("remove")
     ELSE UNCHANGED toStopHashing /\ Goes("pick")
  /\ UNCHANGED <<world, cached, hash, prioritized, others, hasher, roots, main, request, ends>>

(* upd.first: is the list the prioritized one?  The other comes after it.  *)
List == IF upd.first THEN prioritized ELSE others
Pick ==
  /\ Live /\ upd.at = "pick"
  /\ \/ /\ List # <<>>
        /\ IF Head(List) \in cached
           THEN upd' = [upd EXCEPT !.at = "start", !.file = Head(List)] /\ UNCHANGED crashed
           ELSE crashed' = TRUE /\ UNCHANGED upd
     \/ /\ List = <<>>
        /\ upd' = IF upd.first THEN [upd EXCEPT !.first = FALSE]
                  ELSE [upd EXCEPT !.first = TRUE, !.at = "remove"]
        /\ UNCHANGED crashed
  /\ UNCHANGED <<world, cached, hash, lists, hasher, roots, main, request, failed, faults>>

Stopped == [hashing |-> FALSE, toStop |-> FALSE]
(* IOErrorException: the file leaves its list.                             *)
Fails ==
  /\ IF upd.file \in disk THEN Fault ELSE UNCHANGED faults
  /\ failed' = failed \cup {upd.file}
  /\ hasher' = Stopped
  /\ upd' = [upd EXCEPT !.at = "ended", !.got = TRUE]
  /\ UNCHANGED hash

HasherStarts ==
  /\ Live /\ upd.at = "start"
  /\ \/ /\ hasher.toStop
        /\ hasher' = Stopped
        /\ upd' = [upd EXCEPT !.at = "ended", !.got = FALSE]
        /\ UNCHANGED <<failed, faults, hash>>
     \/ /\ ~hasher.toStop /\ upd.file \in disk
        /\ hasher' = [hasher EXCEPT !.hashing = TRUE]
        /\ Goes("reading")
        /\ UNCHANGED <<failed, faults, hash>>
     \/ ~hasher.toStop /\ Fails
  /\ UNCHANGED <<world, cached, lists, roots, main, request, crashed>>

(* The mutex is free for an instant before each read: stop() may have come.*)
HasherStops ==
  /\ Live /\ upd.at = "reading" /\ hasher.toStop
  /\ hasher' = Stopped
  /\ upd' = [upd EXCEPT !.at = "ended", !.got = FALSE]
  /\ main' = IF main.at = "awaits hasher" THEN [main EXCEPT !.at = "removes"] ELSE main
  /\ UNCHANGED <<world, cached, hash, lists, roots, request, ends>>

(* The chunks known at the beginning of the file are skipped.              *)
HasherReads ==
  /\ Live /\ upd.at = "reading" /\ ~hasher.toStop
  /\ \E c \in Chunks(upd.file) \ hash[upd.file] :
       /\ \A d \in Chunks(upd.file) \ hash[upd.file] : c <= d
       /\ hash' = [hash EXCEPT ![upd.file] = @ \cup {c}]
       /\ upd' = [upd EXCEPT !.at = "known", !.chunk = c]
  /\ UNCHANGED <<world, cached, lists, hasher, roots, main, request, ends>>

HasherFindsAll ==
  /\ Live /\ upd.at = "reading" /\ ~hasher.toStop /\ Hashed(upd.file)
  /\ hasher' = Stopped
  /\ upd' = [upd EXCEPT !.at = "ended", !.got = TRUE]
  /\ UNCHANGED <<world, cached, hash, lists, roots, main, request, ends>>

HasherFails ==
  /\ Live /\ upd.at = "reading" /\ ~hasher.toStop /\ Fails
  /\ UNCHANGED <<world, cached, lists, roots, main, request, crashed>>

(* onChunkHashKnown(), in the thread of the updater, then the end of start:*)
(* did it come to the end of the file?                                     *)
HashKnown ==
  /\ Live /\ upd.at = "known"
  /\ request' = Heard(upd.file, upd.chunk)
  /\ hasher' = Stopped
  /\ upd' = [upd EXCEPT !.at = "ended", !.chunk = 1, !.got = (upd.chunk = NbChunk[upd.file])]
  /\ UNCHANGED <<world, cached, hash, lists, roots, main, ends>>

(* The lists may have changed since the file was picked.                   *)
First_Any(list) == list # <<>>   \* mutant
First(list) == list # <<>> /\ Head(list) = upd.file

Leaves ==
  IF upd.got /\ First(List) THEN Tail(List)
  ELSE IF upd.first /\ Len(List) > 1 /\ First(List) THEN Append(Tail(List), upd.file)
  ELSE List
Hashes ==
  /\ Live /\ upd.at = "ended" /\ MutexFree
  /\ IF upd.first THEN prioritized' = Leaves /\ UNCHANGED others
     ELSE others' = Leaves /\ UNCHANGED prioritized
  /\ toStopHashing' = FALSE
  /\ \E goesOn \in BOOLEAN :   \* is MINIMUM_DURATION_WHEN_HASHING still to come?
       /\ toStopHashing => ~goesOn
       /\ upd' = [upd EXCEPT !.at = IF goesOn THEN "pick" ELSE "remove", !.file = NoFile, !.got = FALSE,
                             !.first = @ \/ ~goesOn]
  /\ UNCHANGED <<world, cached, hash, hasher, roots, main, request, ends>>

-----------------------------------------------------------------------------
(* The loop of the updater.                                                *)

(* del(): the objects will be deleted.  A request that had one never hears *)
(* of it again.                                                            *)
Deleted(gone) ==
  /\ cached' = cached \ gone
  /\ UNCHANGED hash
  /\ request' = [r \in Requests |->
       IF request[r].state \in {"started", "waiting"} /\ request[r].file \in gone
       THEN [NoRequest EXCEPT !.state = "orphan"] ELSE request[r]]
DeleteEntries(gone) ==
  /\ prioritized' = Without(prioritized, gone)
  /\ others' = Without(others, gone)
  /\ Deleted(gone)

Watched == shared \cup toRemove \cup {main.root}
NothingToDo == toScan = <<>> /\ prioritized = <<>> /\ others = <<>>

RemoveRoots ==
  /\ Live /\ upd.at = "remove" /\ MutexFree
  /\ Deleted(cached \cap Under(toRemove))
  /\ toRemove' = {}
  /\ Goes(IF Watched \ toRemove = {NoRoot} \/ toScan # <<>>
          THEN IF NothingToDo THEN "awaits root" ELSE "take"
          ELSE IF NothingToDo THEN "awaits" ELSE "polls")
  /\ UNCHANGED <<world, lists, hasher, shared, toScan, scanning, dirEvent, main, ends>>

Awakes ==
  /\ Live /\ upd.at \in {"awaits root", "awaits"} /\ dirEvent
  /\ dirEvent' = FALSE
  /\ Goes(IF upd.at = "awaits" THEN "compute" ELSE "take")
  /\ UNCHANGED <<world, cached, hash, lists, hasher, shared, toScan, toRemove, scanning, main, request, ends>>

(* waitEvent() and processEvents(): NEW and DELETED.                       *)
ProcessEvents ==
  /\ Live /\ MutexFree
  /\ \/ upd.at = "polls"
     \/ upd.at = "awaits" /\ events # {}
  /\ LET known == {f \in events : RootOf[f] \in shared}
         news  == {RootOf[f] : f \in known \cap disk} \ Range(toScan)
     IN /\ DeleteEntries((known \ disk) \cap cached)
        /\ toScan' = toScan \o SetToSeq(news)
  /\ events' = {}
  /\ Goes("compute")
  /\ UNCHANGED <<disk, toStopHashing, hasher, shared, toRemove, scanning, dirEvent, main, ends>>

TakeRoot ==
  /\ Live /\ upd.at = "take" /\ MutexFree
  /\ IF toScan = <<>> THEN Goes("compute") /\ UNCHANGED toScan
     ELSE /\ upd' = [upd EXCEPT !.at = "scan", !.root = Last(toScan)]
          /\ toScan' = Front(toScan)
  /\ UNCHANGED <<world, cached, hash, lists, hasher, shared, toRemove, scanning, dirEvent, main, request, ends>>

-----------------------------------------------------------------------------
(* scan() of a directory.                                                  *)

ScanBegins ==
  /\ Live /\ upd.at = "scan"
  /\ scanning' = upd.root
  /\ upd' = [upd EXCEPT !.at = "scanning", !.left = disk \cap Under({upd.root}),
                        !.unseen = cached \cap Under({upd.root})]
  /\ UNCHANGED <<world, cached, hash, lists, hasher, shared, toScan, toRemove, dirEvent, main, request, ends>>

ScanFile(f) ==
  /\ Live /\ upd.at = "scanning" /\ f \in upd.left /\ scanning # NoRoot /\ MutexFree
  /\ cached' = cached \cup {f}
  /\ hash' = IF f \in cached THEN hash ELSE [hash EXCEPT ![f] = {}]
  /\ others' = IF hash'[f] = Chunks(f) \/ f \in Listed THEN others ELSE Append(others, f)
  /\ upd' = [upd EXCEPT !.left = @ \ {f}, !.unseen = @ \ {f}]
  /\ UNCHANGED <<world, prioritized, toStopHashing, hasher, roots, main, request, ends>>

ScanReturns ==
  /\ scanning' = NoRoot
  /\ upd' = [upd EXCEPT !.at = "compute", !.root = NoRoot, !.left = {}, !.unseen = {}]
  /\ main' = IF main.at = "awaits scan" THEN [main EXCEPT !.at = "rm"] ELSE main

ScanAborts ==
  /\ Live /\ upd.at = "scanning" /\ upd.left # {} /\ scanning = NoRoot
  /\ ScanReturns
  /\ UNCHANGED <<world, cached, hash, lists, hasher, shared, toScan, toRemove, dirEvent, request, ends>>

(* What was not seen on the disk is removed from the cache.                *)
ScanEnds ==
  /\ Live /\ upd.at = "scanning" /\ upd.left = {} /\ MutexFree
  /\ DeleteEntries(upd.unseen)
  /\ ScanReturns
  /\ UNCHANGED <<world, toStopHashing, hasher, shared, toScan, toRemove, dirEvent, ends>>

-----------------------------------------------------------------------------
(* The shared directories, added and removed by the main thread.           *)

AddRoot(root) ==
  /\ Live /\ main.at = "idle" /\ root \notin shared \cup toRemove \cup {upd.root}
  /\ Under({root}) \cap cached = {}
  /\ shared' = shared \cup {root}
  /\ toScan' = Append(toScan, root)
  /\ dirEvent' = TRUE
  /\ UNCHANGED <<world, cached, hash, lists, hasher, toRemove, scanning, upd, main, request, ends>>

(* removeSharedEntry(), rmRoot() and its stopScanning().                   *)
RmRoot(root) ==
  /\ Live /\ main.at = "idle" /\ root \in shared /\ Fault
  /\ shared' = shared \ {root}
  /\ IF scanning = root
     THEN scanning' = NoRoot /\ main' = [main EXCEPT !.at = "awaits scan", !.root = root] /\ UNCHANGED toScan
     ELSE /\ toScan' = Only(toScan, Roots \ {root})
          /\ main' = [main EXCEPT !.at = "rm", !.root = root]
          /\ UNCHANGED scanning
  /\ UNCHANGED <<world, cached, hash, lists, hasher, toRemove, dirEvent, upd, request, failed, crashed>>

(* The two mutexes are taken, then FileHasher::stop() waits for the end.   *)
RmStopsHasher ==
  /\ Live /\ main.at = "rm" /\ ListsFree /\ HasherFree
  /\ hasher' = [hasher EXCEPT !.toStop = TRUE]
  /\ MainGoes(IF hasher.hashing THEN "awaits hasher" ELSE "removes")
  /\ UNCHANGED <<world, cached, hash, lists, roots, upd, request, ends>>

RmEnds_Quietly ==   \* mutant: dirEvent is not released
  /\ Live /\ main.at = "removes"
  /\ toStopHashing' = TRUE
  /\ prioritized' = Without(prioritized, Under({main.root}))
  /\ others' = Without(others, Under({main.root}))
  /\ toScan' = Only(toScan, Roots \ {main.root})
  /\ toRemove' = toRemove \cup {main.root}
  /\ main' = [main EXCEPT !.at = "idle", !.root = NoRoot]
  /\ UNCHANGED <<world, cached, hash, hasher, shared, scanning, dirEvent, upd, request, ends>>
RmEnds ==
  /\ Live /\ main.at = "removes"
  /\ toStopHashing' = TRUE
  /\ prioritized' = Without(prioritized, Under({main.root}))
  /\ others' = Without(others, Under({main.root}))
  /\ toScan' = Only(toScan, Roots \ {main.root})
  /\ toRemove' = toRemove \cup {main.root}
  /\ dirEvent' = TRUE
  /\ main' = [main EXCEPT !.at = "idle", !.root = NoRoot]
  /\ UNCHANGED <<world, cached, hash, hasher, shared, scanning, upd, request, ends>>

(* The user creates or removes a file.                                     *)
UserChanges(f) ==
  /\ Live /\ Fault
  /\ disk' = IF f \in disk THEN disk \ {f} ELSE disk \cup {f}
  /\ events' = IF RootOf[f] \in Watched THEN events \cup {f} ELSE events
  /\ UNCHANGED <<cached, hash, lists, hasher, roots, upd, main, request, failed, crashed>>

-----------------------------------------------------------------------------
Init ==
  /\ disk \in SUBSET Files /\ cached = {} /\ events = {}
  /\ hash = [f \in Files |-> {}]
  /\ prioritized = <<>> /\ others = <<>> /\ toStopHashing = FALSE
  /\ hasher = Stopped
  /\ shared = {} /\ toScan = <<>> /\ toRemove = {} /\ scanning = NoRoot /\ dirEvent = FALSE
  /\ upd = [at |-> "compute", first |-> TRUE, file |-> NoFile, chunk |-> 1, got |-> FALSE,
            root |-> NoRoot, left |-> {}, unseen |-> {}]
  /\ main = [at |-> "idle", file |-> NoFile, root |-> NoRoot]
  /\ request = [r \in Requests |-> NoRequest]
  /\ failed = {} /\ crashed = FALSE /\ faults = 0

Hashing  == \/ Compute \/ Pick \/ HasherStarts \/ HasherStops \/ HasherReads \/ HasherFindsAll
            \/ HasherFails \/ HashKnown \/ Hashes
Updating == RemoveRoots \/ Awakes \/ ProcessEvents \/ TakeRoot
Scanning == ScanBegins \/ (\E f \in Files : ScanFile(f)) \/ ScanAborts \/ ScanEnds
MainGoesOn == Prioritize \/ RmStopsHasher \/ RmEnds
Peers == \E r \in Requests : Ends(r) \/ \E f \in Files : \E have \in SUBSET Chunks(f) : Start(r, f, have)
User  == (\E root \in Roots : AddRoot(root) \/ RmRoot(root)) \/ \E f \in Files : UserChanges(f)

Next == Hashing \/ Updating \/ Scanning \/ MainGoesOn \/ Peers \/ User
Spec == Init /\ [][Next]_vars
FairSpec == Spec /\ WF_vars(Hashing \/ Updating \/ Scanning) /\ WF_vars(MainGoesOn)

-----------------------------------------------------------------------------
(* Properties.                                                             *)

ListOK(list) == list \in Seq(Files) /\ IsInjective(list)
UpdPlaces == {"compute", "pick", "start", "reading", "known", "ended", "remove", "awaits root",
              "awaits", "polls", "take", "scan", "scanning"}
Updater ==
  [at : UpdPlaces, first : BOOLEAN, file : Files \cup {NoFile}, chunk : Nat, got : BOOLEAN,
   root : Roots \cup {NoRoot}, left : SUBSET Files, unseen : SUBSET Files]
MainPlaces == {"idle", "asks", "awaits scan", "rm", "awaits hasher", "removes"}
MainThread == [at : MainPlaces, file : Files \cup {NoFile}, root : Roots \cup {NoRoot}]
States == {"none", "started", "waiting", "ended", "orphan", "refused"}
GetHashesResults ==
  [state : States, file : Files \cup {NoFile}, have : SUBSET AllChunks,
   sent : SUBSET AllChunks, remaining : SUBSET AllChunks]

(* Every variable has its type; a file is not twice in one list, the       *)
(* hasher works exactly while it has been started.                         *)
TypeOK ==
  /\ disk \subseteq Files /\ cached \subseteq Files /\ events \subseteq Files
  /\ hash \in [Files -> SUBSET AllChunks] /\ \A f \in Files : hash[f] \subseteq Chunks(f)
  /\ ListOK(prioritized) /\ ListOK(others)
  /\ toStopHashing \in BOOLEAN /\ hasher \in [hashing : BOOLEAN, toStop : BOOLEAN]
  /\ hasher.hashing <=> upd.at \in {"reading", "known"}
  /\ shared \subseteq Roots /\ toRemove \subseteq Roots /\ toScan \in Seq(Roots)
  /\ scanning \in Roots \cup {NoRoot} /\ dirEvent \in BOOLEAN
  /\ upd \in Updater /\ main \in MainThread /\ request \in [Requests -> GetHashesResults]
  /\ failed \subseteq Files /\ crashed \in BOOLEAN /\ faults \in 0..MaxFaults

(* A shared file whose hashes are missing is in exactly one of the two     *)
(* lists, unless it could not be read: lists that change while the head of *)
(* one of them is being hashed forget no file and hash none twice.         *)
QueuedOnce ==
  \A f \in Files :
    /\ ~(f \in Range(prioritized) /\ f \in Range(others))
    /\ f \in cached /\ RootOf[f] \in shared /\ ~Hashed(f) /\ f \notin failed => f \in Listed

(* A hash that a request is to send has been sent, or will be announced:   *)
(* none is known between the look at the chunk and the connection.         *)
NoHashMissed ==
  \A r \in Requests :
    LET q == request[r]
    IN q.state \in {"started", "waiting"} =>
         /\ q.have \subseteq q.sent \cup q.remaining
         /\ \A c \in q.remaining \cap hash[q.file] :
              upd.at = "known" /\ upd.file = q.file /\ upd.chunk = c

(* A file in the lists leaves them, whatever is asked, scanned, removed in *)
(* the meantime, but one that could not be read or that was deleted while  *)
(* it was asked for: for these nobody wakes the updater.                   *)
EachGetsItsTurn ==
  \A f \in Files : f \in Listed ~> (f \notin Listed \/ f \in failed \/ f \notin cached \/ crashed)

(* removeSharedEntry() returns and the updater then removes the directory: *)
(* neither the wait for the scan nor the one for the hasher lasts.         *)
RemovalEnds ==
  \A root \in Roots :
    main.root = root \/ root \in toRemove ~> (main.root # root /\ root \notin toRemove) \/ crashed
=============================================================================

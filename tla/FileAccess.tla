----------------------------- MODULE FileAccess -----------------------------
(***************************************************************************)
(* A file of the cache that is being downloaded (File, Chunk, FilePool).   *)
(* A worker per chunk writes it, workers that upload read it, the last     *)
(* chunk renames it from "<name>.unfinished" to "<name>", and at any       *)
(* moment the updater thread may remove it, or the main thread when its    *)
(* download is removed.                                                    *)
(*                                                                         *)
(* The mutex of the file protects what it is, writeLock and readLock its   *)
(* two open files; who takes both of these keeps them over several steps.  *)
(* A method that takes one lock is one step.  A chunk tests its pointer to *)
(* the file before each call: the thread may be preempted between the test *)
(* and the call, and find the file deleted.                                *)
(***************************************************************************)
EXTENDS Integers, FiniteSets, FiniteSetsExt

CONSTANTS
  NbChunk,    \* File::getNbChunks()
  Buffers,    \* buffers written to fill a chunk
  Uploads,    \* the threads that upload
  NoThread,
  Updater, Main,   \* the threads that may remove the file
  MaxFaults   \* bound: opens, resizes, renames that fail, deletions by the user

Chunks   == 1..NbChunk
Removers == {Updater, Main}
Threads  == Chunks \cup Uploads \cup Removers
Modes    == {"read", "write"}
Paths    == {"unfinished", "final"}
Ids      == 1..(2 * Cardinality(Paths \X Modes))   \* of the open files
Inodes   == 1..(2 * Cardinality(Ids))

ASSUME ThreadsAssumption ==
  /\ Uploads \cap Chunks = {} /\ Removers \cap (Chunks \cup Uploads) = {}
  /\ Updater # Main /\ NoThread \notin Threads /\ IsFiniteSet(Uploads)
ASSUME SizesAssumption == NbChunk \in Nat \ {0} /\ Buffers \in Nat \ {0} /\ MaxFaults \in Nat

VARIABLES
  known,     \* Chunk::knownBytes, in buffers
  indexed,   \* the chunks that can be found by their hash
  complete,  \* File::complete; the name has its suffix unless complete
  count,     \* numDataReader, numDataWriter
  handle,    \* fileInReadMode, fileInWriteMode: an id, 0 if null
  pool,      \* FilePool::files
  disk,      \* the inode a path names, 0 if none
  content,   \* the buffers written to each inode
  pc,        \* what each thread does next
  mutex,     \* who has File::mutex
  ioLocks,   \* who keeps writeLock and readLock
  object,    \* do the chunks know their file, has it been deleted?
  crashed,   \* has a deleted object been used?
  faults,    \* counts the faults, for the bound MaxFaults
  spoiled    \* history: opens that failed, a rename that failed or was not tried

opened == <<count, handle, pool>>
data   == <<known, indexed, disk, content>>
locks  == <<mutex, ioLocks>>
rest   == <<complete, object, crashed>>
vars   == <<opened, data, locks, rest, pc, faults, spoiled>>

Path      == IF complete THEN "final" ELSE "unfinished"
Full(c)   == known[c] = Buffers
Written(c, n) == {c} \X (1..n)
Opened(id)    == CHOOSE h \in pool : h.id = id
Named(path)   == {h \in pool : h.path = path}
Live      == ~crashed /\ object # "freed"
Goes(t, place) == pc' = [pc EXCEPT ![t] = place]
Fault     == faults < MaxFaults /\ faults' = faults + 1

(* The test of Chunk::file once t is at a call: made late it is an         *)
(* exception; made early, the call goes on.  A thread that comes to a call *)
(* when the file has gone is told so at once.                              *)
Unless(gone, place) == IF object = "linked" THEN place ELSE gone

-----------------------------------------------------------------------------
(* FilePool.                                                               *)

(* open(): a released file of this path and mode, or a new one.            *)
Reusable(mode) == {h \in pool : h.path = Path /\ h.mode = mode /\ h.released}
NewHandle(mode, inode) ==
  [id |-> Min(Ids \ {h.id : h \in pool}), path |-> Path, mode |-> mode, inode |-> inode,
   released |-> FALSE]
Use(mode, h) ==
  /\ pool' = {g \in pool : g.id # h.id} \cup {[h EXCEPT !.released = FALSE]}
  /\ handle' = [handle EXCEPT ![mode] = h.id]

(* release(), when the last user of the mode leaves.                       *)
Released(mode) ==
  {IF h.id = handle[mode] THEN [h EXCEPT !.released = TRUE] ELSE h : h \in pool}

(* tryToDeleteReleasedFiles().                                             *)
PoolCloses ==
  /\ Live
  /\ \E h \in pool : h.released /\ pool' = pool \ {h}
  /\ UNCHANGED <<count, handle, data, locks, rest, pc, faults, spoiled>>

-----------------------------------------------------------------------------
(* Opening and closing.                                                    *)

(* newDataReaderCreated(): the count is not restored when the open fails.  *)
OpenRead_Uncounted(t, ok, fails) ==   \* mutant: only the first reader counts
  /\ ioLocks = NoThread
  /\ count' = [count EXCEPT !.read = 1]
  /\ IF count.read = 0 THEN \E h \in Reusable("read") \cup {NewHandle("read", disk[Path])} : Use("read", h)
     ELSE UNCHANGED <<handle, pool>>
  /\ Goes(t, ok)
  /\ UNCHANGED <<data, locks, rest, faults, spoiled>>
OpenRead(t, ok, fails) ==
  /\ ioLocks = NoThread
  /\ count' = [count EXCEPT !.read = @ + 1]
  /\ \/ /\ count.read > 0
        /\ Goes(t, ok)
        /\ UNCHANGED <<handle, pool, faults, spoiled>>
     \/ /\ count.read = 0
        /\ IF Reusable("read") # {}
           THEN \E h \in Reusable("read") : Use("read", h)
           ELSE disk[Path] # 0 /\ Use("read", NewHandle("read", disk[Path]))
        /\ Goes(t, ok)
        /\ UNCHANGED <<faults, spoiled>>
     \/ /\ count.read = 0 /\ Reusable("read") = {}
        /\ IF disk[Path] = 0 THEN UNCHANGED faults ELSE Fault
        /\ spoiled' = spoiled \cup {"read"}
        /\ Goes(t, fails)
        /\ UNCHANGED <<handle, pool>>
  /\ UNCHANGED <<data, locks, rest>>

CloseRead(t, next) ==
  /\ ioLocks = NoThread
  /\ count' = [count EXCEPT !.read = @ - 1]
  /\ IF count.read = 1
     THEN pool' = Released("read") /\ handle' = [handle EXCEPT !.read = 0]
     ELSE UNCHANGED <<handle, pool>>
  /\ Goes(t, next)
  /\ UNCHANGED <<data, locks, rest, faults, spoiled>>

(* newDataWriterCreated(): a file that had to be created has no data, its  *)
(* known bytes are lost.  FileResetException leaves the count as it is.    *)
FreshInode == Min(Inodes \ ({disk[p] : p \in Paths} \cup {h.inode : h \in pool}))

Created_Trusted(c) ==   \* mutant: the chunks are not reset
  /\ disk' = [disk EXCEPT ![Path] = FreshInode]
  /\ content' = [content EXCEPT ![FreshInode] = {}]
  /\ UNCHANGED <<known, indexed, spoiled>>
  /\ Goes(c, "open")
Created(c) ==
  LET reset == {d \in Chunks : known[d] > 0}
  IN /\ disk' = [disk EXCEPT ![Path] = FreshInode]
     /\ content' = [content EXCEPT ![FreshInode] = {}]
     /\ IF object = "linked"
        THEN /\ known' = [d \in Chunks |-> 0]
             /\ indexed' = indexed \ reset
             /\ spoiled' = IF reset = {} THEN spoiled ELSE spoiled \cup {"write"}
             /\ Goes(c, IF reset = {} THEN "open" ELSE "idle")
        ELSE UNCHANGED <<known, indexed, spoiled>> /\ Goes(c, "idle")

OpenWrite(c) ==
  /\ ioLocks = NoThread
  /\ count' = [count EXCEPT !.write = @ + 1]
  /\ \/ /\ count.write > 0
        /\ Goes(c, "open")
        /\ UNCHANGED <<handle, pool, data, faults, spoiled>>
     \/ /\ count.write = 0
        /\ IF Reusable("write") # {}
           THEN \E h \in Reusable("write") : Use("write", h)
           ELSE disk[Path] # 0 /\ Use("write", NewHandle("write", disk[Path]))
        /\ Goes(c, "open")
        /\ UNCHANGED <<data, faults, spoiled>>
     \/ /\ count.write = 0 /\ Reusable("write") = {} /\ disk[Path] = 0
        /\ Use("write", NewHandle("write", FreshInode))
        /\ Created(c)
        /\ UNCHANGED faults
     \/ /\ count.write = 0 /\ Reusable("write") = {} /\ Fault
        /\ spoiled' = spoiled \cup {"write"}
        /\ Goes(c, "idle")
        /\ UNCHANGED <<handle, pool, data>>
  /\ UNCHANGED <<locks, rest>>

CloseWrite(c) ==
  /\ ioLocks = NoThread
  /\ count' = [count EXCEPT !.write = @ - 1]
  /\ IF count.write = 1
     THEN pool' = Released("write") /\ handle' = [handle EXCEPT !.write = 0]
     ELSE UNCHANGED <<handle, pool>>
  /\ Goes(c, "idle")
  /\ UNCHANGED <<data, locks, rest, faults, spoiled>>

-----------------------------------------------------------------------------
(* A download: ChunkDownloader::run with its DataWriter.  The constructor  *)
(* reads what is known to compute its hash ("hash", "hashed").             *)

StartsRun(c) ==
  /\ Live /\ object = "linked" /\ pc[c] = "idle" /\ ~Full(c)
  /\ pc[Main] = "idle"
  /\ Goes(c, IF known[c] > 0 THEN "hash" ELSE "opening")
  /\ UNCHANGED <<opened, data, locks, rest, faults, spoiled>>

Hashing(c) == Live /\ pc[c] = "hash" /\ OpenRead(c, "hashed", Unless("idle", "opening"))
Hashed(c)  == Live /\ pc[c] = "hashed" /\ CloseRead(c, Unless("idle", "opening"))
Opening(c) == Live /\ pc[c] = "opening" /\ OpenWrite(c)

(* Chunk::write() of one buffer: the data may not match the hash once all  *)
(* of it is there; a null handle is an IOErrorException.                   *)
Writing(c) ==
  /\ Live /\ pc[c] = "open" /\ ioLocks = NoThread
  /\ IF handle.write \notin {h.id : h \in pool}
     THEN /\ crashed' = (handle.write # 0)
          /\ Goes(c, Unless("idle", "closing"))
          /\ UNCHANGED <<known, content>>
     ELSE \/ /\ LET inode == Opened(handle.write).inode
                IN content' = [content EXCEPT ![inode] = @ \cup {<<c, known[c] + 1>>}]
             /\ known' = [known EXCEPT ![c] = @ + 1]
             /\ Goes(c, IF known'[c] = Buffers THEN "written" ELSE Unless("idle", "open"))
             /\ UNCHANGED crashed
          \/ /\ known[c] + 1 = Buffers   \* hashMismatchException, nothing is written
             /\ known' = [known EXCEPT ![c] = 0]
             /\ Goes(c, Unless("idle", "closing"))
             /\ UNCHANGED <<content, crashed>>
  /\ UNCHANGED <<opened, indexed, disk, locks, complete, object, faults, spoiled>>

(* The run may end before the chunk does: stopped, socket error.           *)
EndsRun(c) == Live /\ pc[c] \in {"open", "closing"} /\ CloseWrite(c)

-----------------------------------------------------------------------------
(* The last chunk completes the file: chunkComplete(), setAsComplete().    *)

LastChunk_Alone(c) == \A d \in Chunks : Full(d) /\ (d = c \/ pc[d] = "idle")   \* mutant
LastChunk(c) == \A d \in Chunks : Full(d)

ChunkComplete(c) ==
  /\ Live /\ pc[c] = "written" /\ mutex = NoThread
  /\ IF object # "linked"
     THEN /\ crashed' \in BOOLEAN   \* the pointer is read again without a test
          /\ Goes(c, "idle")
          /\ UNCHANGED <<indexed, mutex>>
     ELSE /\ indexed' = indexed \cup {c}
          /\ UNCHANGED crashed
          /\ IF LastChunk(c) /\ ~complete
             THEN mutex' = c /\ Goes(c, IF count.read + count.write > 0 THEN "locking" ELSE "renaming")
             ELSE Goes(c, "closing") /\ UNCHANGED mutex
  /\ UNCHANGED <<opened, known, disk, content, ioLocks, complete, object, faults, spoiled>>

TakesLocks(c) ==
  /\ Live /\ pc[c] = "locking" /\ ioLocks = NoThread
  /\ ioLocks' = c /\ mutex' = NoThread
  /\ Goes(c, "releasing")
  /\ UNCHANGED <<opened, data, rest, faults, spoiled>>

ForceReleases(c) ==
  /\ Live /\ pc[c] = "releasing"
  /\ pool' = pool \ Named(Path)
  /\ Goes(c, "relocking")
  /\ UNCHANGED <<count, handle, data, locks, rest, faults, spoiled>>

Relocks_Kept(c) ==   \* mutant: the pointers are not cleared
  /\ Live /\ pc[c] = "relocking" /\ mutex = NoThread
  /\ mutex' = c /\ ioLocks' = NoThread
  /\ Goes(c, "renaming")
  /\ UNCHANGED <<opened, data, rest, faults, spoiled>>
Relocks(c) ==
  /\ Live /\ pc[c] = "relocking" /\ mutex = NoThread
  /\ mutex' = c /\ ioLocks' = NoThread
  /\ handle' = [m \in Modes |-> 0]
  /\ Goes(c, "renaming")
  /\ UNCHANGED <<count, pool, data, rest, faults, spoiled>>

Renames(c) ==
  /\ Live /\ pc[c] = "renaming"
  /\ \/ /\ disk.unfinished # 0
        /\ disk' = [p \in Paths |-> IF p = "final" THEN disk.unfinished ELSE 0]
        /\ complete' = TRUE
        /\ UNCHANGED <<faults, spoiled>>
     \/ /\ IF disk.unfinished = 0 THEN UNCHANGED faults ELSE Fault
        /\ spoiled' = spoiled \cup {"rename"}
        /\ UNCHANGED <<disk, complete>>
  /\ mutex' = NoThread
  /\ Goes(c, Unless("idle", "closing"))
  /\ UNCHANGED <<opened, known, indexed, content, ioLocks, object, crashed>>

-----------------------------------------------------------------------------
(* An upload: ChunkUploader::run with its DataReader; its reads change     *)
(* nothing here.                                                           *)

StartsUpload(u) ==
  /\ Live /\ object = "linked" /\ pc[u] = "idle" /\ indexed # {}
  /\ Goes(u, "hash")
  /\ UNCHANGED <<opened, data, locks, rest, faults, spoiled>>

OpensUpload(u) == Live /\ pc[u] = "hash" /\ OpenRead(u, Unless("idle", "open"), "idle")
EndsUpload(u)  == Live /\ pc[u] = "open" /\ CloseRead(u, "idle")

(* A chunk whose file has gone: ChunkDeletedException, or nothing to do.   *)
ToldLate(t) ==
  /\ Live /\ object = "unlinked" /\ pc[t] \in {"hash", "hashed", "opening", "open", "closing"}
  /\ Goes(t, "idle")
  /\ UNCHANGED <<opened, data, locks, rest, faults, spoiled>>

-----------------------------------------------------------------------------
(* The removal: deleteEntry() of the updater, deleteIfIncomplete() of the  *)
(* main thread once the downloads of the file are stopped; then del().     *)

StartsRemoval(t) ==
  /\ Live /\ object = "linked" /\ \A r \in Removers : pc[r] = "idle"
  /\ mutex = NoThread
  /\ t = Main => ~complete /\ \A c \in Chunks : pc[c] = "idle"
  /\ IF complete
     THEN Goes(t, "unlinking") /\ UNCHANGED mutex
     ELSE Goes(t, "removing") /\ mutex' = t
  /\ UNCHANGED <<opened, data, ioLocks, rest, faults, spoiled>>

RemovesFile(t) ==
  /\ Live /\ pc[t] = "removing" /\ ioLocks = NoThread
  /\ pool' = pool \ Named(Path)
  /\ handle' = [m \in Modes |-> 0]
  /\ disk' = [disk EXCEPT ![Path] = 0]
  /\ mutex' = NoThread
  /\ Goes(t, "unlinking")
  /\ UNCHANGED <<count, known, indexed, content, ioLocks, rest, faults, spoiled>>

Unlinks(t) ==
  /\ Live /\ pc[t] = "unlinking"
  /\ object' = "unlinked"
  /\ indexed' = {}
  /\ Goes(t, "closing file")
  /\ UNCHANGED <<opened, known, disk, content, locks, complete, crashed, faults, spoiled>>

ClosesFile(t) ==
  /\ Live /\ pc[t] = "closing file" /\ ioLocks = NoThread
  /\ pool' = {h \in pool : h.id \notin {handle[m] : m \in Modes}}
  /\ Goes(t, "waiting")
  /\ UNCHANGED <<count, handle, data, locks, rest, faults, spoiled>>

(* The mutex is taken once, then the main thread deletes the object.       *)
Deletes(t) ==
  /\ Live /\ pc[t] = "waiting" /\ mutex = NoThread
  /\ object' = "freed"
  /\ Goes(t, "idle")
  /\ UNCHANGED <<opened, data, locks, complete, crashed, faults, spoiled>>

(* A thread that was at a call uses the deleted file.                      *)
UsesDeleted(t) ==
  /\ object = "freed" /\ ~crashed /\ pc[t] # "idle"
  /\ crashed' \in BOOLEAN
  /\ Goes(t, "idle")
  /\ UNCHANGED <<opened, data, locks, complete, object, faults, spoiled>>

UserDeletes ==
  /\ Live /\ Fault /\ disk[Path] # 0
  /\ disk' = [disk EXCEPT ![Path] = 0]
  /\ UNCHANGED <<opened, known, indexed, content, locks, rest, pc, spoiled>>

-----------------------------------------------------------------------------
(* A new file, or one restored from the cache of the hashes, when some of  *)
(* its chunks may be there, even all of them.                              *)
Init ==
  /\ known \in [Chunks -> 0..Buffers]
  /\ indexed = {c \in Chunks : known[c] > 0}
  /\ complete = FALSE
  /\ count = [m \in Modes |-> 0] /\ handle = [m \in Modes |-> 0]
  /\ pool = {} /\ disk = [p \in Paths |-> IF p = "unfinished" THEN 1 ELSE 0]
  /\ content = [i \in Inodes |-> IF i = 1 THEN UNION {Written(c, known[c]) : c \in Chunks} ELSE {}]
  /\ pc = [t \in Threads |-> "idle"]
  /\ mutex = NoThread /\ ioLocks = NoThread
  /\ object = "linked" /\ crashed = FALSE /\ faults = 0
  /\ spoiled = IF \A c \in Chunks : Full(c) THEN {"rename"} ELSE {}

Download(c) == \/ StartsRun(c) \/ Hashing(c) \/ Hashed(c) \/ Opening(c) \/ Writing(c) \/ EndsRun(c)
Completion(c) == \/ ChunkComplete(c) \/ TakesLocks(c) \/ ForceReleases(c) \/ Relocks(c) \/ Renames(c)
Upload(u)  == StartsUpload(u) \/ OpensUpload(u) \/ EndsUpload(u)
Removal(t) == \/ StartsRemoval(t) \/ RemovesFile(t) \/ Unlinks(t) \/ ClosesFile(t) \/ Deletes(t)

Next ==
  \/ PoolCloses \/ UserDeletes
  \/ \E c \in Chunks : Download(c) \/ Completion(c)
  \/ \E u \in Uploads : Upload(u)
  \/ \E t \in Removers : Removal(t)
  \/ \E t \in Chunks \cup Uploads : ToldLate(t) \/ UsesDeleted(t)
Spec == Init /\ [][Next]_vars

-----------------------------------------------------------------------------
(* Properties.                                                             *)

Places == {"idle", "hash", "hashed", "opening", "open", "closing", "written", "locking",
           "releasing", "relocking", "renaming", "removing", "unlinking", "closing file", "waiting"}
Handles == [id : Ids, path : Paths, mode : Modes, inode : Inodes, released : BOOLEAN]

(* Every variable has its type; the unsigned counts of readers and of      *)
(* writers never wrap.                                                     *)
TypeOK ==
  /\ known \in [Chunks -> 0..Buffers] /\ indexed \subseteq Chunks /\ complete \in BOOLEAN
  /\ count \in [Modes -> 0..(2 * Cardinality(Threads) + MaxFaults)]
  /\ handle \in [Modes -> {0} \cup Ids]
  /\ pool \subseteq Handles
  /\ disk \in [Paths -> {0} \cup Inodes]
  /\ content \in [Inodes -> SUBSET (Chunks \X (1..Buffers))]
  /\ pc \in [Threads -> Places]
  /\ mutex \in Threads \cup {NoThread} /\ ioLocks \in Threads \cup {NoThread}
  /\ object \in {"linked", "unlinked", "freed"} /\ crashed \in BOOLEAN
  /\ faults \in 0..MaxFaults /\ spoiled \subseteq {"read", "write", "rename"}

(* The file and the pool agree: a handle of the file is open in the pool   *)
(* and in use, what is in use is a handle of the file, and when all who    *)
(* used the file have left it is open no more (unless an open has failed:  *)
(* that one is counted for ever).  Nothing stays open for ever and nothing *)
(* closed is written, through completions, removals and failures.          *)
HandlesOwned ==
  object = "linked" /\ ioLocks = NoThread =>
    \A m \in Modes :
      /\ {h.id : h \in {g \in pool : g.mode = m /\ ~g.released}} = {handle[m]} \ {0}
      /\ (\A t \in Chunks \cup Uploads : pc[t] = "idle") /\ m \notin spoiled =>
           count[m] = 0 /\ \A h \in pool : h.mode = m => h.released

(* What a chunk believes it has is in the file of the disk, whoever        *)
(* deleted, created or renamed it in the meantime.                         *)
KnownIsOnDisk ==
  object = "linked" /\ disk[Path] # 0 =>
    \A c \in Chunks : Written(c, known[c]) \subseteq content[disk[Path]]

(* "A file is complete when all its chunk has been downloaded and the      *)
(* ".unfinished" suffix has been removed": the one that writes the last    *)
(* chunk sees it, also when two chunks end together.                       *)
CompletedByLast ==
  /\ complete => \A c \in Chunks : Full(c)
  /\ object = "linked" /\ "rename" \notin spoiled /\ (\A c \in Chunks : Full(c)) =>
       complete \/ \E c \in Chunks : pc[c] \in
                     {"written", "locking", "releasing", "relocking", "renaming"}
=============================================================================

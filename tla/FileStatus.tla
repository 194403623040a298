----------------------------- MODULE FileStatus -----------------------------
(***************************************************************************)
(* The status of the downloads and the requests they send to the peer they *)
(* come from: a file asks for the hashes of its chunks (FileDownload), a   *)
(* directory for its entries (DirDownload), one request of each kind at a  *)
(* time per peer (OccupiedPeers).  The status of a file follows from what  *)
(* its chunks do; a download whose status becomes an error is listed, and  *)
(* a timer restarts the first one of the list.                             *)
(*                                                                         *)
(* All of it runs on the main thread, except updateStatus(), which a       *)
(* worker that looks for a better peer calls too.  A handler that frees a  *)
(* peer goes over the queue to find the next download that may ask it: one *)
(* step per download visited.  todo holds what is left of the handler.     *)
(*                                                                         *)
(* Left to ChunkTransfer: which peer a chunk is downloaded from, and when  *)
(* the queue is scanned for chunks.  Left to DownloadQueue: moves, the     *)
(* queue file, and how the timer of the errors is kept running.            *)
(***************************************************************************)
EXTENDS Integers, Sequences, FiniteSets, SequencesExt, Filters

CONSTANTS
  Files, Dirs,  \* the downloads, created or not
  Order,        \* the order of the queue; the children follow their directory
  NbChunk,      \* FileDownload::NB_CHUNK
  Children,     \* the downloads that replace a directory
  Peers,        \* the remote peers
  SourceOf,     \* Download::peerSource
  NoDownload,
  Together,     \* bound: the sets of downloads that may be added together
  MaxListed     \* bound: length of the list of the erroneous downloads

Downloads == Files \cup Dirs
Positions == 1..Len(Order)

ASSUME DownloadsAssumption ==
  /\ Files \cap Dirs = {} /\ NoDownload \notin Downloads
  /\ Order \in Seq(Downloads) /\ \A d \in Downloads : \E i \in Positions : Order[i] = d
ASSUME ChunksAssumption == NbChunk \in [Files -> Nat]
ASSUME SourcesAssumption ==
  SourceOf \in [Downloads -> Peers] /\ Children \in [Dirs -> Seq(Downloads)]
ASSUME BoundsAssumption == Together \subseteq SUBSET Downloads /\ MaxListed \in Nat

VARIABLES
  avail,      \* the peers for which Peer::isAvailable() holds
  status,     \* Download::status, "unborn" before the download is added
  chunk,      \* chunkDownloaders: sets of chunks, see NoChunks
  exists,     \* the files whose localEntry.exists() holds
  request,    \* the downloads whose getHashesResult, getEntriesResult is not null
  occupied,   \* OccupiedPeers::occupiedPeers for hashes and for entries
  erroneous,  \* DownloadQueue::erroneousDownloads
  retrying,   \* the directories whose retryToGetEntries() is scheduled
  todo,       \* what is left of the main thread's handler
  at,         \* the position of the scan that is the first of todo
  crashed,    \* has the program dereferenced a null chunk downloader?
  lost,       \* history: peers left occupied when their request was overwritten
  stuck       \* history: downloads restarted, still erroneous, listed no more

asking == <<request, occupied, lost>>
control == <<todo, at>>
vars == <<avail, status, chunk, exists, asking, erroneous, retrying, control, crashed, stuck>>

Errors == {"UNABLE_TO_CREATE", "UNABLE_TO_RETRIEVE_THE_HASHES", "TRANSFER_ERROR",
           "FILE_NON_EXISTENT", "UNABLE_TO_GET_ENTRIES"}
Statuses == {"unborn", "QUEUED", "GETTING_THE_HASHES", "DOWNLOADING", "COMPLETE", "PAUSED",
             "DELETED", "UNKNOWN_PEER_SOURCE", "ENTRY_NOT_FOUND", "NO_SOURCE"} \cup Errors
Frozen(st)    == st \in {"COMPLETE", "PAUSED", "DELETED"}
MainIdle      == todo = <<>> /\ ~crashed
Queued        == {d \in Downloads : status[d] \notin {"unborn", "DELETED"}}
KindOf(d)     == IF d \in Files THEN "hashes" ELSE "entries"
ChunksOf(f)   == 1..NbChunk[f]
ChunksIn(d)   == IF d \in Files THEN chunk[d] ELSE <<>>
NoChunks      == [known |-> {}, down |-> {}, done |-> {}, failed |-> {}, absent |-> {}, peered |-> {}]
Task(kind, d) == [kind |-> kind, d |-> d]
AtTask(kind)  == todo # <<>> /\ ~crashed /\ Head(todo).kind = kind

-----------------------------------------------------------------------------
(* The status of the file f, from its chunks ch and the status st it has.  *)

(* The chunks updateStatus() looks at before one that is downloading.      *)
Seen(ch)  == {n \in ch.known \ ch.down : \A k \in ch.down : n < k}
Wrong(ch) == Seen(ch) \cap (ch.failed \cup ch.absent)

(* The chunks that set newStatus, the last of them for good: each with an  *)
(* error, and the incomplete ones until one has a peer.                    *)
Deciding_Failed(ch) == Wrong(ch)   \* mutant: an incomplete chunk is not looked at
Deciding(ch) ==
  LET wanting == Seen(ch) \ (Wrong(ch) \cup ch.done)
  IN Wrong(ch) \cup {n \in wanting : \A k \in wanting \cap ch.peered : n <= k}

(* updateStatus(): the new status.                                         *)
Judged(f, ch, st, asked) ==
  LET last == Max(Deciding(ch))
      new  == IF Deciding(ch) = {}
              THEN IF ch.known = ChunksOf(f) THEN "COMPLETE" ELSE st
              ELSE IF last \in Wrong(ch) THEN "TRANSFER_ERROR"
              ELSE IF last \in ch.peered THEN "QUEUED" ELSE "NO_SOURCE"
  IN IF Frozen(st) THEN st
     ELSE IF Seen(ch) \cap ch.absent # {} THEN "FILE_NON_EXISTENT"
     ELSE IF ch.down # {} THEN "DOWNLOADING"
     ELSE IF new # "COMPLETE" /\ asked THEN "GETTING_THE_HASHES" ELSE new

(* updateStatus(): the errors it meets are cleared; when the file is       *)
(* missing it stops there and reset() drops the chunks of the file.        *)
Resets(ch, st) == ~Frozen(st) /\ Seen(ch) \cap ch.absent # {}
Quieted(ch, st) ==
  LET met == {n \in Wrong(ch) : \A k \in Seen(ch) \cap ch.absent : n <= k}
  IN IF Frozen(st) THEN ch
     ELSE [ch EXCEPT !.failed = @ \ met, !.absent = @ \ met,
                     !.done = IF Resets(ch, st) THEN {} ELSE @]

(* updateStatus() of f, whose chunks are ch and which has had the statuses *)
(* of path in this handler.  The loop purges lists of peers, which calls   *)
(* updateStatus() again from inside (nested): the outer call then no       *)
(* longer sees the errors.  reset() calls a method of each chunk           *)
(* downloader, the null ones too, and takes their chunk from the threads.  *)
Settled(f, ch, path, asked, created, nested) ==
  LET st    == path[Len(path)]
      first == Judged(f, ch, st, asked)
      once  == Quieted(ch, st)
  IN [ch      |-> IF nested THEN Quieted(once, first) ELSE once,
      path    |-> IF nested THEN path \o <<first, Judged(f, once, first, asked)>>
                            ELSE Append(path, first),
      exists  |-> created /\ ~Resets(ch, st),
      crashes |-> Resets(ch, st) /\ (ch.known # ChunksOf(f) \/ ch.down # {})]

(* Download::setStatus for the statuses of path: becomeErroneous appends   *)
(* the download to the list each time it goes from no error to an error;   *)
(* list is what the handler has left of it.                                *)
SetStatuses(d, path, list) ==
  LET turns == {i \in 1..Len(path) - 1 : path[i] \notin Errors /\ path[i + 1] \in Errors}
  IN /\ status' = [status EXCEPT ![d] = path[Len(path)]]
     /\ erroneous' = list \o [i \in 1..Cardinality(turns) |-> d]
     /\ Len(erroneous') <= MaxListed
     /\ stuck' = IF path[Len(path)] \notin Errors \/ turns # {} THEN stuck \ {d}
                ELSE IF list = erroneous THEN stuck ELSE stuck \cup {d}

SetStatus(d, st) == SetStatuses(d, <<status[d], st>>, erroneous)

(* A handler that ends with updateStatus() of f, whose chunks are ch; the  *)
(* request it has then is known.                                           *)
UpdateStatus(f, ch) ==
  \E nested \in BOOLEAN :
    LET s == Settled(f, ch, <<status[f]>>, f \in request', f \in exists, nested)
    IN /\ chunk' = [chunk EXCEPT ![f] = s.ch]
       /\ SetStatuses(f, s.path, erroneous)
       /\ exists' = IF s.exists THEN exists ELSE exists \ {f}
       /\ crashed' = s.crashes

-----------------------------------------------------------------------------
(* Requests.                                                               *)

(* The test retrieveHashes() and retrieveEntries() begin with.             *)
MayAsk(d, ch, st) ==
  IF d \in Files
  THEN ch.known # ChunksOf(d)
       /\ ~Frozen(st) /\ st \notin {"GETTING_THE_HASHES", "ENTRY_NOT_FOUND"}
  ELSE st \notin Errors \cup {"ENTRY_NOT_FOUND", "DELETED"}

(* Then the peer is asked: nothing if it is not available, and if it is    *)
(* occupied the new request is dropped.  Either way the one d may have had *)
(* is gone.                                                                *)
Accepts(d) == SourceOf[d] \in avail /\ SourceOf[d] \notin occupied[KindOf(d)]

Ask(d, may) ==
  LET p == SourceOf[d]
      k == KindOf(d)
  IN IF ~may THEN UNCHANGED asking
     ELSE IF Accepts(d)
     THEN /\ request' = request \cup {d}
          /\ occupied' = [occupied EXCEPT ![k] = @ \cup {p}]
          /\ UNCHANGED lost
     ELSE /\ request' = request \ {d}
          /\ UNCHANGED occupied
          /\ lost' = [lost EXCEPT ![k] = IF d \in request THEN @ \cup {p} ELSE @]

(* The status the download then has.                                       *)
AskedStatus(d, st, may) ==
  IF ~may \/ d \in Dirs THEN st
  ELSE IF Accepts(d) THEN "GETTING_THE_HASHES"
  ELSE IF SourceOf[d] \notin avail THEN "UNKNOWN_PEER_SOURCE" ELSE st

(* setPeerAsFree(), when the downloads D are the queue: the peer is freed  *)
(* and the queue scanned, unless it is the source of none.                 *)
Free(k, p, D, rest) ==
  /\ occupied' = [occupied EXCEPT ![k] = @ \ {p}]
  /\ lost' = [lost EXCEPT ![k] = @ \ {p}]
  /\ todo' = (IF \E d \in D : SourceOf[d] = p THEN <<Task(k, NoDownload)>> ELSE <<>>) \o rest
  /\ at' = 1

EndTask == todo' = Tail(todo) /\ at' = 1

-----------------------------------------------------------------------------
(* start(), of a download of the queue whose chunks are ch; list is the    *)
(* list of the errors and restarted tells who calls.                       *)

(* The file is there with all of its chunks.                               *)
Found(ch) == [ch EXCEPT !.done = ch.known \ ch.down]

(* tryToLinkToAnExistingFile(): the cache may hold the chunks known.       *)
Linked(ch) ==
  {[created |-> FALSE, ch |-> ch]} \cup
  (IF ch.known = {} THEN {}
   ELSE {[created |-> TRUE, ch |-> c] : c \in {ch, Found(ch)}})

WithSource_All(d, ch) ==   \* mutant: chunks without a chunk downloader too
  IF SourceOf[d] \in avail THEN [ch EXCEPT !.peered = ChunksOf(d)] ELSE ch
WithSource(d, ch) ==
  IF SourceOf[d] \in avail THEN [ch EXCEPT !.peered = ch.known] ELSE ch
Welcomed(d, st) == IF st = "UNKNOWN_PEER_SOURCE" /\ SourceOf[d] \in avail THEN "QUEUED" ELSE st

StartFile(f, ch, st, list) ==
  \E link \in Linked(ch), nested \in BOOLEAN, writable \in BOOLEAN :
    LET s == Settled(f, WithSource(f, link.ch), <<st, Welcomed(f, st)>>, f \in request,
                     link.created, nested)
        creates == NbChunk[f] = 0 /\ ~s.exists   \* createFile() for an empty file
        path  == IF creates /\ ~writable THEN Append(s.path, "UNABLE_TO_CREATE") ELSE s.path
        final == path[Len(path)]
        may   == MayAsk(f, ch, final)
    IN /\ chunk' = [chunk EXCEPT ![f] = s.ch]
       /\ exists' = IF s.exists \/ (creates /\ writable) THEN exists \cup {f} ELSE exists \ {f}
       /\ crashed' = s.crashes
       /\ Ask(f, may)
       /\ SetStatuses(f, Append(path, AskedStatus(f, final, may)), list)

StartDir(d, st, list) ==
  LET fresh == IF SourceOf[d] \in avail THEN "QUEUED" ELSE "UNKNOWN_PEER_SOURCE"
  IN \E writable \in (IF Children[d] = <<>> THEN BOOLEAN ELSE {TRUE}) :
       LET path == <<st, fresh>> \o (IF writable THEN <<>> ELSE <<"UNABLE_TO_CREATE">>)
       IN /\ Ask(d, writable)
          /\ SetStatuses(d, path, list)
          /\ UNCHANGED <<chunk, exists, crashed>>

Start(d, ch, st, list) == IF d \in Files THEN StartFile(d, ch, st, list) ELSE StartDir(d, st, list)

(* addDownload(), with the hashes the entry came with.                     *)
NewChunks(d) ==
  IF d \in Files
  THEN {[NoChunks EXCEPT !.known = K] : K \in {{}, ChunksOf(d)}}
  ELSE {<<>>}

MayBeAdded(d) ==
  /\ status[d] = "unborn"
  /\ \E S \in Together : \A e \in Downloads : e = d \/ status[e] # "unborn" => e \in S

Add(d) ==
  /\ MainIdle /\ MayBeAdded(d)
  /\ \E ch \in NewChunks(d) : Start(d, ch, "QUEUED", erroneous)
  /\ UNCHANGED <<avail, retrying, control>>

AddChild ==
  /\ AtTask("start")
  /\ LET d == Head(todo).d
     IN IF ~MayBeAdded(d)
        THEN UNCHANGED <<status, chunk, exists, asking, erroneous, crashed, stuck>>
        ELSE \E ch \in NewChunks(d) : Start(d, ch, "QUEUED", erroneous)
  /\ EndTask
  /\ UNCHANGED <<avail, retrying>>

(* restartErroneousDownloads(): the list is taken up to the first download *)
(* that is still erroneous.  If its start leaves it so, it is not listed.  *)
Restart_Cleared(i) ==   \* mutant: the rest of the list is forgotten
  /\ MainIdle /\ status[erroneous[i]] \in Errors
  /\ \A j \in 1..i - 1 : status[erroneous[j]] \notin Errors
  /\ Start(erroneous[i], ChunksIn(erroneous[i]), status[erroneous[i]], <<>>)
  /\ UNCHANGED <<avail, retrying, control>>
Restart(i) ==
  /\ MainIdle /\ status[erroneous[i]] \in Errors
  /\ \A j \in 1..i - 1 : status[erroneous[j]] \notin Errors
  /\ LET d == erroneous[i]
         list == SubSeq(erroneous, i + 1, Len(erroneous))
     IN Start(d, ChunksIn(d), status[d], list)
  /\ UNCHANGED <<avail, retrying, control>>

RestartNone ==
  /\ MainIdle /\ erroneous # <<>>
  /\ \A j \in 1..Len(erroneous) : status[erroneous[j]] \notin Errors
  /\ erroneous' = <<>>
  /\ UNCHANGED <<avail, status, chunk, exists, asking, retrying, control, crashed, stuck>>

-----------------------------------------------------------------------------
(* The scan for the next request: peerNoLongerAskingForHashes() and        *)
(* peerNoLongerAskingForEntries().  A download that may not ask is passed. *)

Asks(d, kind) ==
  /\ d \in Queued /\ KindOf(d) = kind
  /\ status[d] \notin Errors /\ MayAsk(d, ChunksIn(d), status[d])

ScanTurn(kind, i) ==
  /\ AtTask(kind) /\ i >= at /\ Asks(Order[i], kind)
  /\ \A j \in at..i - 1 : ~Asks(Order[j], kind)
  /\ LET d == Order[i]
     IN /\ Ask(d, TRUE)
        /\ SetStatus(d, AskedStatus(d, status[d], TRUE))
        /\ IF Accepts(d) THEN EndTask ELSE at' = i + 1 /\ UNCHANGED todo
  /\ UNCHANGED <<avail, chunk, exists, retrying, crashed>>

ScanEnds(kind) ==
  /\ AtTask(kind)
  /\ \A i \in Positions : i >= at => ~Asks(Order[i], kind)
  /\ EndTask
  /\ UNCHANGED <<avail, status, chunk, exists, asking, erroneous, retrying, crashed, stuck>>

-----------------------------------------------------------------------------
(* The answers.                                                            *)

(* nextHash(): the chunk n of f is known; the last one ends the request.   *)
NextHash(f, n) ==
  /\ MainIdle /\ f \in request /\ n \in ChunksOf(f) \ chunk[f].known
  /\ \E done \in {{}} \cup (IF f \in exists THEN {{n}} ELSE {}) :
       LET peer == IF SourceOf[f] \in avail THEN {n} ELSE {}
           ch   == [chunk[f] EXCEPT !.known = @ \cup {n}, !.done = @ \cup done, !.peered = @ \cup peer]
       IN /\ IF ch.known = ChunksOf(f)
             THEN request' = request \ {f} /\ Free("hashes", SourceOf[f], Queued, <<>>)
             ELSE UNCHANGED <<asking, control>>
          /\ IF ch.known = ChunksOf(f) \/ peer # {}
             THEN UpdateStatus(f, ch)
             ELSE /\ chunk' = [chunk EXCEPT ![f] = ch]
                  /\ UNCHANGED <<status, exists, erroneous, crashed, stuck>>
  /\ UNCHANGED <<avail, retrying>>

(* result() with an error, getHashTimeout().                               *)
NoHashes(f, st) ==
  /\ MainIdle /\ f \in request
  /\ request' = request \ {f}
  /\ SetStatus(f, st)
  /\ Free("hashes", SourceOf[f], Queued, <<>>)
  /\ UNCHANGED <<avail, chunk, exists, retrying, crashed>>

(* removeOne(): the first entry of d leaves the list.                      *)
Forget(d) == erroneous' = RemoveFirst(erroneous, d)

(* newEntries(): the directory leaves the queue, its children are started, *)
(* then it is deleted.                                                     *)
Entries(d) ==
  /\ MainIdle /\ d \in request
  /\ request' = request \ {d}
  /\ status' = [status EXCEPT ![d] = "DELETED"]
  /\ Forget(d)
  /\ todo' = [i \in 1..Len(Children[d]) |-> Task("start", Children[d][i])] \o <<Task("free", d)>>
  /\ at' = 1
  /\ retrying' = retrying \ {d}
  /\ stuck' = stuck \ {d}
  /\ UNCHANGED <<avail, chunk, exists, occupied, lost, crashed>>

DeleteDir ==
  /\ AtTask("free")
  /\ Free("entries", SourceOf[Head(todo).d], Queued, Tail(todo))
  /\ UNCHANGED <<avail, status, chunk, exists, request, erroneous, retrying, crashed, stuck>>

(* result() with an error, resultTimeout(); retryToGetEntries() follows.   *)
NoEntries(d, st) ==
  /\ MainIdle /\ d \in request
  /\ request' = request \ {d}
  /\ SetStatus(d, st)
  /\ Free("entries", SourceOf[d], Queued, <<>>)
  /\ retrying' = retrying \cup {d}
  /\ UNCHANGED <<avail, chunk, exists, crashed>>

Retry(d) ==
  /\ MainIdle /\ d \in retrying
  /\ SetStatus(d, "QUEUED")
  /\ Ask(d, TRUE)
  /\ retrying' = retrying \ {d}
  /\ UNCHANGED <<avail, chunk, exists, control, crashed>>

-----------------------------------------------------------------------------
(* The commands of the user.                                               *)

(* stop(): the request is given up, the transfers end; D is the queue.     *)
StopFile_Busy(f, D) ==   \* mutant: the peer is not freed
  /\ request' = request \ {f}
  /\ chunk' = [chunk EXCEPT ![f] = [@ EXCEPT !.down = {}]]
  /\ UNCHANGED <<avail, exists, occupied, lost, retrying, control, crashed>>
StopFile(f, D) ==
  /\ IF f \in request
     THEN request' = request \ {f} /\ Free("hashes", SourceOf[f], D, <<>>)
     ELSE UNCHANGED <<asking, control>>
  /\ chunk' = [chunk EXCEPT ![f] = [@ EXCEPT !.down = {}]]
  /\ UNCHANGED <<avail, exists, retrying, crashed>>

Pause(f) ==
  /\ MainIdle /\ f \in Queued /\ ~Frozen(status[f])
  /\ SetStatus(f, "PAUSED")
  /\ StopFile(f, Queued)

Unpause(f) ==
  /\ MainIdle /\ status[f] = "PAUSED"
  /\ LET may == MayAsk(f, chunk[f], "QUEUED")
     IN Ask(f, may) /\ SetStatus(f, AskedStatus(f, "QUEUED", may))
  /\ UNCHANGED <<avail, chunk, exists, retrying, control, crashed>>

Removed(d) ==
  /\ MainIdle /\ d \in Queued
  /\ status' = [status EXCEPT ![d] = "DELETED"]
  /\ Forget(d)
  /\ stuck' = stuck \ {d}

RemoveFile(f) == Removed(f) /\ StopFile(f, Queued \ {f})

(* The destructor frees the peer before it drops its request.              *)
RemoveDir(d) ==
  /\ Removed(d)
  /\ Free("entries", SourceOf[d], Queued \ {d},
          IF d \in request THEN <<Task("drop", d)>> ELSE <<>>)
  /\ retrying' = retrying \ {d}
  /\ UNCHANGED <<avail, chunk, exists, request, crashed>>

DropRequest ==
  /\ AtTask("drop")
  /\ request' = request \ {Head(todo).d}
  /\ EndTask
  /\ UNCHANGED <<avail, status, chunk, exists, occupied, lost, erroneous, retrying, crashed, stuck>>

-----------------------------------------------------------------------------
(* The peers and the chunks.                                               *)

PeerDies(p) ==
  /\ MainIdle /\ p \in avail
  /\ avail' = avail \ {p}
  /\ \E others \in BOOLEAN :   \* other peers may own the chunks
       chunk' = [f \in Files |-> IF SourceOf[f] # p \/ others THEN chunk[f]
                                ELSE [chunk[f] EXCEPT !.peered = {}]]
  /\ UNCHANGED <<status, exists, asking, erroneous, retrying, control, crashed, stuck>>

(* peerBecomesAvailable(): the files of p, then a scan of each kind.       *)
PeerBecomesAvailable(p) ==
  LET files == Only(Order, {f \in Files \cap Queued : SourceOf[f] = p})
      scans == Only(<<"entries", "hashes">>,
                    {k \in {"entries", "hashes"} :
                       p \notin occupied[k] /\ \E d \in Queued : SourceOf[d] = p})
  IN /\ MainIdle /\ p \notin avail
     /\ avail' = avail \cup {p}
     /\ todo' = [i \in 1..Len(files) |-> Task("available", files[i])]
                \o [i \in 1..Len(scans) |-> Task(scans[i], NoDownload)]
     /\ at' = 1
     /\ UNCHANGED <<status, chunk, exists, asking, erroneous, retrying, crashed, stuck>>

(* peerSourceBecomesAvailable(): updateStatus() is called when the source  *)
(* was not in the list of a chunk.                                         *)
SourceAvailable ==
  /\ AtTask("available")
  /\ LET f == Head(todo).d
         ch == WithSource(f, chunk[f])
         path == <<status[f], Welcomed(f, status[f])>>
     IN \/ \E nested \in BOOLEAN :
             LET s == Settled(f, ch, path, f \in request, f \in exists, nested)
             IN /\ ch.known # {}
                /\ chunk' = [chunk EXCEPT ![f] = s.ch]
                /\ SetStatuses(f, s.path, erroneous)
                /\ exists' = IF s.exists THEN exists ELSE exists \ {f}
                /\ crashed' = s.crashes
        \/ /\ chunk' = [chunk EXCEPT ![f] = ch]
           /\ SetStatuses(f, path, erroneous)
           /\ UNCHANGED <<exists, crashed>>
  /\ EndTask
  /\ UNCHANGED <<avail, asking, retrying>>

(* A chunk finds or loses its peers: CHUNKS_OWNED, or a list that is       *)
(* purged, by the worker of the chunk at any moment.                       *)
PeersChange(f, n) ==
  /\ ~crashed /\ f \in Queued /\ n \in chunk[f].known \ chunk[f].done
  /\ MainIdle \/ n \in chunk[f].down \cap chunk[f].peered
  /\ UNCHANGED asking
  /\ UpdateStatus(f, [chunk[f] EXCEPT !.peered = IF n \in @ THEN @ \ {n} ELSE @ \cup {n}])
  /\ UNCHANGED <<avail, retrying, control>>

(* scanTheQueue() chooses the chunk n of f.                                *)
Chosen(f, n) ==
  /\ MainIdle /\ f \in Queued
  /\ status[f] \notin Errors /\ ~Frozen(status[f])
  /\ n \in (chunk[f].known \cap chunk[f].peered) \ (chunk[f].down \cup chunk[f].done)
  /\ UNCHANGED <<avail, asking, retrying, control>>

ChunkStarts(f, n) ==
  /\ Chosen(f, n)
  /\ exists' = exists \cup {f}
  /\ chunk' = [chunk EXCEPT ![f] = [chunk[f] EXCEPT !.down = @ \cup {n}]]
  /\ SetStatus(f, "DOWNLOADING")
  /\ UNCHANGED crashed

CreateFails(f, n) ==
  /\ Chosen(f, n) /\ f \notin exists
  /\ SetStatus(f, "UNABLE_TO_CREATE")
  /\ UNCHANGED <<chunk, exists, crashed>>

(* newFile() may return chunks that are complete already.                  *)
CreateFinds(f, n) ==
  /\ Chosen(f, n) /\ f \notin exists
  /\ LET s == Settled(f, Found(chunk[f]), <<status[f]>>, f \in request, TRUE, FALSE)
     IN /\ chunk' = [chunk EXCEPT ![f] = s.ch]
        /\ SetStatuses(f, s.path, erroneous)
        /\ exists' = IF s.exists THEN exists \cup {f} ELSE exists \ {f}
        /\ crashed' = s.crashes

(* The transfer of a chunk ends: downloadingEnded(), updateStatus().       *)
Outcomes(ch, n) ==
  LET ended == [ch EXCEPT !.down = @ \ {n}, !.failed = @ \ {n}, !.absent = @ \ {n}]
  IN {ended, [ended EXCEPT !.done = @ \cup {n}], [ended EXCEPT !.failed = @ \cup {n}],
      [ended EXCEPT !.absent = @ \cup {n}]}

ChunkEnds(f, n) ==
  /\ MainIdle /\ f \in Queued /\ n \in chunk[f].down
  /\ UNCHANGED asking
  /\ \E ch \in Outcomes(chunk[f], n) : UpdateStatus(f, ch)
  /\ UNCHANGED <<avail, retrying, control>>

-----------------------------------------------------------------------------
Init ==
  /\ avail \in SUBSET Peers
  /\ status = [d \in Downloads |-> "unborn"]
  /\ chunk = [f \in Files |-> NoChunks]
  /\ exists = {} /\ request = {} /\ erroneous = <<>> /\ retrying = {}
  /\ occupied = [hashes |-> {}, entries |-> {}]
  /\ lost = [hashes |-> {}, entries |-> {}] /\ stuck = {}
  /\ todo = <<>> /\ at = 1 /\ crashed = FALSE

Command == \/ \E d \in Downloads : Add(d)
           \/ \E f \in Files : Pause(f) \/ Unpause(f) \/ RemoveFile(f)
           \/ \E d \in Dirs : RemoveDir(d)
Timer   == RestartNone \/ (\E i \in 1..Len(erroneous) : Restart(i)) \/ (\E d \in Dirs : Retry(d))
Answer  == \/ \E f \in Files : \/ \E n \in ChunksOf(f) : NextHash(f, n)
                               \/ \E st \in {"ENTRY_NOT_FOUND", "UNABLE_TO_RETRIEVE_THE_HASHES"} :
                                    NoHashes(f, st)
           \/ \E d \in Dirs : \/ Entries(d)
                              \/ \E st \in {"ENTRY_NOT_FOUND", "UNABLE_TO_GET_ENTRIES"} :
                                   NoEntries(d, st)
Handler == \/ AddChild \/ DeleteDir \/ DropRequest \/ SourceAvailable
           \/ \E kind \in {"hashes", "entries"} :
                ScanEnds(kind) \/ \E i \in Positions : ScanTurn(kind, i)
PeerEvent  == \E p \in Peers : PeerDies(p) \/ PeerBecomesAvailable(p)
ChunkEvent ==
  \E f \in Files : \E n \in ChunksOf(f) :
    \/ PeersChange(f, n) \/ ChunkStarts(f, n) \/ CreateFails(f, n) \/ CreateFinds(f, n)
    \/ ChunkEnds(f, n)

Next == Command \/ Timer \/ Answer \/ Handler \/ PeerEvent \/ ChunkEvent
Spec == Init /\ [][Next]_vars

-----------------------------------------------------------------------------
(* Properties.                                                             *)

ChunkSets ==
  LET sets == SUBSET Nat
  IN [known : sets, down : sets, done : sets, failed : sets, absent : sets, peered : sets]
ChunksOK(f, ch) ==
  /\ ch \in ChunkSets /\ ch.known \subseteq ChunksOf(f)
  /\ ch.down \cup ch.done \cup ch.failed \cup ch.absent \cup ch.peered \subseteq ch.known
Tasks ==
  [kind : {"hashes", "entries"}, d : {NoDownload}] \cup [kind : {"start"}, d : Downloads]
    \cup [kind : {"available"}, d : Files] \cup [kind : {"free", "drop"}, d : Dirs]

(* Every variable has its type; only files are downloaded, only           *)
(* directories are browsed again.                                          *)
TypeOK ==
  /\ avail \subseteq Peers
  /\ status \in [Downloads -> Statuses]
  /\ chunk \in [Files -> ChunkSets] /\ \A f \in Files : ChunksOK(f, chunk[f])
  /\ exists \subseteq Files /\ request \subseteq Downloads /\ retrying \subseteq Dirs
  /\ occupied \in [hashes : SUBSET Peers, entries : SUBSET Peers]
  /\ lost \in [hashes : SUBSET Peers, entries : SUBSET Peers]
  /\ erroneous \in Seq(Downloads) /\ Len(erroneous) <= MaxListed
  /\ todo \in Seq(Tasks) /\ at \in 1..Len(Order) + 1 /\ crashed \in BOOLEAN /\ stuck \subseteq Downloads

(* A peer is occupied by a request, of hashes or of entries, exactly while *)
(* one download waits for its answer: each file that waits for hashes      *)
(* occupies its source, and no two have the same; who is occupied will be  *)
(* freed by the download that holds it, one being deleted included; and a  *)
(* file never shows GETTING_THE_HASHES, the status that keeps it from      *)
(* asking, unless an answer or a timeout is to come.  The exceptions are   *)
(* the requests that were overwritten.                                     *)
HashRequestsExclusive ==
  \A f \in request \cap Files :
    /\ SourceOf[f] \in occupied.hashes
    /\ \A g \in request \cap Files : SourceOf[g] = SourceOf[f] => g = f
OccupiedIsHeld ==
  /\ \A p \in occupied.hashes \ lost.hashes : \E f \in request \cap Files : SourceOf[f] = p
  /\ \A p \in occupied.entries \ lost.entries :
       \/ \E d \in request \cap Dirs : SourceOf[d] = p
       \/ \E i \in 1..Len(todo) : todo[i].kind = "free" /\ SourceOf[todo[i].d] = p
GettingIsAsked ==
  \A f \in Files : status[f] = "GETTING_THE_HASHES" => f \in request
RequestsHoldPeers == HashRequestsExclusive /\ OccupiedIsHeld /\ GettingIsAsked

(* A file said to be complete has all of its chunks, whatever the order of *)
(* the errors, of the hashes and of the ends of the transfers.             *)
CompleteHasAll ==
  \A f \in Files : status[f] = "COMPLETE" =>
    chunk[f].done = ChunksOf(f)

(* A download in error will be started again: it is in the list of the     *)
(* timer, or has its own.  The exceptions are the downloads restarted when *)
(* start() could not change their status.                                  *)
ErroneousIsRetried ==
  \A d \in Queued : status[d] \in Errors =>
    (\E i \in 1..Len(erroneous) : erroneous[i] = d) \/ d \in retrying \cup stuck
=============================================================================

--------------------------- MODULE ChunkTransfer ---------------------------
(***************************************************************************)
(* The transfer of chunks from the remote peers: the ChunkDownloaders, the *)
(* thread pool that runs them, the peers occupied by a transfer, the count *)
(* of chunks each peer owns (LinkedPeers) and the scan of the queue that   *)
(* starts new transfers (DownloadManager::scanTheQueue).                   *)
(*                                                                         *)
(* Two kinds of actors share this state.  The main thread runs the Qt      *)
(* event loop: a timer, a datagram, a network answer or a posted event     *)
(* starts a handler, which runs to its end before the next one.  A handler *)
(* that ends a transfer scans the queue, and one that stops a download     *)
(* waits for a worker thread, so a handler is several steps here, and      *)
(* MainIdle says that none is under way.  The worker threads of the pool   *)
(* run ChunkDownloader::run and take their steps at any moment, between    *)
(* the steps of a handler too.                                             *)
(*                                                                         *)
(* Left to FileStatus: the precise status of a file, the list and timer of *)
(* the erroneous downloads and the retrieval of the hashes.  Here a file   *)
(* whose transfer failed may or may not become ERRONEOUS.  The bytes of a  *)
(* chunk and the speed of a peer are abstracted: any free peer may be the  *)
(* fastest, any ready chunk of a file the rarest.                          *)
(*                                                                         *)
(* DownloadManager connects itself to the end of each transfer it starts,  *)
(* by a pointer to its member, and disconnects itself at that end, by the  *)
(* name of the slot.  Qt does not find a connection of the first kind by   *)
(* the second, so that the connections of a chunk add up.  The constant    *)
(* Disconnects tells what follows from it (FALSE) from what the algorithm  *)
(* does when each end is counted once (TRUE).                              *)
(***************************************************************************)
EXTENDS Integers, Sequences, FiniteSets

CONSTANTS
  NbFiles,       \* the downloads of the queue are 1..NbFiles, in queue order
  Chunks,        \* the chunk downloaders, numbered in the order of a file
  FileOf,        \* the file of each chunk
  Peers,         \* the remote peers
  SourceOf,      \* the peer each file is downloaded from (its source)
  Threads,       \* bound: the threads the pool may create
  NbDownloader,  \* setting "number_of_downloader"
  MaxFailures,   \* bound: transfers that end in error
  MaxStops,      \* bound: downloads paused or removed
  Disconnects,   \* does disconnect() remove the connection? In Qt 5 and 6: no
  MaxConnections,\* bound: connections of a chunk to the manager
  NoPeer, NoChunk

Files == 1..NbFiles

ASSUME SizesAssumption ==
  /\ NbFiles \in Nat /\ NbDownloader \in Nat
  /\ MaxFailures \in Nat /\ MaxStops \in Nat /\ MaxConnections \in Nat
ASSUME ConnectionsAssumption == Disconnects \in BOOLEAN
ASSUME ChunksAssumption ==
  Chunks \subseteq Nat /\ IsFiniteSet(Chunks) /\ FileOf \in [Chunks -> Files]
ASSUME PeersAssumption ==
  IsFiniteSet(Peers) /\ SourceOf \in [Files -> Peers]
ASSUME NullsAssumption == NoPeer \notin Peers /\ NoChunk \notin Chunks

VARIABLES
  avail,        \* the peers for which Peer::isAvailable() holds
  peers,        \* ChunkDownloader::peers
  links,        \* LinkedPeers, 0 for a peer that is not a key of the map
  occupied,     \* OccupiedPeers::occupiedPeers (downloading a chunk)
  downloading,  \* the chunks whose ChunkDownloader::downloading holds
  current,      \* ChunkDownloader::currentDownloadingPeer
  socket,       \* the chunks whose ChunkDownloader::socket is not null
  complete,     \* the chunks whose FM::IChunk::isComplete() holds
  failed,       \* the chunks whose lastTransferStatus is an error
  status,       \* Download::status
  nbRunning,    \* DownloadManager::numberOfDownloadThreadRunning
  connected,    \* connections of downloadFinished to chunkDownloaderFinished
  thread,       \* the threads of the pool
  active,       \* ThreadPool::activeThreads
  scan,         \* scanTheQueue: the local variables of its loop
  handler,      \* the rest of the main thread's handler: chunks to stop, ...
  failures,     \* counts the failed transfers, for the bound MaxFailures
  stops         \* counts the stops, for the bound MaxStops

transfer == <<downloading, current, socket, occupied, nbRunning, connected>>
sources  == <<peers, links, status, failed>>
pool     == <<thread, active>>
bounds   == <<failures, stops>>
vars == <<avail, complete, scan, handler, transfer, sources, pool, bounds>>

Statuses == {"QUEUED", "DOWNLOADING", "COMPLETE", "PAUSED", "DELETED", "ERRONEOUS"}
Idle     == [st |-> "idle", run |-> NoChunk]
NotScanning == [on |-> FALSE, next |-> 1, file |-> 0, chunk |-> NoChunk, left |-> {}]
NoHandler   == [toStop |-> {}, waiting |-> NoChunk, removing |-> 0]

ChunksOf(f) == {c \in Chunks : FileOf[c] = f}
MainIdle    == ~scan.on /\ handler = NoHandler
Asked_TimerRuns(c) == c \in downloading  \* mutant: the answer does not stop the timer
Asked(c)    == c \in downloading \ socket   \* GET_CHUNKS sent, no answer yet
FreePeersOf_Occupied(c) == peers[c] \cap avail   \* mutant: isPeerFree() forgotten
FreePeersOf(c) == (peers[c] \cap avail) \ occupied

-----------------------------------------------------------------------------
(* The status of the files and the lists of peers.                         *)

(* A download in one of these statuses is not changed by updateStatus().   *)
Frozen(f) == status[f] \in {"COMPLETE", "PAUSED", "DELETED"}

(* The chunks updateStatus() looks at before it meets one that is being    *)
(* downloaded, and among them those whose list it purges: each incomplete  *)
(* one, until one is found that has an available peer.                     *)
Visited(f, dl) ==
  IF Frozen(f) THEN {}
  ELSE {c \in ChunksOf(f) \ dl : \A d \in ChunksOf(f) \cap dl : c < d}
Inspected(f, av, dl, ps) ==
  LET wanting == Visited(f, dl) \ (complete \cup failed)
  IN {c \in wanting : \A d \in wanting : d < c => ps[d] \cap av = {}}

(* The statuses updateStatus() may give a file.  Which of a failed chunk   *)
(* and of an incomplete one decides is told by FileStatus.                 *)
NewStatuses(f, dl) ==
  IF Frozen(f) THEN {status[f]}
  ELSE IF ChunksOf(f) \cap dl # {} THEN {"DOWNLOADING"}
  ELSE IF ChunksOf(f) \subseteq complete THEN {"COMPLETE"}
  ELSE IF ChunksOf(f) \cap failed # {} THEN {"ERRONEOUS", "QUEUED"}
  ELSE {"QUEUED"}

(* Mutant: a peer enters a list without addLink. *)
Relinked_NoAddLink(ps) ==
  [p \in Peers |-> links[p] - Cardinality({c \in Chunks : p \in peers[c] \ ps[c]})]

(* The links that remain when the lists of peers become ps: rmLink once    *)
(* for each chunk and each peer that leaves its list, addLink for each     *)
(* that enters it.                                                         *)
Relinked(ps) ==
  [p \in Peers |-> links[p] + Cardinality({c \in Chunks : p \in ps[c] \ peers[c]})
                            - Cardinality({c \in Chunks : p \in peers[c] \ ps[c]})]

Purged(ps, av, C) == [c \in Chunks |-> IF c \in C THEN ps[c] \cap av ELSE ps[c]]

(* updateStatus() of the files F when av is the set of available peers, dl *)
(* the set of downloading chunks and ps gives the peers of each chunk.  A  *)
(* list in forget is then emptied without its links being removed.         *)
SettleLists(F, av, dl, ps, forget) ==
  LET listed == Purged(ps, av, UNION {Inspected(f, av, dl, ps) : f \in F})
  IN /\ failed' = failed \ UNION {Visited(f, dl) : f \in F}
     /\ links' = Relinked(listed)
     /\ peers' = [c \in Chunks |-> IF c \in forget THEN {} ELSE listed[c]]
Settle(F, av, dl, ps, forget) ==
  /\ SettleLists(F, av, dl, ps, forget)
  /\ \E s \in [F -> Statuses] :
       /\ \A f \in F : s[f] \in NewStatuses(f, dl)
       /\ status' = [f \in Files |-> IF f \in F THEN s[f] ELSE status[f]]

(* The lists of some chunks become ps: a list that changed emits           *)
(* numberOfPeersChanged, connected to updateStatus() of its file.          *)
FilesChanged(ps) == {FileOf[c] : c \in {d \in Chunks : ps[d] # peers[d]}}
PeersChanged(av, ps) == Settle(FilesChanged(ps), av, downloading, ps, {})

(* scanTheQueue starts: the peers that own a chunk and are not occupied.   *)
StartScan ==
  scan' = [NotScanning EXCEPT !.on = TRUE,
                              !.left = {p \in Peers : links'[p] # 0} \ occupied']

(* Mutant: the test of newPeer is inverted. *)
NewPeer_Inverted(p) == IF p \in occupied THEN StartScan ELSE UNCHANGED scan

(* OccupiedPeers::newPeer: a peer already occupied starts nothing.         *)
NewPeer(p) == IF p \in occupied THEN UNCHANGED scan ELSE StartScan

-----------------------------------------------------------------------------
(* ChunkDownloader::downloadingEnded, for a chunk whose list of peers is   *)
(* ps.  chunkDownloaderFinished is called once for each connection, and    *)
(* the peer of the transfer becomes free, which scans the queue.           *)
DownloadingEnded(c, ps) ==
  /\ downloading' = downloading \ {c}
  /\ socket' = socket \ {c}
  /\ current' = [current EXCEPT ![c] = NoPeer]
  /\ occupied' = occupied \ {current[c]}
  /\ nbRunning' = nbRunning - connected[c]
  /\ connected' = [connected EXCEPT ![c] = IF Disconnects THEN 0 ELSE @]
  /\ Settle({FileOf[c]}, avail, downloading \ {c}, ps, {c} \cap complete)
  /\ StartScan

-----------------------------------------------------------------------------
(* Handlers of the main thread: peers and what they own.                   *)

(* Peer::consideredDead: no IMAlive for a while, or a Goodbye.             *)
PeerDies(p) ==
  /\ MainIdle /\ p \in avail
  /\ avail' = avail \ {p}
  /\ UNCHANGED <<complete, scan, handler, transfer, sources, pool, bounds>>

(* DownloadManager::peerBecomesAvailable: the peer is given back to every  *)
(* chunk of the files it is the source of, the complete ones too.          *)
PeerBecomesAvailable(p) ==
  /\ MainIdle /\ p \in Peers \ avail
  /\ avail' = avail \cup {p}
  /\ UNCHANGED <<complete, handler, transfer, pool, bounds>>
  /\ PeersChanged(avail', [c \in Chunks |->
       IF SourceOf[FileOf[c]] = p /\ status[FileOf[c]] # "DELETED"
       THEN peers[c] \cup {p} ELSE peers[c]])
  /\ NewPeer(p)

(* A CHUNKS_OWNED answer of an available peer says it owns the chunk.      *)
AddPeer(c, p) ==
  /\ MainIdle /\ p \in avail
  /\ status[FileOf[c]] # "DELETED"
  /\ c \notin complete /\ p \notin peers[c]
  /\ UNCHANGED <<avail, complete, handler, transfer, pool, bounds>>
  /\ PeersChanged(avail, [peers EXCEPT ![c] = @ \cup {p}])
  /\ NewPeer(p)

(* ... or that it does not, maybe while the chunk is downloaded from it.   *)
RmPeer(c, p) ==
  /\ MainIdle /\ p \in avail \cap peers[c]
  /\ PeersChanged(avail, [peers EXCEPT ![c] = @ \ {p}])
  /\ UNCHANGED <<avail, complete, scan, handler, transfer, pool, bounds>>

(* FileDownload::getPeers, asked by each refresh of a connected GUI, drops *)
(* the peers that are not available from the lists.                        *)
GetPeers(f) ==
  LET ps == [c \in Chunks |-> IF c \in ChunksOf(f) THEN peers[c] \cap avail ELSE peers[c]]
  IN /\ MainIdle /\ status[f] # "DELETED"
     /\ ps # peers
     /\ PeersChanged(avail, ps)
     /\ UNCHANGED <<avail, complete, scan, handler, transfer, pool, bounds>>

(* DownloadManager::restartErroneousDownloads: FileDownload::start of a    *)
(* file that is still erroneous.                                           *)
RestartErroneous(f) ==
  LET src == SourceOf[f]
      ps  == [c \in Chunks |-> IF c \in ChunksOf(f) /\ src \in avail
                               THEN peers[c] \cup {src} ELSE peers[c]]
  IN /\ MainIdle /\ status[f] = "ERRONEOUS"
     /\ UNCHANGED <<avail, complete, handler, transfer, pool, bounds>>
     /\ Settle({f}, avail, downloading, ps, {})
     /\ IF src \in avail THEN NewPeer(src) ELSE UNCHANGED scan

-----------------------------------------------------------------------------
(* Handlers of the main thread: the answers to GET_CHUNKS.                 *)

(* OK with the size of the chunk, then the stream: ThreadPool::run gives   *)
(* the chunk to an inactive thread, or to a new one.                       *)
ResultOk(c) ==
  /\ MainIdle /\ Asked(c)
  /\ socket' = socket \cup {c}
  /\ failed' = failed \ {c}   \* run() begins with lastTransferStatus = QUEUED
  /\ \E t \in Threads \ {active[i] : i \in 1..Len(active)} :
       /\ thread' = [thread EXCEPT ![t] = [st |-> "running", run |-> c]]
       /\ active' = Append(active, t)
  /\ UNCHANGED <<avail, complete, scan, handler, downloading, current, occupied,
                 nbRunning, connected, peers, links, status, bounds>>

(* Any other status: the peer leaves the list of the chunk.                *)
ResultError(c) ==
  /\ MainIdle /\ Asked(c)
  /\ DownloadingEnded(c, [peers EXCEPT ![c] = @ \ {current[c]}])
  /\ UNCHANGED <<avail, complete, handler, pool, bounds>>

(* getChunkTimeout, or an answer without the size of the chunk.            *)
ResultTimeout(c) ==
  /\ MainIdle /\ Asked(c)
  /\ DownloadingEnded(c, peers)
  /\ UNCHANGED <<avail, complete, handler, pool, bounds>>

(* The thread, once in activeThreads, leaves it.                           *)
RemoveActive(t) ==
  \E i \in 1..Len(active) :
    /\ active[i] = t
    /\ active' = SubSeq(active, 1, i - 1) \o SubSeq(active, i + 1, Len(active))

(* Mutant: a transfer that did not complete its chunk is not ended. *)
RunnableFinished_OnlyComplete(t) ==
  LET c == thread[t].run
  IN /\ MainIdle /\ thread[t].st = "ended"
     /\ thread' = [thread EXCEPT ![t] = Idle]
     /\ RemoveActive(t)
     /\ IF c \in downloading \cap complete THEN DownloadingEnded(c, peers)
                                           ELSE UNCHANGED <<scan, transfer, sources>>
     /\ UNCHANGED <<avail, complete, handler, bounds>>

(* ThreadPool::runnableFinished, posted by a thread: finished() ends the   *)
(* transfer if the chunk is downloading, whichever transfer that is now.   *)
RunnableFinished(t) ==
  LET c == thread[t].run
  IN /\ MainIdle /\ thread[t].st = "ended"
     /\ thread' = [thread EXCEPT ![t] = Idle]
     /\ RemoveActive(t)
     /\ IF c \in downloading THEN DownloadingEnded(c, peers)
                             ELSE UNCHANGED <<scan, transfer, sources>>
     /\ UNCHANGED <<avail, complete, handler, bounds>>

-----------------------------------------------------------------------------
(* Handlers of the main thread: pause and removal.                         *)

(* FileDownload::stop will stop the chunks of the file one after another;  *)
(* none of them can be started again: the file is PAUSED or DELETED.       *)
StopFile(f, newStatus, removing) ==
  /\ stops < MaxStops /\ stops' = stops + 1
  /\ status' = [status EXCEPT ![f] = newStatus]
  /\ handler' = [toStop |-> ChunksOf(f) \cap downloading, waiting |-> NoChunk,
                 removing |-> removing]
  /\ UNCHANGED <<avail, complete, scan, transfer, peers, links, failed, pool, failures>>

Pause(f) ==
  /\ MainIdle /\ ~Frozen(f)
  /\ StopFile(f, "PAUSED", 0)

Remove(f) ==
  /\ MainIdle /\ status[f] # "DELETED"
  /\ StopFile(f, "DELETED", f)

Unpause(f) ==
  /\ MainIdle /\ status[f] = "PAUSED"
  /\ status' = [status EXCEPT ![f] = "QUEUED"]
  /\ UNCHANGED <<avail, complete, handler, transfer, peers, links, failed, pool, bounds>>
  /\ StartScan

(* Mutant: stop() counts the end of the transfer, downloadingEnded() again. *)
Stop_CountsTwice(c) ==
  /\ ~scan.on /\ handler.waiting = NoChunk
  /\ c \in handler.toStop /\ \A d \in handler.toStop : c <= d
  /\ downloading' = downloading \ {c}
  /\ nbRunning' = nbRunning - 1
  /\ handler' = [handler EXCEPT !.toStop = @ \ {c}, !.waiting = c]
  /\ UNCHANGED <<avail, complete, scan, current, socket, occupied, connected, sources, pool,
                 bounds>>

(* ChunkDownloader::stop: clears the flag, then waits in ThreadPool::wait  *)
(* without the mutex of the chunk.                                         *)
Stop(c) ==
  /\ ~scan.on /\ handler.waiting = NoChunk
  /\ c \in handler.toStop /\ \A d \in handler.toStop : c <= d
  /\ downloading' = downloading \ {c}
  /\ handler' = [handler EXCEPT !.toStop = @ \ {c}, !.waiting = c]
  /\ UNCHANGED <<avail, complete, scan, current, socket, occupied, nbRunning,
                 connected, sources, pool, bounds>>

(* Mutant: wait() returns once runnableFinished was delivered. *)
Waited_Delivered(c) == \A i \in 1..Len(active) : thread[active[i]].run # c

(* ThreadPool::wait takes the first active thread given this runnable, and *)
(* returns when that thread is not running, or when there is none.         *)
Waited(c) ==
  LET given == {i \in 1..Len(active) : thread[active[i]].run = c}
  IN \A i \in given : (\A j \in given : i <= j) => thread[active[i]].st # "running"

StopReturns(c) ==
  /\ handler.waiting = c /\ c \in Chunks
  /\ ~scan.on /\ Waited(c)
  /\ handler' = [handler EXCEPT !.waiting = NoChunk]
  /\ DownloadingEnded(c, peers)
  /\ UNCHANGED <<avail, complete, pool, bounds>>

(* ~FileDownload deletes the chunk downloaders, which drop their links.    *)
DeleteFile(f) ==
  LET ps == [c \in Chunks |-> IF c \in ChunksOf(f) THEN {} ELSE peers[c]]
  IN /\ handler = [NoHandler EXCEPT !.removing = f] /\ f # 0
     /\ ~scan.on
     /\ handler' = NoHandler
     /\ peers' = ps
     /\ links' = Relinked(ps)
     /\ UNCHANGED <<avail, complete, scan, transfer, status, failed, pool, bounds>>

-----------------------------------------------------------------------------
(* scanTheQueue: its loop, one turn at a time.                             *)

Downloadable(f) == status[f] \notin {"COMPLETE", "DELETED"}   \* IsDownloadable

(* Mutant: isReadyToDownload() does not look whether the chunk is complete. *)
Ready_Complete(f) ==
  IF Frozen(f) THEN {} ELSE {c \in ChunksOf(f) \ downloading : FreePeersOf(c) # {}}

(* Mutant: isReadyToDownload() counts the peers that are not available.    *)
Ready_Dead(f) ==
  IF Frozen(f) THEN {}
  ELSE {c \in ChunksOf(f) \ (downloading \cup complete) : peers[c] \ occupied # {}}

(* The chunks getAChunkToDownload() may choose from.                       *)
Ready(f) ==
  IF Frozen(f) THEN {}
  ELSE {c \in ChunksOf(f) \ (downloading \cup complete) : FreePeersOf(c) # {}}

(* isReadyToDownload() drops the unavailable peers of the chunks of C.     *)
Dropped(C) ==
  [c \in Chunks |-> IF c \in C \ (downloading \cup complete)
                    THEN peers[c] \cap avail ELSE peers[c]]

(* The loop is at the file f: the one a chunk was just taken from, or the  *)
(* next downloadable one.                                                  *)
ScansNext(f) ==
  /\ Downloadable(f) /\ f >= scan.next
  /\ \A g \in Files : Downloadable(g) /\ g >= scan.next => f <= g
ScansFile(f) ==
  /\ scan.on /\ scan.chunk = NoChunk
  /\ nbRunning < NbDownloader /\ scan.left # {}
  /\ IF scan.file = 0 THEN ScansNext(f) ELSE f = scan.file

(* Mutant: the number of running downloads is not compared to the limit. *)
ScansFile_NoLimit(f) ==
  /\ scan.on /\ scan.chunk = NoChunk /\ scan.left # {}
  /\ IF scan.file = 0 THEN ScansNext(f) ELSE f = scan.file

ScanEnds ==
  /\ scan.on /\ scan.chunk = NoChunk
  /\ \/ nbRunning >= NbDownloader
     \/ scan.left = {}
     \/ scan.file = 0 /\ ~ \E f \in Files : ScansNext(f)
  /\ scan' = NotScanning
  /\ UNCHANGED <<avail, complete, handler, transfer, sources, pool, bounds>>

(* "continue" of an erroneous file: a file a chunk was taken from stays.   *)
ScanSkips(f) ==
  /\ ScansFile(f) /\ status[f] = "ERRONEOUS"
  /\ scan' = IF scan.file = 0 THEN [scan EXCEPT !.next = f + 1] ELSE scan
  /\ UNCHANGED <<avail, complete, handler, transfer, sources, pool, bounds>>

(* Mutant: the loop keeps the last file when it finds no chunk in it. *)
ScanFindsNothing_Stays(f) ==
  /\ ScansFile(f) /\ status[f] # "ERRONEOUS" /\ Ready(f) = {}
  /\ scan' = scan
  /\ UNCHANGED <<avail, complete, handler, transfer, sources, pool, bounds>>

ScanFindsNothing(f) ==
  /\ ScansFile(f) /\ status[f] # "ERRONEOUS" /\ Ready(f) = {}
  /\ scan' = [scan EXCEPT !.file = 0, !.next = f + 1]
  /\ IF Frozen(f) THEN UNCHANGED sources
                  ELSE PeersChanged(avail, Dropped(ChunksOf(f)))
  /\ UNCHANGED <<avail, complete, handler, transfer, pool, bounds>>

(* A chunk partially downloaded is taken without a look at the next ones,  *)
(* otherwise the rarest is taken once all have been looked at.             *)
ScanFinds(f, c) ==
  /\ ScansFile(f) /\ status[f] # "ERRONEOUS" /\ c \in Ready(f)
  /\ scan' = [scan EXCEPT !.file = f, !.next = f + 1, !.chunk = c]
  /\ \E C \in {ChunksOf(f), {d \in ChunksOf(f) : d <= c}} :
       PeersChanged(avail, Dropped(C))
  /\ UNCHANGED <<avail, complete, handler, transfer, pool, bounds>>

(* ChunkDownloader::startDownloading with the fastest peer still free.     *)
(* There is always one (StartFindsPeer): the branches of the code for a    *)
(* chunk without a peer are dead.                                          *)
ScanStarts(c, p) ==
  LET ps == [peers EXCEPT ![c] = @ \cap avail]
  IN /\ scan.chunk = c /\ p \in FreePeersOf(c)
     /\ downloading' = downloading \cup {c}
     /\ current' = [current EXCEPT ![c] = p]
     /\ occupied' = occupied \cup {p}
     /\ nbRunning' = nbRunning + 1
     /\ connected[c] < MaxConnections
     /\ connected' = [connected EXCEPT ![c] = @ + 1]
     /\ SettleLists(FilesChanged(ps), avail, downloading, ps, {})
     /\ status' = [status EXCEPT ![FileOf[c]] = "DOWNLOADING"]
     /\ scan' = [scan EXCEPT !.chunk = NoChunk, !.left = @ \ {p}]
     /\ UNCHANGED <<avail, complete, socket, handler, pool, bounds>>

Scan ==
  \/ ScanEnds
  \/ \E f \in Files : ScanSkips(f) \/ ScanFindsNothing(f)
  \/ \E f \in Files, c \in Chunks : ScanFinds(f, c)
  \/ \E c \in Chunks, p \in Peers : ScanStarts(c, p)

-----------------------------------------------------------------------------
(* The worker threads: ChunkDownloader::run, whose reads and writes of     *)
(* data are left out.  It ends, the flag active is cleared, and the event  *)
(* runnableFinished is posted.                                             *)

Running(t, c)  == thread[t] = [st |-> "running", run |-> c]
ThreadEnds(t)  == thread' = [thread EXCEPT ![t].st = "ended"]

(* The flag downloading was cleared: "Downloading aborted".                *)
RunAborts(t, c) ==
  /\ Running(t, c) /\ c \notin downloading
  /\ ThreadEnds(t)
  /\ UNCHANGED <<avail, complete, scan, handler, transfer, sources, active, bounds>>

(* All the bytes are written, the last ones maybe after the flag was       *)
(* cleared: the flag is read between two reads of the socket only.         *)
RunCompletes(t, c) ==
  /\ Running(t, c)
  /\ complete' = complete \cup {c}
  /\ ThreadEnds(t)
  /\ UNCHANGED <<avail, scan, handler, transfer, sources, active, bounds>>

(* The connection dropped or the file cannot be written.                   *)
RunFails(t, c) ==
  /\ Running(t, c) /\ failures < MaxFailures
  /\ failures' = failures + 1
  /\ failed' = failed \cup {c}
  /\ ThreadEnds(t)
  /\ UNCHANGED <<avail, complete, scan, handler, transfer, peers, links, status,
                 active, stops>>

(* The hash does not match: the peer is blocked.                           *)
RunBlocksPeer(t, c) ==
  /\ Running(t, c) /\ failures < MaxFailures /\ current[c] \in Peers
  /\ failures' = failures + 1
  /\ failed' = failed \cup {c}
  /\ avail' = avail \ {current[c]}
  /\ ThreadEnds(t)
  /\ UNCHANGED <<complete, scan, handler, transfer, peers, links, status, active, stops>>

(* "Check for a better peer": getTheFastestFreePeer() purges the list, and *)
(* the run ends when another peer is free and faster.                      *)
RunLooksForPeer(t, c) ==
  /\ Running(t, c) /\ current[c] \in Peers
  /\ UNCHANGED avail
  /\ PeersChanged(avail, [peers EXCEPT ![c] = @ \cap avail])
  /\ \/ UNCHANGED thread
     \/ FreePeersOf(c) \ {current[c]} # {} /\ ThreadEnds(t)
  /\ UNCHANGED <<complete, scan, handler, transfer, active, bounds>>

RunEnds(t, c) ==
  RunAborts(t, c) \/ RunCompletes(t, c) \/ RunFails(t, c) \/ RunBlocksPeer(t, c)

-----------------------------------------------------------------------------
(* The queue was just loaded: no peer is known to be alive.                *)
Init ==
  /\ avail = {}
  /\ peers = [c \in Chunks |-> {}]
  /\ links = [p \in Peers |-> 0]
  /\ occupied = {}
  /\ downloading = {}
  /\ current = [c \in Chunks |-> NoPeer]
  /\ socket = {}
  /\ complete = {}
  /\ failed = {}
  /\ status = [f \in Files |-> "QUEUED"]
  /\ nbRunning = 0
  /\ connected = [c \in Chunks |-> 0]
  /\ thread = [t \in Threads |-> Idle]
  /\ active = <<>>
  /\ scan = NotScanning
  /\ handler = NoHandler
  /\ failures = 0
  /\ stops = 0

PeerEvent ==
  \/ \E p \in Peers : PeerDies(p) \/ PeerBecomesAvailable(p)
  \/ \E c \in Chunks, p \in Peers : AddPeer(c, p) \/ RmPeer(c, p)
  \/ \E f \in Files : GetPeers(f) \/ RestartErroneous(f)
Answer(c)   == ResultOk(c) \/ ResultError(c) \/ ResultTimeout(c)
UserCommand == \E f \in Files : Pause(f) \/ Unpause(f) \/ Remove(f)
StopStep    == (\E c \in Chunks : Stop(c) \/ StopReturns(c)) \/ \E f \in Files : DeleteFile(f)
Worker(t)   == \E c \in Chunks : RunEnds(t, c) \/ RunLooksForPeer(t, c)

Next ==
  \/ PeerEvent
  \/ \E c \in Chunks : Answer(c)
  \/ \E t \in Threads : RunnableFinished(t) \/ Worker(t)
  \/ UserCommand \/ StopStep \/ Scan

(* A handler under way runs to its end and a run reaches its end: the      *)
(* reads of the socket have a timeout.  An event whose time has come, the  *)
(* timeout of a request or a posted event, is delivered even though the    *)
(* main thread is busy now and then: the event loop serves it in turn.     *)
Fairness ==
  /\ WF_vars(Scan) /\ WF_vars(StopStep)
  /\ \A t \in Threads : WF_vars(\E c \in Chunks : RunEnds(t, c))
  /\ \A t \in Threads : SF_vars(RunnableFinished(t))
  /\ \A c \in Chunks : SF_vars(Answer(c))

Spec     == Init /\ [][Next]_vars
FairSpec == Spec /\ Fairness

-----------------------------------------------------------------------------
(* The chunks whose transfer occupies a peer: the ones being downloaded    *)
(* and the one whose worker the main thread waits for.                     *)
Holders == downloading \cup ({handler.waiting} \ {NoChunk})

ThreadStates == [st : {"idle", "running", "ended"}, run : Chunks \cup {NoChunk}]
ScanStates ==
  [on : BOOLEAN, next : Nat, file : Files \cup {0}, chunk : Chunks \cup {NoChunk},
   left : SUBSET Peers]
HandlerStates ==
  [toStop : SUBSET Chunks, waiting : Chunks \cup {NoChunk}, removing : Files \cup {0}]

(* The types of the variables; the counters of LinkedPeers, unsigned in    *)
(* the code, never go below zero.                                          *)
TypeOK ==
  /\ avail \subseteq Peers /\ occupied \subseteq Peers
  /\ peers \in [Chunks -> SUBSET Peers] /\ links \in [Peers -> Nat]
  /\ downloading \subseteq Chunks /\ socket \subseteq Chunks
  /\ complete \subseteq Chunks /\ failed \subseteq Chunks
  /\ current \in [Chunks -> Peers \cup {NoPeer}]
  /\ status \in [Files -> Statuses]
  /\ nbRunning \in Int /\ connected \in [Chunks -> Nat]
  /\ failures \in Nat /\ stops \in Nat
  /\ thread \in [Threads -> ThreadStates] /\ active \in Seq(Threads)
  /\ scan \in ScanStates /\ handler \in HandlerStates

(* A peer is occupied exactly while one transfer uses it, and no two       *)
(* transfers use the same peer, whatever the order in which answers,       *)
(* timeouts, ends of threads, stops and scans come: a peer is neither      *)
(* asked for two chunks at a time nor kept occupied by nobody, which would *)
(* exclude it from every scan to come.                                     *)
OneTransferPerPeer ==
  /\ \A c \in Holders : current[c] \in occupied
  /\ \A p \in occupied : \E c \in Holders : current[c] = p
  /\ \A c, d \in Holders : current[c] = current[d] => c = d
  /\ \A c \in Chunks \ Holders : current[c] = NoPeer

(* The counter of scanTheQueue is incremented after startDownloading and   *)
(* decremented by a signal connected after it.  When each end is counted   *)
(* once it is always the number of transfers, within the limit, whatever   *)
(* the order of the ends, the stops and the scans nested in them.          *)
ThreadBudget ==
  /\ nbRunning = Cardinality(Holders)
  /\ nbRunning <= NbDownloader

(* "number_of_downloader": "Maximum number of simultaneous download."      *)
LimitKept == Cardinality(downloading) <= NbDownloader

(* The main thread in the middle of a handler: a chunk that will be        *)
(* stopped is still downloading when its turn comes, none is started while *)
(* a worker is waited for, and the chunk a scan chose is still idle, with  *)
(* a downloader left for it, when it is started.                           *)
HandlerOrder ==
  /\ handler.toStop \subseteq downloading /\ handler.waiting \notin handler.toStop
  /\ scan.on => handler.waiting = NoChunk
  /\ scan.chunk # NoChunk =>
       scan.on /\ nbRunning < NbDownloader /\ scan.chunk \notin downloading

(* The chunk a scan chose still has a free peer when it is started, even   *)
(* though the status of its file was updated and workers blocked peers in  *)
(* between: startDownloading never returns without a peer, after which the *)
(* loop would turn again with as many peers left as before.                *)
StartFindsPeer == scan.chunk # NoChunk => FreePeersOf(scan.chunk) # {}

(* LinkedPeers never counts fewer chunks for a peer than list it: its      *)
(* unsigned counters do not wrap, and a peer that a chunk could be         *)
(* downloaded from is a key of the map scanTheQueue starts from.           *)
LinksCoverPeers ==
  \A p \in Peers : links[p] >= Cardinality({c \in Chunks : p \in peers[c]})

(* As long as no transfer failed, a chunk that could be downloaded is      *)
(* never left behind: every handler that makes one ready, or a peer free,  *)
(* ends with a scan that starts it, unless all the downloaders are used.   *)
(* (A transfer that failed needs the restart timer: see FileStatus.)       *)
NoChunkForgotten ==
  MainIdle /\ nbRunning < NbDownloader /\ failures = 0 =>
    \A f \in Files : Ready(f) = {}

(* A worker in run() uses its socket and its current peer: nobody clears   *)
(* them before it has ended, and no second thread runs the same chunk.     *)
RunOwnsTransfer ==
  \A t \in Threads, c \in Chunks : Running(t, c) =>
    /\ c \in socket /\ current[c] \in Peers
    /\ \A u \in Threads : Running(u, c) => u = t

(* The transfers implement TransferSlots: a chunk is completed by the      *)
(* thread of its own transfer, and a complete chunk is not asked again.    *)
Slots ==
  INSTANCE TransferSlots WITH
    slot <- [c \in Chunks |-> IF c \in Holders THEN current[c] ELSE NoPeer],
    done <- complete
ImplementsSlots == Slots!Spec

(* The loop of scanTheQueue ends: each turn moves to the next file or      *)
(* takes a peer away, and the "continue" of an erroneous file never keeps  *)
(* the main thread on that file.                                           *)
ScanTerminates == scan.on ~> ~scan.on

(* The main thread waiting for a worker always gets its answer, even with  *)
(* the worker looking for a better peer at that moment: a pause or a       *)
(* removal always ends.                                                    *)
StopEnds == handler # NoHandler ~> handler = NoHandler

(* A transfer that has begun ends, by an answer, a timeout or the end of   *)
(* its thread: its peer is not kept for ever.                              *)
TransferEnds == \A c \in Chunks : c \in downloading ~> c \notin downloading
=============================================================================

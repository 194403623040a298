------------------------ MODULE ChunkTransferProofs ------------------------
(***************************************************************************)
(* Proofs about ChunkTransfer, for every number of files, chunks, peers,   *)
(* threads and failures.  The inductive invariant groups the conjuncts of  *)
(* TypeOK with the safety invariants each of them depends on, so that a    *)
(* handler has to be looked at only in the groups it writes.  Two more     *)
(* inductions rest on it: the chunk a scan chose, and what a scan leaves   *)
(* behind; then the transfers are shown to implement TransferSlots.        *)
(***************************************************************************)
EXTENDS ChunkTransfer, InductionFacts

(* The lists of peers, the links and the status of the files. *)
SourcesOK ==
  /\ failed \subseteq Chunks
  /\ peers \in [Chunks -> SUBSET Peers] /\ links \in [Peers -> Nat]
  /\ status \in [Files -> Statuses]
  /\ LinksCoverPeers

(* When each end is counted once, a chunk is connected while it is held.   *)
Counted ==
  Disconnects => /\ ThreadBudget
                 /\ \A c \in Chunks : connected[c] = IF c \in Holders THEN 1 ELSE 0

(* The transfers. *)
TransferOK ==
  /\ downloading \subseteq Chunks /\ socket \subseteq Chunks /\ occupied \subseteq Peers
  /\ current \in [Chunks -> Peers \cup {NoPeer}]
  /\ nbRunning \in Int /\ connected \in [Chunks -> Nat]
  /\ OneTransferPerPeer /\ Counted

(* The handler of the main thread. *)
ControlOK ==
  /\ scan \in ScanStates /\ handler \in HandlerStates
  /\ HandlerOrder

(* The threads, and what the outside decides. *)
PoolOK ==
  /\ avail \subseteq Peers /\ complete \subseteq Chunks
  /\ thread \in [Threads -> ThreadStates] /\ active \in Seq(Threads)
  /\ failures \in Nat /\ stops \in Nat

IInv == SourcesOK /\ TransferOK /\ ControlOK /\ PoolOK

(* The invariants of the runs are parts of it. *)
LEMMA InvariantParts ==
  IInv => /\ TypeOK /\ OneTransferPerPeer /\ HandlerOrder /\ LinksCoverPeers
          /\ Disconnects => ThreadBudget
BY DEF IInv, SourcesOK, TransferOK, ControlOK, PoolOK, TypeOK, Counted

-----------------------------------------------------------------------------
(* The links of the peers.                                                 *)

(* addLink and rmLink, called once for each difference between the old and *)
(* the new lists, keep the count of a peer at or above the number of lists *)
(* it is in, and so a count that is decremented was not 0.                 *)
LEMMA RelinkedCovers ==
  ASSUME SourcesOK, NEW ps \in [Chunks -> SUBSET Peers]
  PROVE  /\ Relinked(ps) \in [Peers -> Nat]
         /\ \A p \in Peers :
              Relinked(ps)[p] >= Cardinality({c \in Chunks : p \in ps[c]})
<1> SUFFICES ASSUME NEW p \in Peers
             PROVE  /\ Relinked(ps)[p] \in Nat
                    /\ Relinked(ps)[p] >= Cardinality({c \in Chunks : p \in ps[c]})
  BY DEF Relinked
<1> DEFINE Old     == {c \in Chunks : p \in peers[c]}
           New     == {c \in Chunks : p \in ps[c]}
           Entered == {c \in Chunks : p \in ps[c] \ peers[c]}
           Left    == {c \in Chunks : p \in peers[c] \ ps[c]}
<1>1. IsFiniteSet(Old) /\ IsFiniteSet(New)
  BY ChunksAssumption, FS_Subset
<1>2. Entered = New \ Old /\ Left = Old \ New /\ New \cap Old = Old \cap New
  OBVIOUS
<1> HIDE DEF Old, New, Entered, Left
<1>3. /\ Cardinality(Entered) = Cardinality(New) - Cardinality(Old \cap New)
      /\ Cardinality(Left) = Cardinality(Old) - Cardinality(Old \cap New)
  <2>1. Cardinality(New \ Old) = Cardinality(New) - Cardinality(New \cap Old)
    BY <1>1, FS_Difference
  <2>2. Cardinality(Old \ New) = Cardinality(Old) - Cardinality(Old \cap New)
    BY <1>1, FS_Difference
  <2> QED BY <1>2, <2>1, <2>2
<1>4. /\ Cardinality(Old) \in Nat /\ Cardinality(New) \in Nat
      /\ Cardinality(Old \cap New) \in Nat
  BY <1>1, FS_CardinalityType, FS_Intersection
<1>5. links[p] \in Nat /\ links[p] >= Cardinality(Old)
  BY DEF SourcesOK, LinksCoverPeers, Old
<1>6. Relinked(ps)[p] = links[p] + Cardinality(Entered) - Cardinality(Left)
  BY DEF Relinked, Entered, Left
<1>7. Relinked(ps)[p] \in Nat /\ Relinked(ps)[p] >= Cardinality(New)
  BY <1>3, <1>4, <1>5, <1>6
<1> QED BY <1>7 DEF New

(* updateStatus() keeps the links at or above the lists, whatever files it *)
(* is called for and even when a list is emptied without its links.        *)
LEMMA SettleListsKeeps ==
  ASSUME SourcesOK, NEW F, NEW av, NEW dl, NEW forget,
         NEW ps \in [Chunks -> SUBSET Peers],
         SettleLists(F, av, dl, ps, forget)
  PROVE  /\ failed' \subseteq Chunks
         /\ peers' \in [Chunks -> SUBSET Peers] /\ links' \in [Peers -> Nat]
         /\ LinksCoverPeers'
<1> DEFINE listed == Purged(ps, av, UNION {Inspected(f, av, dl, ps) : f \in F})
<1>1. listed \in [Chunks -> SUBSET Peers]
  BY DEF Purged
<1>2. /\ failed' \subseteq failed /\ links' = Relinked(listed)
      /\ peers' = [c \in Chunks |-> IF c \in forget THEN {} ELSE listed[c]]
  BY DEF SettleLists
<1> HIDE DEF listed
<1>3. /\ links' \in [Peers -> Nat]
      /\ \A p \in Peers : links'[p] >= Cardinality({c \in Chunks : p \in listed[c]})
  BY <1>1, <1>2, RelinkedCovers
<1>4. ASSUME NEW p \in Peers
      PROVE  links'[p] >= Cardinality({c \in Chunks : p \in peers'[c]})
  <2> DEFINE Now  == {c \in Chunks : p \in peers'[c]}
             Full == {c \in Chunks : p \in listed[c]}
  <2>1. Now \subseteq Full
    BY <1>2
  <2>2. IsFiniteSet(Full) /\ IsFiniteSet(Now)
    BY ChunksAssumption, FS_Subset
  <2> HIDE DEF Now, Full
  <2>3. Cardinality(Now) <= Cardinality(Full)
    BY <2>1, <2>2, FS_Subset
  <2>4. Cardinality(Now) \in Nat /\ Cardinality(Full) \in Nat
    BY <2>2, FS_CardinalityType
  <2>5. links'[p] \in Nat /\ links'[p] >= Cardinality(Full)
    BY <1>3 DEF Full
  <2> QED BY <2>3, <2>4, <2>5 DEF Now
<1> QED BY <1>1, <1>2, <1>3, <1>4 DEF SourcesOK, LinksCoverPeers

(* The same with the statuses it gives.                                    *)
LEMMA SettleKeeps ==
  ASSUME SourcesOK, NEW F, NEW av, NEW dl, NEW forget,
         NEW ps \in [Chunks -> SUBSET Peers],
         Settle(F, av, dl, ps, forget)
  PROVE  SourcesOK'
<1>1. status' \in [Files -> Statuses]
  BY DEF Settle, SourcesOK
<1> QED BY <1>1, SettleListsKeeps DEF Settle, SourcesOK

LEMMA PeersChangedKeeps ==
  ASSUME SourcesOK, NEW av, NEW ps \in [Chunks -> SUBSET Peers], PeersChanged(av, ps)
  PROVE  SourcesOK'
BY SettleKeeps DEF PeersChanged

-----------------------------------------------------------------------------
(* The transfers.                                                          *)

LEMMA HoldersFinite ==
  ASSUME TransferOK, ControlOK
  PROVE  /\ Holders \subseteq Chunks /\ IsFiniteSet(Holders)
         /\ Cardinality(Holders) \in Nat
<1>1. Holders \subseteq Chunks
  BY DEF Holders, TransferOK, ControlOK, HandlerStates
<1> QED BY <1>1, ChunksAssumption, FS_Subset, FS_CardinalityType

(* scanTheQueue starts with no chunk chosen.                               *)
LEMMA StartScanKeeps ==
  ASSUME StartScan
  PROVE  scan' \in ScanStates /\ scan'.on /\ scan'.chunk = NoChunk
BY DEF StartScan, NotScanning, ScanStates

(* The end of a transfer frees its peer and no other, and gives one        *)
(* downloader back, when the chunk leaves the set of the holders.          *)
LEMMA DownloadingEndedKeeps ==
  ASSUME SourcesOK, TransferOK, ControlOK,
         NEW c \in Holders, NEW ps \in [Chunks -> SUBSET Peers],
         DownloadingEnded(c, ps), Holders' = Holders \ {c}
  PROVE  /\ SourcesOK' /\ TransferOK'
         /\ scan' \in ScanStates /\ scan'.on /\ scan'.chunk = NoChunk
<1>1. Holders \subseteq Chunks /\ IsFiniteSet(Holders) /\ Cardinality(Holders) \in Nat
  BY HoldersFinite
<1>2. SourcesOK'
  BY SettleKeeps DEF DownloadingEnded
<1>3. scan' \in ScanStates /\ scan'.on /\ scan'.chunk = NoChunk
  BY StartScanKeeps DEF DownloadingEnded
<1>4. /\ downloading' \subseteq Chunks /\ socket' \subseteq Chunks
      /\ occupied' \subseteq Peers
      /\ current' = [current EXCEPT ![c] = NoPeer]
      /\ current' \in [Chunks -> Peers \cup {NoPeer}]
      /\ occupied' = occupied \ {current[c]}
      /\ nbRunning' = nbRunning - connected[c] /\ nbRunning' \in Int
      /\ connected' = [connected EXCEPT ![c] = IF Disconnects THEN 0 ELSE @]
      /\ connected' \in [Chunks -> Nat]
  BY <1>1 DEF DownloadingEnded, TransferOK
<1>5. ASSUME Disconnects
      PROVE  ThreadBudget' /\ \A d \in Chunks : connected'[d] = IF d \in Holders' THEN 1 ELSE 0
  <2>0. \A d \in Chunks : connected[d] = IF d \in Holders THEN 1 ELSE 0
    BY <1>5 DEF TransferOK, Counted
  <2>1. Cardinality(Holders \ {c}) = Cardinality(Holders) - 1
    BY <1>1, FS_RemoveElement
  <2>2. Cardinality(Holders \ {c}) \in Nat
    BY <1>1, FS_RemoveElement, FS_CardinalityType
  <2>3. nbRunning' = nbRunning - 1 /\ nbRunning = Cardinality(Holders)
        /\ nbRunning \in Int /\ nbRunning <= NbDownloader
    BY <1>1, <1>4, <1>5, <2>0 DEF TransferOK, Counted, ThreadBudget
  <2>4. nbRunning' = Cardinality(Holders')
    BY <2>1, <2>2, <2>3
  <2>5. nbRunning' <= NbDownloader
    BY <2>3, SizesAssumption
  <2>6. \A d \in Chunks : connected'[d] = IF d \in Holders' THEN 1 ELSE 0
    BY <1>1, <1>4, <1>5, <2>0 DEF TransferOK
  <2> QED BY <2>4, <2>5, <2>6 DEF ThreadBudget
<1>6. OneTransferPerPeer'
  <2>1. \A d \in Holders' : d \in Chunks /\ d \in Holders /\ d # c
    BY <1>1
  <2>2. \A d \in Holders' : current'[d] = current[d] /\ current[d] # current[c]
    BY <1>1, <1>4, <2>1 DEF TransferOK, OneTransferPerPeer
  <2>3. \A d \in Holders' : current'[d] \in occupied'
    BY <1>4, <2>1, <2>2 DEF TransferOK, OneTransferPerPeer
  <2>4. \A p \in occupied' : \E d \in Holders' : current'[d] = p
    BY <1>4, <2>1, <2>2 DEF TransferOK, OneTransferPerPeer
  <2>5. \A d, e \in Holders' : current'[d] = current'[e] => d = e
    BY <2>1, <2>2 DEF TransferOK, OneTransferPerPeer
  <2>6. \A d \in Chunks \ Holders' : current'[d] = NoPeer
    BY <1>1, <1>4 DEF TransferOK, OneTransferPerPeer
  <2> QED BY <2>3, <2>4, <2>5, <2>6 DEF OneTransferPerPeer
<1> QED BY <1>2, <1>3, <1>4, <1>5, <1>6 DEF TransferOK, Counted

(* A transfer starts with a peer that no other transfer uses and while a   *)
(* downloader is left.                                                     *)
LEMMA ScanStartsKeeps ==
  ASSUME IInv, NEW c \in Chunks, NEW p \in Peers, ScanStarts(c, p)
  PROVE  IInv'
<1>1. /\ Holders \subseteq Chunks /\ IsFiniteSet(Holders)
      /\ Cardinality(Holders) \in Nat
  BY HoldersFinite DEF IInv
<1>2. /\ scan.chunk = c /\ p \notin occupied
      /\ downloading' = downloading \cup {c}
      /\ current' = [current EXCEPT ![c] = p]
      /\ occupied' = occupied \cup {p}
      /\ nbRunning' = nbRunning + 1
      /\ connected' = [connected EXCEPT ![c] = @ + 1]
      /\ scan' = [scan EXCEPT !.chunk = NoChunk, !.left = @ \ {p}]
      /\ UNCHANGED <<avail, complete, socket, handler, pool, bounds>>
  BY DEF ScanStarts, FreePeersOf
<1>3. /\ c # NoChunk /\ scan.on /\ handler.waiting = NoChunk
      /\ c \notin downloading /\ nbRunning < NbDownloader
  BY <1>2, NullsAssumption DEF IInv, ControlOK, HandlerOrder
<1>4. Holders' = Holders \cup {c} /\ c \notin Holders
  BY <1>2, <1>3 DEF Holders
<1>5. SourcesOK'
  <2>1. [peers EXCEPT ![c] = @ \cap avail] \in [Chunks -> SUBSET Peers]
    BY DEF IInv, SourcesOK
  <2>2. status' \in [Files -> Statuses]
    BY ChunksAssumption DEF ScanStarts, IInv, SourcesOK, Statuses
  <2> QED BY <2>1, <2>2, SettleListsKeeps DEF ScanStarts, IInv, SourcesOK
<1>6. TransferOK'
  <2>1. /\ downloading' \subseteq Chunks /\ socket' \subseteq Chunks
        /\ occupied' \subseteq Peers
        /\ current' \in [Chunks -> Peers \cup {NoPeer}]
        /\ nbRunning' \in Int /\ connected' \in [Chunks -> Nat]
    BY <1>2 DEF IInv, TransferOK
  <2>2. Counted'
    <3> SUFFICES ASSUME Disconnects
                 PROVE  /\ ThreadBudget'
                        /\ \A d \in Chunks : connected'[d] = IF d \in Holders' THEN 1 ELSE 0
      BY DEF Counted
    <3>0. \A d \in Chunks : connected[d] = IF d \in Holders THEN 1 ELSE 0
      BY DEF IInv, TransferOK, Counted
    <3>1. Cardinality(Holders \cup {c}) = Cardinality(Holders) + 1
      BY <1>1, <1>4, FS_AddElement
    <3>2. nbRunning = Cardinality(Holders) /\ nbRunning \in Int
      BY DEF IInv, TransferOK, Counted, ThreadBudget
    <3>3. ThreadBudget'
      BY <1>2, <1>3, <1>4, <3>1, <3>2, SizesAssumption DEF ThreadBudget
    <3>4. \A d \in Chunks : connected'[d] = IF d \in Holders' THEN 1 ELSE 0
      BY <1>2, <1>4, <3>0 DEF IInv, TransferOK
    <3> QED BY <3>3, <3>4
  <2>3. OneTransferPerPeer'
    <3>1. \A d \in Holders : current'[d] = current[d] /\ current[d] # p
      BY <1>1, <1>2, <1>4 DEF IInv, TransferOK, OneTransferPerPeer
    <3>2. current'[c] = p
      BY <1>2 DEF IInv, TransferOK
    <3> QED BY <1>1, <1>2, <1>4, <3>1, <3>2 DEF IInv, TransferOK, OneTransferPerPeer
  <2> QED BY <2>1, <2>2, <2>3 DEF TransferOK
<1>7. ControlOK'
  <2>1. scan' \in ScanStates /\ scan'.chunk = NoChunk /\ scan'.on = scan.on
    BY <1>2 DEF IInv, ControlOK, ScanStates
  <2> QED BY <1>2, <1>3, <2>1 DEF IInv, ControlOK, HandlerOrder
<1>8. PoolOK'
  BY <1>2 DEF IInv, PoolOK, pool, bounds
<1> QED BY <1>5, <1>6, <1>7, <1>8 DEF IInv

-----------------------------------------------------------------------------
(* What the handlers leave alone.                                          *)

LEMMA TransferUnchanged ==
  ASSUME TransferOK, UNCHANGED <<transfer, handler>>
  PROVE  TransferOK' /\ Holders' = Holders
BY DEF transfer, TransferOK, OneTransferPerPeer, Counted, ThreadBudget, Holders

LEMMA ControlUnchanged ==
  ASSUME ControlOK, UNCHANGED <<transfer, handler, scan>>
  PROVE  ControlOK'
BY DEF transfer, ControlOK, HandlerOrder

LEMMA SourcesUnchanged ==
  ASSUME SourcesOK, UNCHANGED sources
  PROVE  SourcesOK'
BY DEF sources, SourcesOK, LinksCoverPeers

(* A handler that scans the queue: no worker is waited for.                *)
LEMMA ControlScans ==
  ASSUME ControlOK, handler.waiting = NoChunk, UNCHANGED <<transfer, handler>>, StartScan
  PROVE  ControlOK'
BY StartScanKeeps DEF transfer, ControlOK, HandlerOrder

LEMMA ControlNewPeer ==
  ASSUME ControlOK, MainIdle, NEW p, UNCHANGED <<transfer, handler>>, NewPeer(p)
  PROVE  ControlOK'
<1>1. handler.waiting = NoChunk
  BY DEF MainIdle, NoHandler
<1> QED BY <1>1, ControlUnchanged, ControlScans DEF NewPeer

-----------------------------------------------------------------------------
(* The handlers of the main thread.                                        *)

LEMMA PeerEventKeeps ==
  ASSUME IInv, PeerEvent
  PROVE  IInv'
<1> USE DEF IInv
<1>1. ASSUME NEW p \in Peers, PeerDies(p) PROVE IInv'
  <2>1. SourcesOK' /\ TransferOK' /\ ControlOK'
    BY <1>1, SourcesUnchanged, TransferUnchanged, ControlUnchanged DEF PeerDies
  <2>2. PoolOK'
    BY <1>1 DEF PeerDies, PoolOK, pool, bounds
  <2> QED BY <2>1, <2>2
<1>2. ASSUME NEW p \in Peers, PeerBecomesAvailable(p) PROVE IInv'
  <2> DEFINE ps == [c \in Chunks |->
                      IF SourceOf[FileOf[c]] = p /\ status[FileOf[c]] # "DELETED"
                      THEN peers[c] \cup {p} ELSE peers[c]]
  <2>1. ps \in [Chunks -> SUBSET Peers]
    BY DEF SourcesOK
  <2>2. PeersChanged(avail', ps)
    BY <1>2 DEF PeerBecomesAvailable
  <2>3. SourcesOK'
    BY <2>1, <2>2, PeersChangedKeeps
  <2>4. TransferOK' /\ ControlOK'
    BY <1>2, TransferUnchanged, ControlNewPeer DEF PeerBecomesAvailable
  <2>5. PoolOK'
    BY <1>2 DEF PeerBecomesAvailable, PoolOK, pool, bounds
  <2> QED BY <2>3, <2>4, <2>5
<1>3. ASSUME NEW c \in Chunks, NEW p \in Peers, AddPeer(c, p) PROVE IInv'
  <2>1. [peers EXCEPT ![c] = @ \cup {p}] \in [Chunks -> SUBSET Peers]
    BY DEF SourcesOK
  <2>2. SourcesOK'
    BY <1>3, <2>1, PeersChangedKeeps DEF AddPeer
  <2>3. TransferOK' /\ ControlOK'
    BY <1>3, TransferUnchanged, ControlNewPeer DEF AddPeer
  <2>4. PoolOK'
    BY <1>3 DEF AddPeer, PoolOK, pool, bounds
  <2> QED BY <2>2, <2>3, <2>4
<1>4. ASSUME NEW c \in Chunks, NEW p \in Peers, RmPeer(c, p) PROVE IInv'
  <2>1. [peers EXCEPT ![c] = @ \ {p}] \in [Chunks -> SUBSET Peers]
    BY DEF SourcesOK
  <2>2. SourcesOK'
    BY <1>4, <2>1, PeersChangedKeeps DEF RmPeer
  <2>3. TransferOK' /\ ControlOK'
    BY <1>4, TransferUnchanged, ControlUnchanged DEF RmPeer
  <2>4. PoolOK'
    BY <1>4 DEF RmPeer, PoolOK, pool, bounds
  <2> QED BY <2>2, <2>3, <2>4
<1>5. ASSUME NEW f \in Files, GetPeers(f) PROVE IInv'
  <2> DEFINE ps == [c \in Chunks |-> IF c \in ChunksOf(f) THEN peers[c] \cap avail
                                                          ELSE peers[c]]
  <2>1. ps \in [Chunks -> SUBSET Peers]
    BY DEF SourcesOK
  <2>2. PeersChanged(avail, ps)
    BY <1>5 DEF GetPeers
  <2>3. SourcesOK'
    BY <2>1, <2>2, PeersChangedKeeps
  <2>4. TransferOK' /\ ControlOK'
    BY <1>5, TransferUnchanged, ControlUnchanged DEF GetPeers
  <2>5. PoolOK'
    BY <1>5 DEF GetPeers, PoolOK, pool, bounds
  <2> QED BY <2>3, <2>4, <2>5
<1>6. ASSUME NEW f \in Files, RestartErroneous(f) PROVE IInv'
  <2> DEFINE src == SourceOf[f]
             ps  == [c \in Chunks |-> IF c \in ChunksOf(f) /\ src \in avail
                                      THEN peers[c] \cup {src} ELSE peers[c]]
  <2>1. ps \in [Chunks -> SUBSET Peers]
    BY PeersAssumption DEF SourcesOK
  <2>2. Settle({f}, avail, downloading, ps, {})
    BY <1>6 DEF RestartErroneous
  <2>3. SourcesOK'
    BY <2>1, <2>2, SettleKeeps
  <2>4. TransferOK' /\ ControlOK'
    BY <1>6, TransferUnchanged, ControlUnchanged, ControlNewPeer DEF RestartErroneous
  <2>5. PoolOK'
    BY <1>6 DEF RestartErroneous, PoolOK, pool, bounds
  <2> QED BY <2>3, <2>4, <2>5
<1> QED BY <1>1, <1>2, <1>3, <1>4, <1>5, <1>6 DEF PeerEvent

LEMMA AnswerKeeps ==
  ASSUME IInv, NEW c \in Chunks, Answer(c)
  PROVE  IInv'
<1> USE DEF IInv
<1>1. CASE ResultOk(c)
  <2>1. SourcesOK'
    BY <1>1 DEF ResultOk, SourcesOK, LinksCoverPeers
  <2>2. TransferOK'
    BY <1>1 DEF ResultOk, TransferOK, OneTransferPerPeer, Counted, ThreadBudget, Holders
  <2>3. ControlOK'
    BY <1>1 DEF ResultOk, ControlOK, HandlerOrder
  <2>4. PoolOK'
    <3> PICK t \in Threads : /\ thread' = [thread EXCEPT ![t] = [st |-> "running", run |-> c]]
                             /\ active' = Append(active, t)
      BY <1>1 DEF ResultOk
    <3> QED BY <1>1 DEF ResultOk, PoolOK, ThreadStates, bounds
  <2> QED BY <2>1, <2>2, <2>3, <2>4
<1>2. CASE ResultError(c) \/ ResultTimeout(c)
  <2>1. PICK ps \in [Chunks -> SUBSET Peers] : DownloadingEnded(c, ps)
    <3>1. [peers EXCEPT ![c] = @ \ {current[c]}] \in [Chunks -> SUBSET Peers]
      BY DEF SourcesOK
    <3>2. peers \in [Chunks -> SUBSET Peers]
      BY DEF SourcesOK
    <3> QED BY <1>2, <3>1, <3>2 DEF ResultError, ResultTimeout
  <2>2. /\ c \in downloading /\ handler = NoHandler
        /\ UNCHANGED <<avail, complete, handler, pool, bounds>>
    BY <1>2 DEF ResultError, ResultTimeout, Asked, MainIdle
  <2>3. downloading' = downloading \ {c}
    BY <2>1 DEF DownloadingEnded
  <2>4. c \in Holders /\ Holders' = Holders \ {c}
    BY <2>2, <2>3, NullsAssumption DEF Holders, NoHandler
  <2>5. /\ SourcesOK' /\ TransferOK'
        /\ scan' \in ScanStates /\ scan'.chunk = NoChunk
    BY <2>1, <2>4, DownloadingEndedKeeps
  <2>6. ControlOK'
    BY <2>2, <2>5 DEF ControlOK, HandlerOrder, NoHandler
  <2>7. PoolOK'
    BY <2>2 DEF PoolOK, pool, bounds
  <2> QED BY <2>5, <2>6, <2>7
<1> QED BY <1>1, <1>2 DEF Answer

LEMMA RunnableFinishedKeeps ==
  ASSUME IInv, NEW t \in Threads, RunnableFinished(t)
  PROVE  IInv'
<1> USE DEF IInv
<1> DEFINE c == thread[t].run
<1>1. PoolOK'
  <2>1. PICK i \in 1..Len(active) :
          active' = SubSeq(active, 1, i - 1) \o SubSeq(active, i + 1, Len(active))
    BY DEF RunnableFinished, RemoveActive
  <2>2. active' \in Seq(Threads)
    <3>1. Len(active) \in Nat /\ \A j \in 1..Len(active) : active[j] \in Threads
      BY LenProperties DEF PoolOK
    <3>2. SubSeq(active, 1, i - 1) \in Seq(Threads)
      BY <3>1, SubSeqProperties
    <3>3. SubSeq(active, i + 1, Len(active)) \in Seq(Threads)
      BY <3>1, SubSeqProperties
    <3> QED BY <2>1, <3>2, <3>3, ConcatProperties
  <2>3. Idle \in ThreadStates
    BY DEF Idle, ThreadStates
  <2> QED BY <2>2, <2>3 DEF RunnableFinished, PoolOK, bounds
<1>2. handler = NoHandler /\ UNCHANGED handler
  BY DEF RunnableFinished, MainIdle
<1>3. CASE c \in downloading
  <2>1. DownloadingEnded(c, peers) /\ peers \in [Chunks -> SUBSET Peers]
    BY <1>3 DEF RunnableFinished, SourcesOK
  <2>2. downloading' = downloading \ {c}
    BY <2>1 DEF DownloadingEnded
  <2>3. c \in Holders /\ Holders' = Holders \ {c}
    BY <1>2, <1>3, <2>2, NullsAssumption DEF Holders, NoHandler, TransferOK
  <2>4. /\ SourcesOK' /\ TransferOK'
        /\ scan' \in ScanStates /\ scan'.chunk = NoChunk
    BY <2>1, <2>3, DownloadingEndedKeeps
  <2>5. ControlOK'
    BY <1>2, <2>4 DEF ControlOK, HandlerOrder, NoHandler
  <2> QED BY <1>1, <2>4, <2>5
<1>4. CASE c \notin downloading
  <2>1. UNCHANGED <<scan, transfer, sources>>
    BY <1>4 DEF RunnableFinished
  <2> QED BY <1>1, <1>2, <2>1, SourcesUnchanged, TransferUnchanged, ControlUnchanged
<1> QED BY <1>3, <1>4

LEMMA UserCommandKeeps ==
  ASSUME IInv, UserCommand
  PROVE  IInv'
<1> USE DEF IInv
<1>1. ASSUME NEW f \in Files, NEW new \in Statuses, NEW removing \in Files \cup {0},
             MainIdle, StopFile(f, new, removing)
      PROVE  IInv'
  <2>1. SourcesOK'
    BY <1>1 DEF StopFile, SourcesOK, LinksCoverPeers
  <2>2. TransferOK'
    BY <1>1 DEF StopFile, MainIdle, NoHandler, transfer, TransferOK,
                OneTransferPerPeer, Counted, ThreadBudget, Holders
  <2>3. handler' \in HandlerStates /\ handler'.waiting = NoChunk
        /\ handler'.toStop \subseteq downloading
    BY <1>1 DEF StopFile, HandlerStates, TransferOK
  <2>4. ControlOK'
    BY <1>1, <2>3, NullsAssumption
    DEF StopFile, MainIdle, transfer, ControlOK, HandlerOrder, TransferOK
  <2>5. PoolOK'
    BY <1>1 DEF StopFile, PoolOK, pool
  <2> QED BY <2>1, <2>2, <2>4, <2>5
<1>2. ASSUME NEW f \in Files, Unpause(f) PROVE IInv'
  <2>1. SourcesOK'
    BY <1>2 DEF Unpause, SourcesOK, LinksCoverPeers, Statuses
  <2>2. TransferOK'
    BY <1>2, TransferUnchanged DEF Unpause
  <2>3. ControlOK'
    BY <1>2, ControlScans DEF Unpause, MainIdle, NoHandler
  <2>4. PoolOK'
    BY <1>2 DEF Unpause, PoolOK, pool, bounds
  <2> QED BY <2>1, <2>2, <2>3, <2>4
<1> QED BY <1>1, <1>2 DEF UserCommand, Pause, Remove, Statuses

LEMMA StopStepKeeps ==
  ASSUME IInv, StopStep
  PROVE  IInv'
<1> USE DEF IInv
<1>1. ASSUME NEW c \in Chunks, Stop(c) PROVE IInv'
  <2>1. /\ handler.waiting = NoChunk /\ c \in handler.toStop /\ c \in downloading
        /\ downloading' = downloading \ {c}
        /\ handler' = [handler EXCEPT !.toStop = @ \ {c}, !.waiting = c]
        /\ UNCHANGED <<avail, complete, scan, current, socket, occupied, nbRunning,
                       connected, sources, pool, bounds>>
    BY <1>1 DEF Stop, ControlOK, HandlerOrder
  <2>2. /\ handler' \in HandlerStates /\ handler'.waiting = c
        /\ handler'.toStop = handler.toStop \ {c}
    BY <2>1 DEF ControlOK, HandlerStates
  <2>3. Holders' = Holders
    BY <2>1, <2>2, NullsAssumption DEF Holders
  <2>4. TransferOK'
    BY <2>1, <2>3 DEF TransferOK, OneTransferPerPeer, Counted, ThreadBudget
  <2>5. ControlOK'
    BY <1>1, <2>1, <2>2 DEF Stop, ControlOK, HandlerOrder, ScanStates
  <2>6. PoolOK' /\ SourcesOK'
    BY <2>1, SourcesUnchanged DEF PoolOK, pool, bounds
  <2> QED BY <2>4, <2>5, <2>6
<1>2. ASSUME NEW c \in Chunks, StopReturns(c) PROVE IInv'
  <2>1. /\ handler.waiting = c /\ c # NoChunk /\ c \notin handler.toStop
        /\ handler' = [handler EXCEPT !.waiting = NoChunk]
        /\ DownloadingEnded(c, peers) /\ peers \in [Chunks -> SUBSET Peers]
        /\ UNCHANGED <<avail, complete, pool, bounds>>
    BY <1>2, NullsAssumption DEF StopReturns, ControlOK, HandlerOrder, SourcesOK
  <2>2. /\ handler' \in HandlerStates /\ handler'.waiting = NoChunk
        /\ handler'.toStop = handler.toStop
    BY <2>1 DEF ControlOK, HandlerStates
  <2>3. downloading' = downloading \ {c}
    BY <2>1 DEF DownloadingEnded
  <2>4. c \in Holders /\ Holders' = Holders \ {c}
    BY <2>1, <2>2, <2>3 DEF Holders
  <2>5. /\ SourcesOK' /\ TransferOK'
        /\ scan' \in ScanStates /\ scan'.chunk = NoChunk
    BY <2>1, <2>4, DownloadingEndedKeeps
  <2>6. ControlOK'
    BY <2>1, <2>2, <2>3, <2>5, NullsAssumption DEF ControlOK, HandlerOrder, HandlerStates
  <2>7. PoolOK'
    BY <2>1 DEF PoolOK, pool, bounds
  <2> QED BY <2>5, <2>6, <2>7
<1>3. ASSUME NEW f \in Files, DeleteFile(f) PROVE IInv'
  <2> DEFINE ps == [c \in Chunks |-> IF c \in ChunksOf(f) THEN {} ELSE peers[c]]
  <2>1. ps \in [Chunks -> SUBSET Peers]
    BY DEF SourcesOK
  <2>2. /\ handler = [NoHandler EXCEPT !.removing = f] /\ handler' = NoHandler
        /\ peers' = ps /\ links' = Relinked(ps)
        /\ UNCHANGED <<avail, complete, scan, transfer, status, failed, pool, bounds>>
    BY <1>3 DEF DeleteFile
  <2>3. SourcesOK'
    BY <2>1, <2>2, RelinkedCovers DEF SourcesOK, LinksCoverPeers
  <2>4. /\ handler.waiting = NoChunk /\ handler'.waiting = NoChunk
        /\ handler'.toStop = {} /\ handler' \in HandlerStates
    BY <2>2 DEF NoHandler, HandlerStates
  <2>5. TransferOK'
    <3>1. Holders' = Holders
      BY <2>2, <2>4 DEF transfer, Holders
    <3> QED BY <2>2, <3>1 DEF transfer, TransferOK, OneTransferPerPeer, Counted, ThreadBudget
  <2>6. ControlOK'
    BY <2>2, <2>4 DEF transfer, ControlOK, HandlerOrder
  <2>7. PoolOK'
    BY <2>2 DEF PoolOK, pool, bounds
  <2> QED BY <2>3, <2>5, <2>6, <2>7
<1> QED BY <1>1, <1>2, <1>3 DEF StopStep

-----------------------------------------------------------------------------
(* The scan of the queue and the worker threads.                           *)

LEMMA DroppedType ==
  ASSUME SourcesOK, NEW C
  PROVE  Dropped(C) \in [Chunks -> SUBSET Peers]
BY DEF SourcesOK, Dropped

LEMMA ScanKeeps ==
  ASSUME IInv, Scan
  PROVE  IInv'
<1> USE DEF IInv
<1>1. CASE ScanEnds
  <2>1. scan' \in ScanStates /\ ~scan'.on /\ scan'.chunk = NoChunk
    BY <1>1 DEF ScanEnds, NotScanning, ScanStates
  <2>2. ControlOK'
    BY <1>1, <2>1 DEF ScanEnds, transfer, ControlOK, HandlerOrder
  <2>3. SourcesOK' /\ TransferOK' /\ PoolOK'
    BY <1>1, SourcesUnchanged, TransferUnchanged DEF ScanEnds, PoolOK, pool, bounds
  <2> QED BY <2>2, <2>3
<1>2. ASSUME NEW f \in Files, ScanSkips(f) PROVE IInv'
  <2>1. /\ scan' \in ScanStates /\ scan'.chunk = scan.chunk /\ scan'.on = scan.on
    BY <1>2 DEF ScanSkips, ControlOK, ScanStates, Files
  <2>2. ControlOK'
    BY <1>2, <2>1 DEF ScanSkips, transfer, ControlOK, HandlerOrder
  <2>3. SourcesOK' /\ TransferOK' /\ PoolOK'
    BY <1>2, SourcesUnchanged, TransferUnchanged DEF ScanSkips, PoolOK, pool, bounds
  <2> QED BY <2>2, <2>3
<1>3. ASSUME NEW f \in Files, ScanFindsNothing(f) PROVE IInv'
  <2>1. /\ scan' \in ScanStates /\ scan'.chunk = scan.chunk /\ scan'.on = scan.on
    <3>1. f + 1 \in Nat /\ scan' = [scan EXCEPT !.file = 0, !.next = f + 1]
      BY <1>3 DEF ScanFindsNothing, Files
    <3> QED BY <3>1 DEF ControlOK, ScanStates
  <2>2. ControlOK'
    BY <1>3, <2>1 DEF ScanFindsNothing, transfer, ControlOK, HandlerOrder
  <2>3. SourcesOK'
    BY <1>3, DroppedType, PeersChangedKeeps, SourcesUnchanged DEF ScanFindsNothing
  <2>4. TransferOK' /\ PoolOK'
    BY <1>3, TransferUnchanged DEF ScanFindsNothing, PoolOK, pool, bounds
  <2> QED BY <2>2, <2>3, <2>4
<1>4. ASSUME NEW f \in Files, NEW c \in Chunks, ScanFinds(f, c) PROVE IInv'
  <2>1. /\ scan.on /\ nbRunning < NbDownloader /\ c \in ChunksOf(f) \ downloading
        /\ UNCHANGED <<avail, complete, handler, transfer, pool, bounds>>
    BY <1>4 DEF ScanFinds, ScansFile, Ready
  <2>2. /\ scan' \in ScanStates /\ scan'.chunk = c /\ scan'.on
    <3>1. f + 1 \in Nat
          /\ scan' = [scan EXCEPT !.file = f, !.next = f + 1, !.chunk = c]
      BY <1>4 DEF ScanFinds, Files
    <3> QED BY <2>1, <3>1 DEF ControlOK, ScanStates
  <2>3. ControlOK'
    BY <2>1, <2>2 DEF transfer, ControlOK, HandlerOrder
  <2>4. SourcesOK'
    BY <1>4, DroppedType, PeersChangedKeeps DEF ScanFinds
  <2>5. TransferOK' /\ PoolOK'
    BY <2>1, TransferUnchanged DEF PoolOK, pool, bounds
  <2> QED BY <2>3, <2>4, <2>5
<1>5. ASSUME NEW c \in Chunks, NEW p \in Peers, ScanStarts(c, p) PROVE IInv'
  BY <1>5, ScanStartsKeeps
<1> QED BY <1>1, <1>2, <1>3, <1>4, <1>5 DEF Scan

(* A worker may run between any two steps of the handler: it never touches *)
(* the transfer nor the handler, only the lists of peers.                  *)
LEMMA WorkerKeeps ==
  ASSUME IInv, NEW t \in Threads, Worker(t)
  PROVE  IInv'
<1> USE DEF IInv
<1>1. PICK c \in Chunks : RunEnds(t, c) \/ RunLooksForPeer(t, c)
  BY DEF Worker
<1>2. UNCHANGED <<transfer, handler, scan>>
  BY <1>1 DEF RunEnds, RunAborts, RunCompletes, RunFails, RunBlocksPeer, RunLooksForPeer
<1>3. TransferOK' /\ ControlOK'
  BY <1>2, TransferUnchanged, ControlUnchanged
<1>4. SourcesOK'
  <2>1. [peers EXCEPT ![c] = @ \cap avail] \in [Chunks -> SUBSET Peers]
    BY DEF SourcesOK
  <2>2. CASE RunLooksForPeer(t, c)
    BY <2>1, <2>2, PeersChangedKeeps DEF RunLooksForPeer
  <2>3. CASE RunAborts(t, c) \/ RunCompletes(t, c)
    BY <2>3, SourcesUnchanged DEF RunAborts, RunCompletes
  <2>4. CASE RunFails(t, c) \/ RunBlocksPeer(t, c)
    BY <2>4 DEF RunFails, RunBlocksPeer, SourcesOK, LinksCoverPeers
  <2> QED BY <1>1, <2>2, <2>3, <2>4 DEF RunEnds
<1>5. PoolOK'
  <2>1. [thread EXCEPT ![t].st = "ended"] \in [Threads -> ThreadStates]
    BY DEF PoolOK, ThreadStates
  <2> QED BY <1>1, <2>1 DEF RunEnds, RunAborts, RunCompletes, RunFails, RunBlocksPeer,
                            RunLooksForPeer, ThreadEnds, PoolOK, bounds
<1> QED BY <1>3, <1>4, <1>5

-----------------------------------------------------------------------------
(* The chunk that a scan chose: a second induction, on top of IInv.        *)

(* updateStatus() only takes the peers that are not available.             *)
LEMMA SettleLeavesAvailable ==
  ASSUME NEW F, NEW av, NEW dl, NEW ps \in [Chunks -> SUBSET Peers],
         SettleLists(F, av, dl, ps, {}), NEW c \in Chunks
  PROVE  ps[c] \cap av \subseteq peers'[c]
BY DEF SettleLists, Purged

(* Only scanTheQueue chooses a chunk: the other handlers of the main       *)
(* thread run when none is chosen, and at most start a scan.               *)
LEMMA HandlersChooseNothing ==
  ASSUME IInv,
         \/ PeerEvent \/ (\E c \in Chunks : Answer(c))
         \/ (\E t \in Threads : RunnableFinished(t)) \/ UserCommand \/ StopStep
  PROVE  scan'.chunk = NoChunk
<1>1. ASSUME ~scan.on, UNCHANGED scan \/ StartScan PROVE scan'.chunk = NoChunk
  BY <1>1, StartScanKeeps DEF IInv, ControlOK, HandlerOrder
<1>2. MainIdle => ~scan.on
  BY DEF MainIdle
<1>3. CASE PeerEvent
  BY <1>1, <1>2, <1>3
  DEF PeerEvent, PeerDies, PeerBecomesAvailable, AddPeer, RmPeer, GetPeers,
      RestartErroneous, NewPeer
<1>4. CASE \E c \in Chunks : Answer(c)
  BY <1>1, <1>2, <1>4 DEF Answer, ResultOk, ResultError, ResultTimeout, DownloadingEnded
<1>5. CASE \E t \in Threads : RunnableFinished(t)
  BY <1>1, <1>2, <1>5 DEF RunnableFinished, DownloadingEnded
<1>6. CASE UserCommand
  BY <1>1, <1>2, <1>6 DEF UserCommand, Pause, Unpause, Remove, StopFile
<1>7. CASE StopStep
  BY <1>1, <1>7 DEF StopStep, Stop, StopReturns, DeleteFile, DownloadingEnded
<1> QED BY <1>3, <1>4, <1>5, <1>6, <1>7

(* scanTheQueue chooses a chunk in one of its steps only.                  *)
LEMMA ScanChooses ==
  ASSUME IInv, Scan
  PROVE  \/ scan'.chunk = NoChunk
         \/ \E f \in Files, c \in Chunks : ScanFinds(f, c) /\ scan'.chunk = c
<1>1. scan \in ScanStates
  BY DEF IInv, ControlOK
<1>2. CASE ScanEnds
  BY <1>2 DEF ScanEnds, NotScanning
<1>3. ASSUME NEW f \in Files, ScanSkips(f) PROVE scan'.chunk = NoChunk
  BY <1>1, <1>3 DEF ScanSkips, ScansFile, ScanStates, Files
<1>4. ASSUME NEW f \in Files, ScanFindsNothing(f) PROVE scan'.chunk = NoChunk
  <2>1. /\ f + 1 \in Nat /\ scan.chunk = NoChunk
        /\ scan' = [scan EXCEPT !.file = 0, !.next = f + 1]
    BY <1>4 DEF ScanFindsNothing, ScansFile, Files
  <2> QED BY <1>1, <2>1 DEF ScanStates
<1>5. ASSUME NEW f \in Files, NEW c \in Chunks, ScanFinds(f, c) PROVE scan'.chunk = c
  BY <1>1, <1>5 DEF ScanFinds, ScanStates, Files
<1>6. ASSUME NEW c \in Chunks, NEW p \in Peers, ScanStarts(c, p) PROVE scan'.chunk = NoChunk
  BY <1>1, <1>6 DEF ScanStarts, ScanStates
<1> QED BY <1>2, <1>3, <1>4, <1>5, <1>6 DEF Scan

(* The chosen chunk has a free peer when it is chosen.                     *)
LEMMA ScanChoosesFree ==
  ASSUME IInv, Scan
  PROVE  StartFindsPeer'
<1>1. CASE scan'.chunk = NoChunk
  BY <1>1 DEF StartFindsPeer
<1>2. ASSUME NEW f \in Files, NEW c \in Chunks, ScanFinds(f, c), scan'.chunk = c
      PROVE  StartFindsPeer'
  <2>1. c \in Ready(f) /\ UNCHANGED <<avail, occupied>>
    BY <1>2 DEF ScanFinds, transfer
  <2>2. (peers[c] \cap avail) \ occupied # {}
    BY <2>1 DEF Ready, FreePeersOf
  <2>3. PICK C : PeersChanged(avail, Dropped(C))
    BY <1>2 DEF ScanFinds
  <2>4. Dropped(C) \in [Chunks -> SUBSET Peers]
        /\ peers[c] \cap avail \subseteq Dropped(C)[c] \cap avail
    BY DroppedType DEF IInv, Dropped
  <2>5. Dropped(C)[c] \cap avail \subseteq peers'[c]
    BY <2>3, <2>4, SettleLeavesAvailable DEF PeersChanged, Settle
  <2> QED BY <1>2, <2>1, <2>2, <2>4, <2>5 DEF StartFindsPeer, FreePeersOf
<1> QED BY <1>1, <1>2, ScanChooses

(* A worker takes no free peer from it: the peer it blocks is occupied by  *)
(* its own transfer.                                                       *)
LEMMA WorkerLeavesFree ==
  ASSUME IInv, StartFindsPeer, NEW t \in Threads, Worker(t)
  PROVE  StartFindsPeer'
<1>1. PICK d \in Chunks : RunEnds(t, d) \/ RunLooksForPeer(t, d)
  BY DEF Worker
<1>2. UNCHANGED <<occupied, scan>>
  BY <1>1 DEF RunEnds, RunAborts, RunCompletes, RunFails, RunBlocksPeer, RunLooksForPeer,
              transfer
<1> SUFFICES ASSUME scan.chunk # NoChunk
             PROVE  (peers'[scan.chunk] \cap avail') \ occupied # {}
  BY <1>2 DEF StartFindsPeer, FreePeersOf
<1>3. PICK c \in Chunks : c = scan.chunk
  BY DEF IInv, ControlOK, ScanStates
<1>4. (peers[c] \cap avail) \ occupied # {}
  BY <1>3 DEF StartFindsPeer, FreePeersOf
<1>5. CASE RunAborts(t, d) \/ RunCompletes(t, d) \/ RunFails(t, d)
  BY <1>3, <1>4, <1>5 DEF RunAborts, RunCompletes, RunFails, sources
<1>6. CASE RunBlocksPeer(t, d)
  <2>1. avail' = avail \ {current[d]} /\ current[d] \in Peers /\ peers' = peers
    BY <1>6 DEF RunBlocksPeer
  <2>2. current[d] \in occupied
    BY <2>1, NullsAssumption DEF IInv, TransferOK, OneTransferPerPeer
  <2> QED BY <1>3, <1>4, <2>1, <2>2
<1>7. CASE RunLooksForPeer(t, d)
  <2> DEFINE ps == [peers EXCEPT ![d] = @ \cap avail]
  <2>1. ps \in [Chunks -> SUBSET Peers] /\ peers[c] \cap avail \subseteq ps[c] \cap avail
    BY DEF IInv, SourcesOK
  <2>2. SettleLists(FilesChanged(ps), avail, downloading, ps, {}) /\ UNCHANGED avail
    BY <1>7 DEF RunLooksForPeer, PeersChanged, Settle
  <2> HIDE DEF ps
  <2>3. ps[c] \cap avail \subseteq peers'[c]
    BY <2>1, <2>2, SettleLeavesAvailable
  <2> QED BY <1>3, <1>4, <2>1, <2>2, <2>3
<1> QED BY <1>1, <1>5, <1>6, <1>7 DEF RunEnds

LEMMA StartFindsPeerStep ==
  IInv /\ StartFindsPeer /\ [Next]_vars => StartFindsPeer'
<1> SUFFICES ASSUME IInv, StartFindsPeer, [Next]_vars PROVE StartFindsPeer'
  OBVIOUS
<1>1. CASE \/ PeerEvent \/ (\E c \in Chunks : Answer(c))
           \/ (\E t \in Threads : RunnableFinished(t)) \/ UserCommand \/ StopStep
  BY <1>1, HandlersChooseNothing DEF StartFindsPeer
<1>2. CASE Scan
  BY <1>2, ScanChoosesFree
<1>3. CASE \E t \in Threads : Worker(t)
  BY <1>3, WorkerLeavesFree
<1>4. CASE UNCHANGED vars
  BY <1>4 DEF vars, transfer, sources, StartFindsPeer, FreePeersOf
<1> QED BY <1>1, <1>2, <1>3, <1>4 DEF Next

-----------------------------------------------------------------------------
(* The theorems.                                                           *)

LEMMA InitInv ==
  Init => IInv
<1> SUFFICES ASSUME Init PROVE IInv
  OBVIOUS
<1>1. Holders = {} /\ Cardinality({}) = 0
  BY FS_EmptySet DEF Init, Holders, NoHandler
<1>2. SourcesOK
  <2>1. \A p \in Peers : {c \in Chunks : p \in peers[c]} = {}
    BY DEF Init
  <2>2. \A p \in Peers : links[p] = 0 /\ Cardinality({c \in Chunks : p \in peers[c]}) = 0
    BY <1>1, <2>1, Init DEF Init
  <2>3. LinksCoverPeers
    BY <2>2 DEF LinksCoverPeers
  <2> QED BY <2>3 DEF Init, SourcesOK, Statuses
<1>3. TransferOK
  BY <1>1, SizesAssumption DEF Init, TransferOK, OneTransferPerPeer, Counted, ThreadBudget
<1>4. ControlOK
  BY NullsAssumption DEF Init, ControlOK, HandlerOrder, NotScanning, NoHandler,
                         ScanStates, HandlerStates
<1>5. PoolOK
  BY DEF Init, PoolOK, Idle, ThreadStates
<1> QED BY <1>2, <1>3, <1>4, <1>5 DEF IInv

LEMMA StepInv ==
  IInv /\ [Next]_vars => IInv'
<1> SUFFICES ASSUME IInv, [Next]_vars PROVE IInv'
  OBVIOUS
<1>1. CASE UNCHANGED vars
  <2>1. SourcesOK' /\ TransferOK' /\ ControlOK' /\ PoolOK'
    BY <1>1, SourcesUnchanged, TransferUnchanged, ControlUnchanged
    DEF vars, pool, bounds, IInv, PoolOK
  <2> QED BY <2>1 DEF IInv
<1> QED BY <1>1, PeerEventKeeps, AnswerKeeps, RunnableFinishedKeeps, UserCommandKeeps,
           StopStepKeeps, ScanKeeps, WorkerKeeps DEF Next

(* The invariant the others follow from.                                   *)
LEMMA Invariance ==
  Spec => []IInv
BY InitInv, StepInv, PTL DEF Spec

(* The variables keep their types: the counters of LinkedPeers, unsigned   *)
(* in the code, never go below zero.                                       *)
THEOREM TypeCorrect ==
  Spec => []TypeOK
BY Invariance, InvariantParts, PTL

(* Two transfers never use the same peer and a peer is occupied exactly    *)
(* while a transfer uses it, for any number of chunks, peers and threads,  *)
(* and whatever the order of the answers, ends, stops and scans.           *)
THEOREM PeersNotShared ==
  Spec => []OneTransferPerPeer
BY Invariance, InvariantParts, PTL

(* If disconnect() removed the connection, the counter scanTheQueue        *)
(* compares to "number_of_downloader" would count the transfers and stay   *)
(* within that limit.                                                      *)
THEOREM BudgetKept ==
  ASSUME Disconnects
  PROVE  Spec => []ThreadBudget
BY Invariance, InvariantParts, PTL

(* stop() and startDownloading() are called in the states they expect.     *)
THEOREM HandlersOrdered ==
  Spec => []HandlerOrder
BY Invariance, InvariantParts, PTL

(* startDownloading always finds a free peer for the chunk chosen by       *)
(* scanTheQueue, although workers run between the choice and the start.    *)
THEOREM StartsFindPeer ==
  Spec => []StartFindsPeer
<1>1. Init => StartFindsPeer
  BY DEF Init, NotScanning, StartFindsPeer
<1> QED BY <1>1, Invariance, StartFindsPeerStep, PTL DEF Spec

(* A peer that a chunk lists is a key of LinkedPeers, with at least that   *)
(* count.                                                                  *)
THEOREM LinksSuffice ==
  Spec => []LinksCoverPeers
BY Invariance, InvariantParts, PTL

-----------------------------------------------------------------------------
(* What is left behind by a scan: a third induction, on top of IInv.       *)

(* As long as no transfer failed, no file is erroneous.                    *)
NoFailure ==
  failures = 0 => failed = {} /\ \A f \in Files : status[f] # "ERRONEOUS"

(* The local variables of scanTheQueue: its iterator, the file of the      *)
(* chunk it chose, and the peers left, with every free peer among them.    *)
ScanAt ==
  /\ scan.file # 0 => scan.next = scan.file + 1
  /\ scan.chunk # NoChunk => FileOf[scan.chunk] = scan.file
  /\ scan.on => \A c \in Chunks : FreePeersOf(c) \subseteq scan.left

(* A file with a chunk that could be downloaded is at or after the place   *)
(* the scan has reached, unless no downloader is left or a worker is       *)
(* waited for, whose end scans the queue.                                  *)
ScanKeepsUp ==
  handler.waiting = NoChunk /\ failures = 0 /\ nbRunning < NbDownloader =>
    \A f \in Files : Ready(f) # {} => scan.on /\ (f >= scan.next \/ f = scan.file)

NothingBehind == NoFailure /\ ScanAt /\ ScanKeepsUp

LEMMA NothingBehindSuffices ==
  IInv /\ NothingBehind => NoChunkForgotten
BY DEF NothingBehind, ScanKeepsUp, NoChunkForgotten, MainIdle, NoHandler

(* Without a failure updateStatus() makes no file erroneous and leaves a   *)
(* file that is complete, paused or deleted alone.                         *)
LEMMA SettleNoFailure ==
  ASSUME SourcesOK, NoFailure, NEW F, NEW av, NEW dl, NEW ps, NEW forget,
         Settle(F, av, dl, ps, forget), UNCHANGED failures
  PROVE  /\ NoFailure'
         /\ \A f \in Files : Frozen(f) => Frozen(f)'
<1>1. PICK s \in [F -> Statuses] :
        /\ \A f \in F : s[f] \in NewStatuses(f, dl)
        /\ status' = [f \in Files |-> IF f \in F THEN s[f] ELSE status[f]]
  BY DEF Settle
<1>2. failed' \subseteq failed
  BY DEF Settle, SettleLists
<1>3. ASSUME NEW f \in Files, Frozen(f) PROVE Frozen(f)'
  BY <1>1, <1>3 DEF Frozen, NewStatuses
<1>4. ASSUME failures = 0, NEW f \in Files PROVE status'[f] # "ERRONEOUS"
  <2>1. failed = {} /\ status[f] # "ERRONEOUS"
    BY <1>4 DEF NoFailure
  <2>2. CASE f \in F
    <3>1. s[f] \in NewStatuses(f, dl) /\ ChunksOf(f) \cap failed = {}
      BY <1>1, <2>1, <2>2
    <3> QED BY <1>1, <2>1, <2>2, <3>1 DEF NewStatuses
  <2>3. CASE f \notin F
    BY <1>1, <2>1, <2>3
  <2> QED BY <2>2, <2>3
<1> QED BY <1>2, <1>3, <1>4 DEF NoFailure

(* A step that makes no chunk ready.                                       *)
NoneReadier ==
  /\ UNCHANGED <<downloading, occupied>>
  /\ complete \subseteq complete'
  /\ \A c \in Chunks : FreePeersOf(c)' \subseteq FreePeersOf(c)
  /\ \A f \in Files : Frozen(f) => Frozen(f)'

LEMMA ReadyShrinks ==
  ASSUME NoneReadier
  PROVE  \A f \in Files : Ready(f)' \subseteq Ready(f)
BY DEF NoneReadier, Ready, ChunksOf

LEMMA NoneReadierKeeps ==
  ASSUME IInv, NothingBehind, NoneReadier, NoFailure',
         failures' = failures \/ failures' # 0,
         UNCHANGED <<scan, nbRunning>>, handler.waiting = NoChunk
  PROVE  NothingBehind'
<1>1. ScanAt'
  BY DEF NothingBehind, ScanAt, NoneReadier
<1>2. ScanKeepsUp'
  BY ReadyShrinks DEF NothingBehind, ScanKeepsUp
<1> QED BY <1>1, <1>2 DEF NothingBehind

(* A scan that starts: every peer of a list that is not occupied has a     *)
(* link, and all the files are before it.                                  *)
LEMMA StartKeeps ==
  ASSUME SourcesOK', NoFailure', StartScan, occupied' \in SUBSET Peers
  PROVE  NothingBehind'
<1>1. /\ scan'.on /\ scan'.file = 0 /\ scan'.next = 1 /\ scan'.chunk = NoChunk
      /\ scan'.left = {p \in Peers : links'[p] # 0} \ occupied'
  BY DEF StartScan, NotScanning
<1>2. ASSUME NEW c \in Chunks, NEW p \in FreePeersOf(c)' PROVE p \in scan'.left
  <2>1. p \in Peers /\ p \in peers'[c] /\ p \notin occupied'
    BY <1>2 DEF FreePeersOf, SourcesOK
  <2> DEFINE Listing == {d \in Chunks : p \in peers'[d]}
  <2>2. IsFiniteSet(Listing) /\ Listing # {}
    BY <2>1, ChunksAssumption, FS_Subset
  <2>3. Cardinality(Listing) \in Nat /\ Cardinality(Listing) # 0
    BY <2>2, FS_CardinalityType, FS_EmptySet
  <2>4. links'[p] \in Nat /\ links'[p] >= Cardinality(Listing)
    BY <2>1 DEF SourcesOK, LinksCoverPeers
  <2> HIDE DEF Listing
  <2>5. links'[p] # 0
    BY <2>3, <2>4
  <2> QED BY <1>1, <2>1, <2>5
<1>3. ScanAt'
  BY <1>1, <1>2 DEF ScanAt
<1>4. ScanKeepsUp'
  BY <1>1 DEF ScanKeepsUp, Files
<1> QED BY <1>3, <1>4 DEF NothingBehind

LEMMA EndNothingBehind ==
  ASSUME SourcesOK, TransferOK, NoFailure, SourcesOK', NEW c \in Chunks, NEW ps,
         DownloadingEnded(c, ps), UNCHANGED failures
  PROVE  NothingBehind'
<1>1. NoFailure'
  BY SettleNoFailure DEF DownloadingEnded
<1>2. StartScan /\ occupied' \in SUBSET Peers
  BY DEF DownloadingEnded, TransferOK
<1> QED BY <1>1, <1>2, StartKeeps

(* The lists of peers change and no free peer appears.                     *)
LEMMA ChangeNothingBehind ==
  ASSUME IInv, NothingBehind, NEW F, NEW dl, NEW ps \in [Chunks -> SUBSET Peers],
         Settle(F, avail', dl, ps, {}),
         UNCHANGED <<scan, handler, transfer, complete, failures>>,
         handler.waiting = NoChunk,
         \A c \in Chunks : (ps[c] \cap avail') \ occupied \subseteq FreePeersOf(c)
  PROVE  NothingBehind'
<1>1. /\ NoFailure' /\ \A f \in Files : Frozen(f) => Frozen(f)'
  BY SettleNoFailure DEF IInv, NothingBehind
<1>2. \A c \in Chunks : peers'[c] \subseteq ps[c]
  BY DEF Settle, SettleLists, Purged
<1>3. NoneReadier
  BY <1>1, <1>2 DEF NoneReadier, FreePeersOf, transfer
<1> QED BY <1>1, <1>3, NoneReadierKeeps DEF transfer

(* A peer that enters the lists scans the queue or is occupied.            *)
LEMMA NewPeerNothingBehind ==
  ASSUME IInv, NothingBehind, SourcesOK', NEW p, NEW F, NEW ps \in [Chunks -> SUBSET Peers],
         Settle(F, avail', downloading, ps, {}), NewPeer(p), MainIdle,
         UNCHANGED <<handler, transfer, complete, failures>>,
         avail' \subseteq avail \cup {p},
         \A c \in Chunks : ps[c] \subseteq peers[c] \cup {p}
  PROVE  NothingBehind'
<1>1. CASE p \in occupied
  <2>1. \A c \in Chunks : (ps[c] \cap avail') \ occupied \subseteq FreePeersOf(c)
    BY <1>1 DEF FreePeersOf
  <2>2. UNCHANGED scan /\ handler.waiting = NoChunk
    BY <1>1 DEF NewPeer, MainIdle, NoHandler
  <2> QED BY <2>1, <2>2, ChangeNothingBehind
<1>2. CASE p \notin occupied
  <2>1. NoFailure' /\ StartScan /\ occupied' \in SUBSET Peers
    BY <1>2, SettleNoFailure DEF IInv, TransferOK, transfer, NothingBehind, NewPeer
  <2> QED BY <2>1, StartKeeps
<1> QED BY <1>1, <1>2

LEMMA PeerEventNothingBehind ==
  ASSUME IInv, NothingBehind, PeerEvent
  PROVE  NothingBehind'
<1>0. IInv' /\ SourcesOK'
  BY PeerEventKeeps DEF IInv
<1>i. MainIdle => handler.waiting = NoChunk
  BY DEF MainIdle, NoHandler
<1>1. ASSUME NEW p \in Peers, PeerDies(p) PROVE NothingBehind'
  <2>1. NoFailure' /\ NoneReadier
    BY <1>1 DEF PeerDies, NothingBehind, NoFailure, NoneReadier, FreePeersOf, Frozen,
                transfer, sources, bounds
  <2> QED BY <1>1, <1>i, <2>1, NoneReadierKeeps DEF PeerDies, transfer, bounds
<1>2. ASSUME NEW p \in Peers, PeerBecomesAvailable(p) PROVE NothingBehind'
  <2> DEFINE ps == [c \in Chunks |->
                      IF SourceOf[FileOf[c]] = p /\ status[FileOf[c]] # "DELETED"
                      THEN peers[c] \cup {p} ELSE peers[c]]
  <2>1. ps \in [Chunks -> SUBSET Peers] /\ \A c \in Chunks : ps[c] \subseteq peers[c] \cup {p}
    BY DEF IInv, SourcesOK
  <2>2. /\ MainIdle /\ avail' = avail \cup {p} /\ NewPeer(p)
        /\ UNCHANGED <<handler, transfer, complete, failures>>
        /\ PeersChanged(avail', ps)
    BY <1>2 DEF PeerBecomesAvailable, bounds
  <2> HIDE DEF ps
  <2> QED BY <1>0, <2>1, <2>2, NewPeerNothingBehind DEF PeersChanged
<1>3. ASSUME NEW c \in Chunks, NEW p \in Peers, AddPeer(c, p) PROVE NothingBehind'
  <2> DEFINE ps == [peers EXCEPT ![c] = @ \cup {p}]
  <2>1. ps \in [Chunks -> SUBSET Peers] /\ \A d \in Chunks : ps[d] \subseteq peers[d] \cup {p}
    BY DEF IInv, SourcesOK
  <2>2. /\ MainIdle /\ avail' = avail /\ NewPeer(p)
        /\ UNCHANGED <<handler, transfer, complete, failures>>
        /\ PeersChanged(avail', ps)
    BY <1>3 DEF AddPeer, bounds
  <2> HIDE DEF ps
  <2> QED BY <1>0, <2>1, <2>2, NewPeerNothingBehind DEF PeersChanged
<1>4. ASSUME NEW c \in Chunks, NEW p \in Peers, RmPeer(c, p) PROVE NothingBehind'
  <2> DEFINE ps == [peers EXCEPT ![c] = @ \ {p}]
  <2>1. ps \in [Chunks -> SUBSET Peers] /\ \A d \in Chunks : ps[d] \subseteq peers[d]
    BY DEF IInv, SourcesOK
  <2>2. /\ MainIdle /\ avail' = avail
        /\ UNCHANGED <<scan, handler, transfer, complete, failures>>
        /\ PeersChanged(avail', ps)
    BY <1>4 DEF RmPeer, bounds
  <2> HIDE DEF ps
  <2> QED BY <1>i, <2>1, <2>2, ChangeNothingBehind DEF PeersChanged, FreePeersOf
<1>5. ASSUME NEW f \in Files, GetPeers(f) PROVE NothingBehind'
  <2> DEFINE ps == [c \in Chunks |-> IF c \in ChunksOf(f) THEN peers[c] \cap avail
                                                          ELSE peers[c]]
  <2>1. ps \in [Chunks -> SUBSET Peers] /\ \A d \in Chunks : ps[d] \subseteq peers[d]
    BY DEF IInv, SourcesOK
  <2>2. /\ MainIdle /\ avail' = avail
        /\ UNCHANGED <<scan, handler, transfer, complete, failures>>
        /\ PeersChanged(avail', ps)
    BY <1>5 DEF GetPeers, bounds
  <2> HIDE DEF ps
  <2> QED BY <1>i, <2>1, <2>2, ChangeNothingBehind DEF PeersChanged, FreePeersOf
<1>6. ASSUME NEW f \in Files, RestartErroneous(f) PROVE NothingBehind'
  <2>0. PICK q \in Peers : q = SourceOf[f]
    BY PeersAssumption
  <2> DEFINE ps == [c \in Chunks |-> IF c \in ChunksOf(f) /\ q \in avail
                                     THEN peers[c] \cup {q} ELSE peers[c]]
  <2>1. ps \in [Chunks -> SUBSET Peers] /\ \A c \in Chunks : ps[c] \subseteq peers[c] \cup {q}
    BY DEF IInv, SourcesOK
  <2>2. /\ MainIdle /\ avail' = avail
        /\ UNCHANGED <<handler, transfer, complete, failures>>
        /\ Settle({f}, avail', downloading, ps, {})
        /\ IF q \in avail THEN NewPeer(q) ELSE UNCHANGED scan
    BY <1>6, <2>0 DEF RestartErroneous, bounds
  <2>3. CASE q \in avail
    <3> HIDE DEF ps
    <3> QED BY <1>0, <2>1, <2>2, <2>3, NewPeerNothingBehind
  <2>4. CASE q \notin avail
    <3>1. \A c \in Chunks : (ps[c] \cap avail') \ occupied \subseteq FreePeersOf(c)
      BY <2>2, <2>4 DEF FreePeersOf
    <3> HIDE DEF ps
    <3> QED BY <1>i, <2>1, <2>2, <2>4, <3>1, ChangeNothingBehind
  <2> QED BY <2>3, <2>4
<1> QED BY <1>1, <1>2, <1>3, <1>4, <1>5, <1>6 DEF PeerEvent

LEMMA AnswerNothingBehind ==
  ASSUME IInv, NothingBehind, NEW c \in Chunks, Answer(c)
  PROVE  NothingBehind'
<1>0. IInv' /\ SourcesOK'
  BY AnswerKeeps DEF IInv
<1>1. CASE ResultOk(c)
  <2>1. NoFailure' /\ NoneReadier
    BY <1>1 DEF ResultOk, NothingBehind, NoFailure, NoneReadier, FreePeersOf, Frozen, bounds
  <2> QED BY <1>1, <2>1, NoneReadierKeeps DEF ResultOk, MainIdle, NoHandler, bounds
<1>2. CASE ResultError(c) \/ ResultTimeout(c)
  BY <1>0, <1>2, EndNothingBehind
  DEF ResultError, ResultTimeout, IInv, NothingBehind, bounds
<1> QED BY <1>1, <1>2 DEF Answer

LEMMA RunnableFinishedNothingBehind ==
  ASSUME IInv, NothingBehind, NEW t \in Threads, RunnableFinished(t)
  PROVE  NothingBehind'
<1> DEFINE c == thread[t].run
<1>0. IInv' /\ SourcesOK'
  BY RunnableFinishedKeeps DEF IInv
<1>1. CASE c \in downloading
  <2>1. DownloadingEnded(c, peers) /\ UNCHANGED failures /\ c \in Chunks
    BY <1>1 DEF RunnableFinished, bounds, IInv, TransferOK
  <2> QED BY <1>0, <2>1, EndNothingBehind DEF IInv, NothingBehind
<1>2. CASE c \notin downloading
  <2>1. /\ UNCHANGED <<scan, transfer, sources, avail, complete, failures>>
        /\ handler.waiting = NoChunk
    BY <1>2 DEF RunnableFinished, MainIdle, NoHandler, bounds
  <2>2. NoFailure' /\ NoneReadier
    BY <2>1 DEF NothingBehind, NoFailure, NoneReadier, FreePeersOf, Frozen, transfer, sources
  <2> QED BY <2>1, <2>2, NoneReadierKeeps DEF transfer
<1> QED BY <1>1, <1>2

LEMMA UserCommandNothingBehind ==
  ASSUME IInv, NothingBehind, UserCommand
  PROVE  NothingBehind'
<1>0. IInv' /\ SourcesOK'
  BY UserCommandKeeps DEF IInv
<1>1. ASSUME NEW f \in Files, NEW new \in {"PAUSED", "DELETED"}, NEW removing,
             MainIdle, StopFile(f, new, removing)
      PROVE  NothingBehind'
  <2>1. /\ handler.waiting = NoChunk
        /\ UNCHANGED <<avail, complete, scan, transfer, peers, failed, failures>>
        /\ status' = [status EXCEPT ![f] = new]
    BY <1>1 DEF StopFile, MainIdle, NoHandler
  <2>2. NoFailure' /\ NoneReadier
    BY <2>1 DEF NothingBehind, NoFailure, NoneReadier, FreePeersOf, Frozen, transfer,
                IInv, SourcesOK
  <2> QED BY <2>1, <2>2, NoneReadierKeeps DEF transfer
<1>2. ASSUME NEW f \in Files, Unpause(f) PROVE NothingBehind'
  <2>1. NoFailure' /\ StartScan /\ occupied' \in SUBSET Peers
    BY <1>2 DEF Unpause, NothingBehind, NoFailure, bounds, transfer, IInv, TransferOK, SourcesOK
  <2> QED BY <1>0, <2>1, StartKeeps
<1> QED BY <1>1, <1>2 DEF UserCommand, Pause, Remove

LEMMA StopStepNothingBehind ==
  ASSUME IInv, NothingBehind, StopStep
  PROVE  NothingBehind'
<1>0. IInv' /\ SourcesOK'
  BY StopStepKeeps DEF IInv
<1>1. ASSUME NEW c \in Chunks, Stop(c) PROVE NothingBehind'
  <2>1. handler'.waiting # NoChunk
    BY <1>1, NullsAssumption DEF Stop, IInv, ControlOK, HandlerStates
  <2>2. /\ UNCHANGED <<avail, complete, scan, peers, status, failed, occupied, failures>>
    BY <1>1 DEF Stop, sources, bounds
  <2>3. NoFailure' /\ ScanAt'
    BY <2>2 DEF NothingBehind, NoFailure, ScanAt, FreePeersOf
  <2> QED BY <2>1, <2>3 DEF NothingBehind, ScanKeepsUp
<1>2. ASSUME NEW c \in Chunks, StopReturns(c) PROVE NothingBehind'
  BY <1>0, <1>2, EndNothingBehind DEF StopReturns, IInv, NothingBehind, bounds
<1>3. ASSUME NEW f \in Files, DeleteFile(f) PROVE NothingBehind'
  <2>1. /\ UNCHANGED <<avail, complete, scan, transfer, status, failed, failures>>
        /\ \A c \in Chunks : peers'[c] \subseteq peers[c]
        /\ handler.waiting = NoChunk
    BY <1>3 DEF DeleteFile, NoHandler, bounds
  <2>2. NoFailure' /\ NoneReadier
    BY <2>1 DEF NothingBehind, NoFailure, NoneReadier, FreePeersOf, Frozen, transfer
  <2> QED BY <2>1, <2>2, NoneReadierKeeps DEF transfer
<1> QED BY <1>1, <1>2, <1>3 DEF StopStep

LEMMA WorkerNothingBehind ==
  ASSUME IInv, NothingBehind, NEW t \in Threads, Worker(t)
  PROVE  NothingBehind'
<1>1. PICK c \in Chunks : RunEnds(t, c) \/ RunLooksForPeer(t, c)
  BY DEF Worker
<1>2. CASE RunAborts(t, c) \/ RunCompletes(t, c)
  <2>1. /\ UNCHANGED <<avail, scan, handler, transfer, sources, failures>>
        /\ complete \subseteq complete'
    BY <1>2 DEF RunAborts, RunCompletes, bounds
  <2>2. NoFailure' /\ NoneReadier
    BY <2>1 DEF NothingBehind, NoFailure, NoneReadier, FreePeersOf, Frozen, transfer, sources
  <2>3. ScanAt' /\ ScanKeepsUp'
    BY <2>1, <2>2, ReadyShrinks
    DEF NothingBehind, ScanAt, ScanKeepsUp, NoneReadier, transfer
  <2> QED BY <2>2, <2>3 DEF NothingBehind
<1>3. CASE RunFails(t, c) \/ RunBlocksPeer(t, c)
  <2>1. /\ UNCHANGED <<scan, occupied, peers>> /\ avail' \subseteq avail
        /\ failures' = failures + 1
    BY <1>3 DEF RunFails, RunBlocksPeer, transfer
  <2>2. failures' # 0
    BY <2>1 DEF IInv, PoolOK
  <2>3. ScanAt'
    BY <2>1 DEF NothingBehind, ScanAt, FreePeersOf
  <2> QED BY <2>2, <2>3 DEF NothingBehind, NoFailure, ScanKeepsUp
<1>4. CASE RunLooksForPeer(t, c)
  <2> DEFINE ps == [peers EXCEPT ![c] = @ \cap avail]
  <2>1. ps \in [Chunks -> SUBSET Peers] /\ \A d \in Chunks : ps[d] \subseteq peers[d]
    BY DEF IInv, SourcesOK
  <2>2. /\ avail' = avail
        /\ UNCHANGED <<scan, handler, transfer, complete, failures>>
        /\ Settle(FilesChanged(ps), avail, downloading, ps, {})
    BY <1>4 DEF RunLooksForPeer, PeersChanged, bounds
  <2> HIDE DEF ps
  <2>3. NoFailure' /\ \A f \in Files : Frozen(f) => Frozen(f)'
    BY <2>2, SettleNoFailure DEF IInv, NothingBehind
  <2>4. \A d \in Chunks : peers'[d] \subseteq ps[d]
    BY <2>2 DEF Settle, SettleLists, Purged
  <2>5. NoneReadier
    BY <2>1, <2>2, <2>3, <2>4 DEF NoneReadier, FreePeersOf, transfer
  <2>6. ScanAt' /\ ScanKeepsUp'
    BY <2>2, <2>5, ReadyShrinks
    DEF NothingBehind, ScanAt, ScanKeepsUp, NoneReadier, transfer
  <2> QED BY <2>3, <2>6 DEF NothingBehind
<1> QED BY <1>1, <1>2, <1>3, <1>4 DEF RunEnds

-----------------------------------------------------------------------------
(* The loop of the scan.                                                   *)

(* A file that has a chunk ready is given by the iterator.                 *)
LEMMA ReadyDownloadable ==
  ASSUME NEW f \in Files, Ready(f) # {}
  PROVE  Downloadable(f)
BY DEF Ready, Frozen, Downloadable

(* The iterator has a next file as long as there is a downloadable one.    *)
LEMMA IteratorFindsNext ==
  ASSUME NEW f \in Files, Downloadable(f), f >= scan.next
  PROVE  \E g \in Files : ScansNext(g)
<1> DEFINE U == {g \in Files : Downloadable(g) /\ g >= scan.next}
<1>1. U \in SUBSET Nat /\ U # {}
  BY SizesAssumption DEF Files
<1>2. PICK g \in U : \A h \in U : g <= h
  BY <1>1, LeastNatural
<1> QED BY <1>2 DEF ScansNext

(* A turn of the loop that takes f leaves nothing behind but in f itself.  *)
LEMMA TurnLeavesNothing ==
  ASSUME IInv, NothingBehind, failures = 0, NEW f \in Files, ScansFile(f),
         NEW g \in Files, Ready(g) # {}, g # f
  PROVE  g >= f + 1
<1>1. /\ scan.on /\ nbRunning < NbDownloader /\ handler.waiting = NoChunk
      /\ scan.next \in Nat /\ f \in Nat /\ g \in Nat
  BY SizesAssumption DEF ScansFile, IInv, ControlOK, HandlerOrder, ScanStates, Files
<1>2. g >= scan.next \/ g = scan.file
  BY <1>1 DEF NothingBehind, ScanKeepsUp
<1>3. CASE scan.file = 0
  <2>1. g >= scan.next /\ ScansNext(f)
    BY <1>2, <1>3 DEF ScansFile, Files
  <2> QED BY <1>1, <2>1, ReadyDownloadable DEF ScansNext
<1>4. CASE scan.file # 0
  <2>1. f = scan.file /\ scan.next = f + 1
    BY <1>4 DEF ScansFile, NothingBehind, ScanAt
  <2> QED BY <1>2, <2>1
<1> QED BY <1>3, <1>4

LEMMA ScanEndsNothingBehind ==
  ASSUME IInv, NothingBehind, ScanEnds
  PROVE  NothingBehind'
<1>1. /\ scan.on /\ scan' = NotScanning
      /\ UNCHANGED <<avail, complete, handler, transfer, sources, failures>>
      /\ \/ nbRunning >= NbDownloader
         \/ scan.left = {}
         \/ scan.file = 0 /\ ~ \E f \in Files : ScansNext(f)
  BY DEF ScanEnds, bounds
<1>2. NoFailure' /\ ScanAt'
  BY <1>1 DEF NothingBehind, NoFailure, ScanAt, NotScanning, sources
<1>3. \A f \in Files : Ready(f)' = Ready(f)
  BY <1>1 DEF Ready, Frozen, ChunksOf, FreePeersOf, transfer, sources
<1>4. ASSUME handler.waiting = NoChunk, failures = 0, nbRunning < NbDownloader,
             NEW f \in Files, Ready(f) # {}
      PROVE  FALSE
  <2>1. CASE nbRunning >= NbDownloader
    BY <1>4, <2>1, SizesAssumption DEF IInv, TransferOK
  <2>2. CASE scan.left = {}
    <3>1. PICK c \in Chunks : FreePeersOf(c) # {}
      BY <1>4 DEF Ready, ChunksOf
    <3>2. FreePeersOf(c) \subseteq scan.left
      BY <1>1 DEF NothingBehind, ScanAt
    <3> QED BY <2>2, <3>1, <3>2
  <2>3. CASE scan.file = 0 /\ ~ \E g \in Files : ScansNext(g)
    <3>1. f >= scan.next
      BY <1>4, <2>3 DEF NothingBehind, ScanKeepsUp, Files
    <3> QED BY <1>4, <2>3, <3>1, ReadyDownloadable, IteratorFindsNext
  <2> QED BY <1>1, <2>1, <2>2, <2>3
<1>5. ScanKeepsUp'
  BY <1>1, <1>3, <1>4 DEF ScanKeepsUp, transfer
<1> QED BY <1>2, <1>5 DEF NothingBehind

LEMMA DroppedSmaller ==
  ASSUME SourcesOK, NEW C
  PROVE  /\ Dropped(C) \in [Chunks -> SUBSET Peers]
         /\ \A c \in Chunks : Dropped(C)[c] \subseteq peers[c]
BY DEF SourcesOK, Dropped

LEMMA ScanTurnNothingBehind ==
  ASSUME IInv, NothingBehind, NEW f \in Files, ScansFile(f),
         Ready(f) = {} \/ scan'.file = f,
         UNCHANGED <<avail, complete, handler, transfer, failures>>,
         UNCHANGED sources \/ (\E C : PeersChanged(avail, Dropped(C))),
         scan'.on, scan'.left = scan.left, scan'.next = f + 1,
         scan'.file \in {0, f}, scan'.chunk # NoChunk => FileOf[scan'.chunk] = scan'.file
  PROVE  NothingBehind'
<1>1. NoFailure' /\ NoneReadier
  <2>1. CASE UNCHANGED sources
    BY <2>1 DEF NothingBehind, NoFailure, NoneReadier, FreePeersOf, Frozen, transfer, sources
  <2>2. CASE \E C : PeersChanged(avail, Dropped(C))
    <3>1. PICK C : PeersChanged(avail, Dropped(C))
      BY <2>2
    <3> DEFINE ps == Dropped(C)
    <3>2. ps \in [Chunks -> SUBSET Peers] /\ \A c \in Chunks : ps[c] \subseteq peers[c]
      BY DroppedSmaller DEF IInv
    <3>3. Settle(FilesChanged(ps), avail, downloading, ps, {})
      BY <3>1 DEF PeersChanged
    <3> HIDE DEF ps
    <3>4. NoFailure' /\ \A g \in Files : Frozen(g) => Frozen(g)'
      BY <3>3, SettleNoFailure DEF IInv, NothingBehind
    <3>5. \A d \in Chunks : peers'[d] \subseteq ps[d]
      BY <3>3 DEF Settle, SettleLists, Purged
    <3> QED BY <3>2, <3>4, <3>5 DEF NoneReadier, FreePeersOf, transfer
  <2> QED BY <2>1, <2>2
<1>2. ScanAt'
  BY <1>1 DEF NothingBehind, ScanAt, NoneReadier, ScansFile
<1>3. ASSUME failures = 0, NEW g \in Files, Ready(g)' # {}
      PROVE  g >= scan'.next \/ g = scan'.file
  <2>1. Ready(g) # {}
    BY <1>1, <1>3, ReadyShrinks
  <2>2. CASE g = f
    BY <2>1, <2>2
  <2>3. CASE g # f
    BY <1>3, <2>1, <2>3, TurnLeavesNothing
  <2> QED BY <2>2, <2>3
<1>4. ScanKeepsUp'
  BY <1>3 DEF ScanKeepsUp
<1> QED BY <1>1, <1>2, <1>4 DEF NothingBehind

LEMMA ScanStartsNothingBehind ==
  ASSUME IInv, NothingBehind, NEW c \in Chunks, NEW p \in Peers, ScanStarts(c, p)
  PROVE  NothingBehind'
<1> DEFINE ps == [peers EXCEPT ![c] = @ \cap avail]
<1>1. /\ scan.chunk = c /\ c # NoChunk /\ scan.on /\ nbRunning < NbDownloader
      /\ downloading' = downloading \cup {c} /\ occupied' = occupied \cup {p}
      /\ nbRunning' = nbRunning + 1
      /\ SettleLists(FilesChanged(ps), avail, downloading, ps, {})
      /\ status' = [status EXCEPT ![FileOf[c]] = "DOWNLOADING"]
      /\ scan' = [scan EXCEPT !.chunk = NoChunk, !.left = @ \ {p}]
      /\ UNCHANGED <<avail, complete, handler, failures>>
  BY NullsAssumption DEF ScanStarts, bounds, IInv, ControlOK, HandlerOrder
<1>2. FileOf[c] = scan.file
  BY <1>1 DEF NothingBehind, ScanAt
<1>3. /\ scan'.on /\ scan'.chunk = NoChunk /\ scan'.left = scan.left \ {p}
      /\ scan'.next = scan.next /\ scan'.file = scan.file
  BY <1>1 DEF IInv, ControlOK, ScanStates
<1>4. \A d \in Chunks : peers'[d] \subseteq peers[d]
  <2>1. ps \in [Chunks -> SUBSET Peers] /\ \A d \in Chunks : ps[d] \subseteq peers[d]
    BY DEF IInv, SourcesOK
  <2> HIDE DEF ps
  <2>2. \A d \in Chunks : peers'[d] \subseteq ps[d]
    BY <1>1 DEF SettleLists, Purged
  <2> QED BY <2>1, <2>2
<1>5. \A d \in Chunks : FreePeersOf(d)' \subseteq FreePeersOf(d) \ {p}
  BY <1>1, <1>4 DEF FreePeersOf
<1>6. NoFailure'
  <2>1. failed' \subseteq failed
    BY <1>1 DEF SettleLists
  <2> QED BY <1>1, <2>1 DEF NothingBehind, NoFailure, IInv, SourcesOK
<1>7. ScanAt'
  BY <1>1, <1>3, <1>5 DEF NothingBehind, ScanAt
<1>8. ASSUME failures = 0, NEW g \in Files, Ready(g)' # {}
      PROVE  g >= scan'.next \/ g = scan'.file
  <2>1. CASE g = scan.file
    BY <1>3, <2>1
  <2>2. CASE g # scan.file
    <3>1. status'[g] = status[g]
      BY <1>1, <1>2, <2>2 DEF IInv, SourcesOK
    <3>2. Ready(g)' \subseteq Ready(g)
      BY <1>1, <1>5, <3>1 DEF Ready, Frozen, ChunksOf
    <3>3. handler.waiting = NoChunk
      BY <1>1 DEF IInv, ControlOK, HandlerOrder
    <3> QED BY <1>1, <1>3, <1>8, <3>2, <3>3 DEF NothingBehind, ScanKeepsUp
  <2> QED BY <2>1, <2>2
<1>9. ScanKeepsUp'
  BY <1>1, <1>3, <1>8 DEF ScanKeepsUp
<1> QED BY <1>6, <1>7, <1>9 DEF NothingBehind

LEMMA ScanNothingBehind ==
  ASSUME IInv, NothingBehind, Scan
  PROVE  NothingBehind'
<1>t. scan \in ScanStates
  BY DEF IInv, ControlOK
<1>1. ASSUME NEW f \in Files, ScanSkips(f) PROVE NothingBehind'
  <2>1. /\ scan.on /\ scan.chunk = NoChunk /\ status[f] = "ERRONEOUS"
        /\ UNCHANGED <<avail, complete, handler, transfer, sources, failures>>
        /\ scan' = IF scan.file = 0 THEN [scan EXCEPT !.next = f + 1] ELSE scan
    BY <1>1 DEF ScanSkips, ScansFile, bounds
  <2>2. failures # 0
    BY <2>1 DEF NothingBehind, NoFailure
  <2>3. /\ scan'.left = scan.left /\ scan'.file = scan.file /\ scan'.chunk = scan.chunk
        /\ scan'.on
        /\ scan.file # 0 => scan'.next = scan.next
    <3>1. f + 1 \in Nat
      BY DEF Files
    <3> QED BY <1>t, <2>1, <3>1 DEF ScanStates
  <2>4. ScanAt'
    BY <2>1, <2>3 DEF NothingBehind, ScanAt, FreePeersOf, transfer, sources
  <2> QED BY <2>1, <2>2, <2>4 DEF NothingBehind, NoFailure, ScanKeepsUp
<1>2. ASSUME NEW f \in Files, ScanFindsNothing(f) PROVE NothingBehind'
  <2>1. /\ scan'.on /\ scan'.left = scan.left /\ scan'.next = f + 1 /\ scan'.file = 0
        /\ scan'.chunk = NoChunk
    BY <1>t, <1>2 DEF ScanFindsNothing, ScansFile, ScanStates
  <2>2. UNCHANGED sources \/ (\E C : PeersChanged(avail, Dropped(C)))
    BY <1>2 DEF ScanFindsNothing
  <2>3. /\ ScansFile(f) /\ Ready(f) = {}
        /\ UNCHANGED <<avail, complete, handler, transfer, failures>>
    BY <1>2 DEF ScanFindsNothing, bounds
  <2> QED BY <2>1, <2>2, <2>3, ScanTurnNothingBehind
<1>3. ASSUME NEW f \in Files, NEW c \in Chunks, ScanFinds(f, c) PROVE NothingBehind'
  <2>1. /\ scan'.on /\ scan'.left = scan.left /\ scan'.next = f + 1 /\ scan'.file = f
        /\ scan'.chunk = c
    BY <1>t, <1>3 DEF ScanFinds, ScansFile, ScanStates
  <2>2. FileOf[c] = f
    BY <1>3 DEF ScanFinds, Ready, ChunksOf
  <2>3. \E C : PeersChanged(avail, Dropped(C))
    BY <1>3 DEF ScanFinds
  <2>4. /\ ScansFile(f)
        /\ UNCHANGED <<avail, complete, handler, transfer, failures>>
    BY <1>3 DEF ScanFinds, bounds
  <2> QED BY <2>1, <2>2, <2>3, <2>4, ScanTurnNothingBehind
<1> QED BY <1>1, <1>2, <1>3, ScanEndsNothingBehind, ScanStartsNothingBehind DEF Scan

LEMMA NothingBehindInit ==
  Init => NothingBehind
BY DEF Init, NothingBehind, NoFailure, ScanAt, ScanKeepsUp, NotScanning, Ready, FreePeersOf

LEMMA NothingBehindStep ==
  IInv /\ NothingBehind /\ [Next]_vars => NothingBehind'
<1> SUFFICES ASSUME IInv, NothingBehind, [Next]_vars PROVE NothingBehind'
  OBVIOUS
<1>1. CASE UNCHANGED vars
  BY <1>1 DEF vars, transfer, sources, bounds, NothingBehind, NoFailure, ScanAt, ScanKeepsUp,
              Ready, Frozen, ChunksOf, FreePeersOf
<1> QED BY <1>1, PeerEventNothingBehind, AnswerNothingBehind,
           RunnableFinishedNothingBehind, UserCommandNothingBehind, StopStepNothingBehind,
           ScanNothingBehind, WorkerNothingBehind DEF Next

(* Every handler that makes a chunk ready or a peer free ends with a scan  *)
(* that reaches the file of that chunk: as long as no transfer failed,     *)
(* nothing that could be downloaded is left behind while a downloader is   *)
(* idle, whatever stops, ends and scans come between.                      *)
THEOREM NothingForgotten ==
  Spec => []NoChunkForgotten
BY Invariance, InitInv, NothingBehindInit, NothingBehindStep, NothingBehindSuffices, PTL DEF Spec

-----------------------------------------------------------------------------
(* The refinement of TransferSlots.  While nothing is paused nor removed,  *)
(* a chunk is run by one thread only, from the answer that gives it to     *)
(* that thread until the end of that thread is delivered, and the          *)
(* transfers implement TransferSlots.  With a stop neither holds: the end  *)
(* of a stopped run may be delivered to the next transfer of the chunk.    *)

Busy(t) == thread[t].st # "idle"

(* What the absence of stops adds to IInv.                                 *)
OneRun ==
  /\ handler = NoHandler /\ stops = 0
  /\ \A t \in Threads : Busy(t) => thread[t].run \in downloading \cap socket
  /\ \A t, u \in Threads : Busy(t) /\ Busy(u) /\ thread[t].run = thread[u].run => t = u
  /\ scan.chunk \notin complete

(* The end of a transfer that no thread runs, or whose thread is idle now. *)
LEMMA EndKeepsOneRun ==
  ASSUME IInv, OneRun, NEW c \in Chunks, NEW ps, DownloadingEnded(c, ps),
         UNCHANGED <<handler, stops, complete>>, thread' \in [Threads -> ThreadStates],
         \A t \in Threads : thread'[t] = thread[t] \/ thread'[t] = Idle,
         \A t \in Threads : Busy(t)' => thread[t].run # c
  PROVE  OneRun'
<1>1. downloading' = downloading \ {c} /\ socket' = socket \ {c}
  BY DEF DownloadingEnded
<1>2. scan'.chunk \notin complete'
  BY StartScanKeeps, NullsAssumption DEF DownloadingEnded, IInv, PoolOK
<1>3. \A t \in Threads : Busy(t)' => Busy(t) /\ thread'[t] = thread[t]
  BY DEF Busy, Idle
<1> QED BY <1>1, <1>2, <1>3 DEF OneRun, Busy

LEMMA OneRunInit ==
  Init => OneRun
BY NullsAssumption DEF Init, OneRun, Busy, Idle, NotScanning

(* No worker is ever waited for.                                           *)
LEMMA NoStopStep ==
  ASSUME OneRun
  PROVE  ~ StopStep
<1>1. handler.toStop = {} /\ handler.waiting = NoChunk /\ handler.removing = 0
  BY DEF OneRun, NoHandler
<1>2. \A c \in Chunks : ~ Stop(c) /\ ~ StopReturns(c)
  BY <1>1, NullsAssumption DEF Stop, StopReturns
<1>3. \A f \in Files : ~ DeleteFile(f)
  BY <1>1 DEF DeleteFile, NoHandler, Files
<1> QED BY <1>2, <1>3 DEF StopStep

(* The handlers of the main thread.                                        *)
LEMMA OneRunMain ==
  ASSUME MaxStops = 0, IInv, OneRun,
         \/ PeerEvent \/ (\E c \in Chunks : Answer(c))
         \/ (\E t \in Threads : RunnableFinished(t)) \/ UserCommand \/ StopStep
  PROVE  OneRun'
<1>1. ASSUME UNCHANGED <<transfer, complete, handler, pool, stops>> PROVE OneRun'
  <2>1. scan'.chunk \notin complete'
    BY <1>1, HandlersChooseNothing, NullsAssumption DEF IInv, PoolOK
  <2> QED BY <1>1, <2>1 DEF transfer, pool, OneRun, Busy
<1>2. CASE PeerEvent
  BY <1>1, <1>2
  DEF PeerEvent, PeerDies, PeerBecomesAvailable, AddPeer, RmPeer, GetPeers,
      RestartErroneous, bounds
<1>3. ASSUME NEW c \in Chunks, ResultOk(c) PROVE OneRun'
  <2>1. PICK t \in Threads : thread' = [thread EXCEPT ![t] = [st |-> "running", run |-> c]]
    BY <1>3 DEF ResultOk
  <2>2. /\ c \in downloading /\ c \notin socket /\ socket' = socket \cup {c}
        /\ UNCHANGED <<downloading, complete, scan, handler, stops>>
    BY <1>3 DEF ResultOk, Asked, bounds
  <2>3. /\ thread'[t].run = c
        /\ \A u \in Threads : u # t => thread'[u] = thread[u]
    BY <2>1 DEF IInv, PoolOK
  <2> QED BY <2>2, <2>3 DEF OneRun, Busy
<1>4. ASSUME NEW c \in Chunks, ResultError(c) \/ ResultTimeout(c) PROVE OneRun'
  <2>1. PICK ps : DownloadingEnded(c, ps)
    BY <1>4 DEF ResultError, ResultTimeout
  <2>2. c \notin socket /\ UNCHANGED <<handler, stops, complete, thread>>
    BY <1>4 DEF ResultError, ResultTimeout, Asked, bounds, pool
  <2>3. \A t \in Threads : Busy(t)' => thread[t].run # c
    BY <2>2 DEF OneRun, Busy
  <2> QED BY <2>1, <2>2, <2>3, EndKeepsOneRun DEF IInv, PoolOK
<1>5. ASSUME NEW t \in Threads, RunnableFinished(t) PROVE OneRun'
  <2> DEFINE c == thread[t].run
  <2>1. /\ Busy(t) /\ thread' = [thread EXCEPT ![t] = Idle]
        /\ UNCHANGED <<handler, stops, complete>>
    BY <1>5 DEF RunnableFinished, Busy, bounds
  <2>2. c \in downloading /\ c \in Chunks
    BY <2>1 DEF OneRun, IInv, TransferOK
  <2>3. DownloadingEnded(c, peers)
    BY <1>5, <2>2 DEF RunnableFinished
  <2>4. /\ thread'[t] = Idle
        /\ \A u \in Threads : u # t => thread'[u] = thread[u]
        /\ thread' \in [Threads -> ThreadStates]
    BY <2>1 DEF IInv, PoolOK, ThreadStates, Idle
  <2>5. \A u \in Threads : Busy(u)' => thread[u].run # c
    BY <2>1, <2>4 DEF OneRun, Busy, Idle
  <2> QED BY <2>1, <2>2, <2>3, <2>4, <2>5, EndKeepsOneRun
<1>6. ASSUME UserCommand PROVE OneRun'
  <2>1. \E f \in Files : Unpause(f)
    BY <1>6 DEF UserCommand, Pause, Remove, StopFile, OneRun
  <2> QED BY <1>1, <2>1 DEF Unpause, bounds
<1>7. ~ StopStep
  BY NoStopStep
<1> QED BY <1>2, <1>3, <1>4, <1>5, <1>6, <1>7 DEF Answer

(* A scan chooses a chunk that is not complete, which its own transfer     *)
(* only could complete, and the workers end.                               *)
LEMMA OneRunScan ==
  ASSUME IInv, OneRun, Scan
  PROVE  OneRun'
<1>1. /\ UNCHANGED <<complete, handler, thread, stops, socket>>
      /\ downloading \subseteq downloading'
  BY DEF Scan, ScanEnds, ScanSkips, ScanFindsNothing, ScanFinds, ScanStarts,
         transfer, pool, bounds
<1>2. scan'.chunk = NoChunk \/ \E f \in Files : scan'.chunk \in Ready(f)
  BY ScanChooses DEF ScanFinds
<1>3. scan'.chunk \notin complete'
  BY <1>1, <1>2, NullsAssumption DEF Ready, IInv, PoolOK
<1> QED BY <1>1, <1>3 DEF OneRun, Busy

LEMMA OneRunWorker ==
  ASSUME IInv, OneRun, NEW t \in Threads, Worker(t)
  PROVE  OneRun'
<1>1. PICK c \in Chunks : RunEnds(t, c) \/ RunLooksForPeer(t, c)
  BY DEF Worker
<1>2. Running(t, c) /\ UNCHANGED <<downloading, socket, handler, stops, scan>>
  BY <1>1 DEF RunEnds, RunAborts, RunCompletes, RunFails, RunBlocksPeer, RunLooksForPeer,
              transfer, bounds
<1>3. \A u \in Threads : thread'[u].run = thread[u].run /\ (Busy(u)' => Busy(u))
  BY <1>1, <1>2 DEF RunEnds, RunAborts, RunCompletes, RunFails, RunBlocksPeer,
                    RunLooksForPeer, ThreadEnds, Running, Busy, IInv, PoolOK, ThreadStates
<1>4. scan.chunk \notin complete'
  <2>1. c \in downloading
    BY <1>2 DEF OneRun, Running, Busy
  <2>2. complete' \subseteq complete \cup {c}
    BY <1>1 DEF RunEnds, RunAborts, RunCompletes, RunFails, RunBlocksPeer, RunLooksForPeer
  <2>3. scan.chunk # c
    BY <2>1, NullsAssumption DEF IInv, ControlOK, HandlerOrder, TransferOK
  <2> QED BY <2>2, <2>3 DEF OneRun
<1> QED BY <1>2, <1>3, <1>4 DEF OneRun

LEMMA OneRunStep ==
  ASSUME MaxStops = 0
  PROVE  IInv /\ OneRun /\ [Next]_vars => OneRun'
<1> SUFFICES ASSUME IInv, OneRun, [Next]_vars PROVE OneRun'
  OBVIOUS
<1>1. CASE UNCHANGED vars
  BY <1>1 DEF vars, transfer, pool, bounds, OneRun, Busy
<1> QED BY <1>1, OneRunMain, OneRunScan, OneRunWorker DEF Next

LEMMA OneRunInvariance ==
  ASSUME MaxStops = 0
  PROVE  Spec => []OneRun
BY OneRunInit, OneRunStep, Invariance, PTL DEF Spec

(* Without pause nor removal the worker that runs a chunk keeps the socket *)
(* and the peer of its transfer, and is the only one to run it.            *)
THEOREM RunsOwnTransfers ==
  ASSUME MaxStops = 0
  PROVE  Spec => []RunOwnsTransfer
<1>1. IInv /\ OneRun => RunOwnsTransfer
  BY DEF IInv, OneRun, TransferOK, OneTransferPerPeer, Holders, Running, Busy, RunOwnsTransfer
<1> QED BY <1>1, Invariance, OneRunInvariance, PTL

-----------------------------------------------------------------------------
(* The refinement.  A peer that is set is the one of a holder, so that     *)
(* the slots of TransferSlots are currentDownloadingPeer itself.           *)

LEMMA InitSlots ==
  Init => Slots!Init
BY DEF Init, Holders, NoHandler, Slots!Init

(* The steps of TransferSlots, told with the variables of ChunkTransfer.   *)
LEMMA SlotSteps ==
  ASSUME IInv, IInv', NEW c \in Chunks
  PROVE  /\ UNCHANGED <<current, complete>> => UNCHANGED Slots!vars
         /\ \A p \in Peers :
              /\ current[c] = NoPeer /\ c \notin complete
              /\ \A d \in Chunks : current[d] # p
              /\ Cardinality(Holders) < NbDownloader
              /\ current' = [current EXCEPT ![c] = p] /\ UNCHANGED complete
              => Slots!Begin(c, p)
         /\ current[c] # NoPeer /\ complete' = complete \cup {c} /\ UNCHANGED current
              => Slots!Finish(c)
         /\ current[c] # NoPeer /\ current' = [current EXCEPT ![c] = NoPeer]
            /\ UNCHANGED complete
              => Slots!End(c)
<1> DEFINE slot == [d \in Chunks |-> IF d \in Holders THEN current[d] ELSE NoPeer]
<1>1. slot = current /\ slot' = current'
  <2>1. slot = current
    BY DEF IInv, TransferOK, OneTransferPerPeer
  <2>2. /\ current' \in [Chunks -> Peers \cup {NoPeer}]
        /\ \A d \in Chunks \ Holders' : current'[d] = NoPeer
    BY DEF IInv, TransferOK, OneTransferPerPeer
  <2>3. slot' = [d \in Chunks |-> IF d \in Holders' THEN current'[d] ELSE NoPeer]
    OBVIOUS
  <2>4. slot' = current'
    BY <2>2, <2>3
  <2> QED BY <2>1, <2>4
<1>2. {d \in Chunks : current[d] # NoPeer} = Holders
  BY HoldersFinite, NullsAssumption DEF IInv, TransferOK, OneTransferPerPeer
<1>3. Slots!Busy = Holders
  BY <1>1, <1>2 DEF Slots!Busy
<1> HIDE DEF slot
<1>4. UNCHANGED <<current, complete>> => UNCHANGED Slots!vars
  BY <1>1 DEF Slots!vars, slot
<1>5. ASSUME NEW p \in Peers, current[c] = NoPeer, c \notin complete,
             \A d \in Chunks : current[d] # p, Cardinality(Holders) < NbDownloader,
             current' = [current EXCEPT ![c] = p], UNCHANGED complete
      PROVE  Slots!Begin(c, p)
  <2>1. Slots!Cardinality(Slots!Busy) < NbDownloader
    BY <1>3, <1>5 DEF Slots!Cardinality, Cardinality
  <2> QED BY <1>1, <1>5, <2>1 DEF Slots!Begin, slot
<1>6. ASSUME current[c] # NoPeer, complete' = complete \cup {c}, UNCHANGED current
      PROVE  Slots!Finish(c)
  BY <1>1, <1>6 DEF Slots!Finish, slot
<1>7. ASSUME current[c] # NoPeer, current' = [current EXCEPT ![c] = NoPeer],
             UNCHANGED complete
      PROVE  Slots!End(c)
  BY <1>1, <1>7 DEF Slots!End, slot
<1> QED BY <1>4, <1>5, <1>6, <1>7

(* The end of a transfer.                                                  *)
LEMMA EndIsSlotStep ==
  ASSUME IInv, IInv', OneRun, NEW c \in downloading, NEW ps, DownloadingEnded(c, ps),
         UNCHANGED complete
  PROVE  Slots!Next
<1>1. c \in Chunks /\ current[c] # NoPeer
  BY NullsAssumption DEF IInv, TransferOK, OneTransferPerPeer, Holders
<1>2. current' = [current EXCEPT ![c] = NoPeer]
  BY DEF DownloadingEnded
<1>3. Slots!End(c)
  BY <1>1, <1>2, SlotSteps
<1> QED BY <1>1, <1>3 DEF Slots!Next

(* The start of a transfer.                                                *)
LEMMA StartIsSlotStep ==
  ASSUME Disconnects, IInv, IInv', OneRun, NEW c \in Chunks, NEW p \in Peers,
         ScanStarts(c, p)
  PROVE  Slots!Next
<1>1. /\ scan.chunk = c /\ p \notin occupied
      /\ current' = [current EXCEPT ![c] = p] /\ UNCHANGED complete
  BY DEF ScanStarts, FreePeersOf
<1>2. c \notin downloading /\ nbRunning < NbDownloader
  BY <1>1, NullsAssumption DEF IInv, ControlOK, HandlerOrder
<1>3. c \notin Holders /\ Cardinality(Holders) < NbDownloader
  BY <1>2, NullsAssumption
  DEF OneRun, NoHandler, Holders, IInv, TransferOK, Counted, ThreadBudget
<1>4. /\ current[c] = NoPeer /\ c \notin complete
      /\ \A d \in Chunks : current[d] # p
  BY <1>1, <1>3, NullsAssumption DEF OneRun, IInv, TransferOK, OneTransferPerPeer
<1>5. Slots!Begin(c, p)
  BY <1>1, <1>3, <1>4, SlotSteps
<1> QED BY <1>5 DEF Slots!Next

(* The end of a run that wrote all the bytes.                              *)
LEMMA CompletionIsSlotStep ==
  ASSUME IInv, IInv', OneRun, NEW t \in Threads, NEW c \in Chunks, RunCompletes(t, c)
  PROVE  Slots!Next
<1>1. c \in downloading
  BY DEF RunCompletes, Running, OneRun, Busy
<1>2. current[c] # NoPeer
  BY <1>1, NullsAssumption DEF IInv, TransferOK, OneTransferPerPeer, Holders
<1>3. complete' = complete \cup {c} /\ UNCHANGED current
  BY DEF RunCompletes, transfer
<1>4. Slots!Finish(c)
  BY <1>2, <1>3, SlotSteps
<1> QED BY <1>4 DEF Slots!Next

LEMMA StepSlots ==
  ASSUME MaxStops = 0, Disconnects, IInv, IInv', OneRun, [Next]_vars
  PROVE  [Slots!Next]_(Slots!vars)
<1>1. ASSUME UNCHANGED <<current, complete>> PROVE UNCHANGED Slots!vars
  <2>1. CASE Chunks = {}
    BY <2>1, <1>1 DEF Slots!vars
  <2>2. CASE Chunks # {}
    BY <2>2, <1>1, SlotSteps
  <2> QED BY <2>1, <2>2
<1>2. CASE PeerEvent
  BY <1>1, <1>2
  DEF PeerEvent, PeerDies, PeerBecomesAvailable, AddPeer, RmPeer, GetPeers,
      RestartErroneous, transfer
<1>3. ASSUME NEW c \in Chunks, Answer(c) PROVE [Slots!Next]_(Slots!vars)
  <2>1. CASE ResultOk(c)
    BY <1>1, <2>1 DEF ResultOk
  <2>2. CASE ResultError(c) \/ ResultTimeout(c)
    BY <2>2, EndIsSlotStep DEF ResultError, ResultTimeout, Asked
  <2> QED BY <1>3, <2>1, <2>2 DEF Answer
<1>4. ASSUME NEW t \in Threads, RunnableFinished(t) PROVE [Slots!Next]_(Slots!vars)
  <2>1. CASE thread[t].run \in downloading
    BY <1>4, <2>1, EndIsSlotStep DEF RunnableFinished
  <2>2. CASE thread[t].run \notin downloading
    BY <1>1, <1>4, <2>2 DEF RunnableFinished, transfer
  <2> QED BY <2>1, <2>2
<1>5. CASE UserCommand
  BY <1>1, <1>5 DEF UserCommand, Pause, Unpause, Remove, StopFile, transfer
<1>6. ~ StopStep
  BY NoStopStep
<1>7. CASE Scan
  <2>1. CASE \E c \in Chunks, p \in Peers : ScanStarts(c, p)
    BY <2>1, StartIsSlotStep
  <2>2. CASE ~ \E c \in Chunks, p \in Peers : ScanStarts(c, p)
    BY <1>1, <1>7, <2>2
    DEF Scan, ScanEnds, ScanSkips, ScanFindsNothing, ScanFinds, transfer
  <2> QED BY <2>1, <2>2
<1>8. ASSUME NEW t \in Threads, Worker(t) PROVE [Slots!Next]_(Slots!vars)
  <2>1. PICK c \in Chunks : RunEnds(t, c) \/ RunLooksForPeer(t, c)
    BY <1>8 DEF Worker
  <2>2. CASE RunCompletes(t, c)
    BY <2>2, CompletionIsSlotStep
  <2>3. CASE ~ RunCompletes(t, c)
    BY <1>1, <2>1, <2>3
    DEF RunEnds, RunAborts, RunFails, RunBlocksPeer, RunLooksForPeer, transfer
  <2> QED BY <2>2, <2>3
<1>9. CASE UNCHANGED vars
  BY <1>1, <1>9 DEF vars, transfer
<1> QED BY <1>2, <1>3, <1>4, <1>5, <1>6, <1>7, <1>8, <1>9 DEF Next

(* For every number of chunks, peers, threads and failures, the transfers  *)
(* of ChunkTransfer are transfers of TransferSlots: within the limit, one  *)
(* per peer, each chunk completed by its own transfer and then left alone. *)
THEOREM TransfersImplementSlots ==
  ASSUME MaxStops = 0, Disconnects
  PROVE  Spec => ImplementsSlots
<1>1. IInv /\ IInv' /\ OneRun /\ [Next]_vars => [Slots!Next]_(Slots!vars)
  BY StepSlots
<1> QED BY <1>1, InitSlots, Invariance, OneRunInvariance, PTL
        DEF Spec, ImplementsSlots, Slots!Spec
=============================================================================

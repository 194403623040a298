--------------------------- MODULE DownloadQueue ---------------------------
(***************************************************************************)
(* The queue of the downloads (DownloadQueue) and the part of              *)
(* DownloadManager that fills, orders, saves and reloads it: downloads are *)
(* added, moved and removed by the user, a directory is replaced by its    *)
(* children when a peer has sent their list, erroneous downloads are       *)
(* listed and restarted by a timer, and the program may end at any moment. *)
(*                                                                         *)
(* All of it runs on the main thread.  A handler that is a loop over the   *)
(* queue (a move, a removal, the insertion of several downloads) is one    *)
(* step per turn, told by the variable handler.  No other handler runs     *)
(* between two turns of a move or of a removal; between two insertions     *)
(* the start of the download just inserted may free a peer, hence scan the *)
(* queue and change the status of any download.                            *)
(*                                                                         *)
(* Positions are those of the code, from 0.  The identifiers of downloads  *)
(* are the downloads themselves.  Left to FileStatus: what makes a         *)
(* download erroneous or not any more.  Here "live" is any status that is  *)
(* neither COMPLETE, nor an error (0x20 and above), nor DELETED.           *)
(***************************************************************************)
EXTENDS Integers, Sequences, SequencesExt, FiniteSets

CONSTANTS
  Files, Dirs,   \* the objects FileDownload and DirDownload that may be created
  NameOf,        \* the path and the name of the entry of each
  Listings,      \* for the name of a directory, what a peer may answer
  Asked,         \* the names the user asks for
  Places,        \* the shared directories
  NoPlace,       \* the place of an entry without shared directory
  Destinations,  \* where the user may ask a download to go
  MaxListed,     \* bound: length of the list of the erroneous downloads
  MaxSelection,  \* bound: downloads named by a command
  Predicates,    \* bound: the predicates downloads are searched with
  Persistent,    \* bound: does the program save its queue and end?
  NoRef          \* no reference for a move

Downloads == Files \cup Dirs

ASSUME DownloadsAssumption ==
  Files \cap Dirs = {} /\ NoRef \notin Downloads /\ NoPlace \notin Places
ASSUME NamesAssumption ==
  /\ NameOf \in [Downloads -> {NameOf[d] : d \in Downloads}]
  /\ \A d \in Dirs : Listings[NameOf[d]] \subseteq Seq({NameOf[x] : x \in Downloads})
ASSUME BoundsAssumption == MaxListed \in Nat /\ MaxSelection \in Nat
ASSUME PredicatesAssumption == Predicates \subseteq {"IsDownloadable", "IsADirectory"}
ASSUME DestinationsAssumption == Destinations \subseteq Places \cup {NoPlace}

VARIABLES
  downloads,     \* DownloadQueue::downloads
  status,        \* Download::status, "unborn" before the object is created
  place,         \* the shared directory in Download::localEntry
  markers,       \* DownloadQueue::markers, by the name of their predicate
  erroneous,     \* DownloadQueue::erroneousDownloads
  timer,         \* does startErroneousDownloadTimer run?
  queueLoaded,   \* DownloadManager::queueLoaded
  queueChanged,  \* DownloadManager::queueChanged
  saved,         \* the queue file: names and places
  unsaved,       \* history: a change the file will not get by queueChanged
  handler        \* the rest of the main thread's handler

errors  == <<erroneous, timer>>
storage == <<queueLoaded, queueChanged, saved, unsaved>>
vars == <<downloads, status, place, markers, errors, storage, handler>>

Idle      == [kind |-> "idle"]
MainIdle  == handler = Idle
(* Between two insertions the event loop does not run, but scans may.      *)
MayScan   == handler.kind \in {"idle", "entering"}
Queued    == ToSet(downloads)
Entry(d)  == [name |-> NameOf[d], place |-> place[d]]
Contents  == [i \in DOMAIN downloads |-> Entry(downloads[i])]
PositionOf(d) == CHOOSE p \in 0..Len(downloads) - 1 : downloads[p + 1] = d

-----------------------------------------------------------------------------
(* The list and the markers.                                               *)

(* QList::insert appends when the position is beyond the end.              *)
Inserted(s, position, d) ==
  InsertAt(s, IF position <= Len(s) THEN position + 1 ELSE Len(s) + 1, d)
Removed(s, position) == RemoveAt(s, position + 1)

(* Does a download d whose status is st satisfy the predicate P?           *)
Satisfies(d, st, P) ==
  \/ P = "IsDownloadable" /\ d \in Files /\ st \notin {"complete", "deleted"}
  \/ P = "IsADirectory" /\ d \in Dirs

MarkersInsert_NotLowered(position, d, st) ==  \* mutant: as for a download not looked for
  [P \in DOMAIN markers |-> IF position <= markers[P] THEN markers[P] + 1 ELSE markers[P]]
MarkersInsert(position, d, st) ==
  [P \in DOMAIN markers |->
     LET m == markers[P]
     IN IF Satisfies(d, st, P)
        THEN IF position < m THEN position ELSE m
        ELSE IF position <= m THEN m + 1 ELSE m]

MarkersRemove_Kept(position) == markers   \* mutant: the markers do not follow
MarkersRemove(position) ==
  [P \in DOMAIN markers |->
     IF position < markers[P] THEN markers[P] - 1 ELSE markers[P]]

MarkersMove(insertAt, removeAt, d) ==
  [P \in DOMAIN markers |->
     LET m == markers[P]
         shifted == IF insertAt <= m THEN m + 1 ELSE m
     IN IF Satisfies(d, status[d], P)
        THEN IF removeAt > m /\ insertAt < m THEN insertAt
             ELSE IF removeAt < m /\ insertAt > m THEN m - 1
             ELSE m
        ELSE IF removeAt < shifted THEN shifted - 1 ELSE shifted]

(* The download d is inserted a second time, then its first place removed. *)
MoveOne(d, insertAt, removeAt) ==
  /\ downloads' = Removed(Inserted(downloads, insertAt, d), removeAt)
  /\ markers' = MarkersMove(insertAt, removeAt, d)

(* Download::setStatus, with the slot downloadStatusBecomeErroneous.       *)
SetStatus(d, st) ==
  /\ status' = [status EXCEPT ![d] = st]
  /\ IF st = "erroneous" /\ status[d] # "erroneous"
     THEN /\ Len(erroneous) < MaxListed
          /\ erroneous' = Append(erroneous, d)
          /\ timer' = TRUE
     ELSE UNCHANGED errors

-----------------------------------------------------------------------------
(* Adding downloads.                                                       *)

(* Only files are in downloadsIndexedByName.  An entry without place       *)
(* matches one with any place.                                             *)
AlreadyQueued(entry) ==
  \E d \in Queued \cap Files :
    NameOf[d] = entry.name /\ (entry.place = NoPlace \/ place[d] = entry.place)

(* The statuses start() may give a new download, or a live or erroneous    *)
(* one.                                                                    *)
Outcomes(d) == {"live", "erroneous"} \cup (IF d \in Files THEN {"complete"} ELSE {})

(* addDownload: nothing happens for a file that is already queued.  A file *)
(* read from the queue file may be created complete.                       *)
AddDownload(entry, position, loading) ==
  IF AlreadyQueued(entry)
  THEN UNCHANGED <<downloads, status, place, markers, errors, queueChanged>>
  ELSE \E d \in Downloads :
         \E created \in IF loading /\ d \in Files THEN {"live", "complete"} ELSE {"live"} :
         \E started \in IF created = "live" THEN Outcomes(d) ELSE {created} :
           /\ NameOf[d] = entry.name /\ status[d] = "unborn"
           /\ downloads' = Inserted(downloads, position, d)
           /\ markers' = MarkersInsert(position, d, created)
           /\ place' = [place EXCEPT ![d] = entry.place]
           /\ SetStatus(d, started)
           /\ queueChanged' = TRUE

UserAdds(name, destination) ==
  /\ MainIdle
  /\ AddDownload([name |-> name, place |-> destination], Len(downloads), FALSE)
  /\ UNCHANGED <<queueLoaded, saved, unsaved, handler>>

(* erroneousDownloads.removeOne(d): the first occurrence only.             *)
ForgetErroneous(d) ==
  \/ d \notin ToSet(erroneous) /\ UNCHANGED erroneous
  \/ \E k \in DOMAIN erroneous :
       /\ erroneous[k] = d /\ \A l \in 1..k - 1 : erroneous[l] # d
       /\ erroneous' = RemoveAt(erroneous, k)

(* DirDownload::result with entries, then newEntries: the directory leaves *)
(* the queue and the insertion of its children begins at its position,     *)
(* first a pass over the files, then one over the directories.             *)
NewEntries(d, listing) ==
  LET position == PositionOf(d)
  IN /\ MainIdle /\ d \in Queued \cap Dirs
     /\ downloads' = Removed(downloads, position)
     /\ markers' = MarkersRemove(position)
     /\ ForgetErroneous(d)
     /\ status' = [status EXCEPT ![d] = "deleted"]
     /\ handler' = [kind |-> "entering", pass |-> "files", n |-> 1, at |-> position,
                    entries |-> [i \in 1..Len(listing) |->
                                   [name |-> listing[i], place |-> place[d]]],
                    before |-> downloads]
     /\ UNCHANGED <<place, timer, storage>>

(* loadQueueFromFile, called once: one pass over what was saved.           *)
LoadQueue ==
  /\ MainIdle /\ ~queueLoaded
  /\ handler' = [kind |-> "entering", pass |-> "saved", n |-> 1, at |-> Len(downloads),
                 entries |-> saved, before |-> downloads]
  /\ UNCHANGED <<downloads, status, place, markers, errors, storage>>

Loading   == handler.kind = "entering" /\ handler.pass = "saved"
AtEntry   == handler.kind = "entering" /\ handler.n <= Len(handler.entries)
InPass(e) ==
  LET isFile == \E f \in Files : NameOf[f] = e.name
  IN Loading \/ (handler.pass = "files" <=> isFile)

(* One turn of the loop of newEntries or of loadQueueFromFile.  In         *)
(* newEntries the position advances whether or not something is inserted.  *)
Enter_First ==   \* mutant: the downloads of the file are inserted at one position
  /\ AtEntry /\ InPass(handler.entries[handler.n])
  /\ AddDownload(handler.entries[handler.n], handler.at, Loading)
  /\ handler' = [handler EXCEPT !.n = @ + 1]
  /\ UNCHANGED <<queueLoaded, saved, unsaved>>
Enter ==
  /\ AtEntry /\ InPass(handler.entries[handler.n])
  /\ AddDownload(handler.entries[handler.n],
                 IF Loading THEN Len(downloads) ELSE handler.at, Loading)
  /\ handler' = [handler EXCEPT !.n = @ + 1, !.at = @ + 1]
  /\ UNCHANGED <<queueLoaded, saved, unsaved>>

EnterSkips ==
  /\ AtEntry /\ ~InPass(handler.entries[handler.n])
  /\ handler' = [handler EXCEPT !.n = @ + 1]
  /\ UNCHANGED <<downloads, status, place, markers, errors, storage>>

SecondPass ==
  /\ handler.kind = "entering" /\ handler.n > Len(handler.entries)
  /\ handler.pass = "files"
  /\ handler' = [handler EXCEPT !.n = 1, !.pass = "directories"]
  /\ UNCHANGED <<downloads, status, place, markers, errors, storage>>

EnterEnds ==
  /\ handler.kind = "entering" /\ handler.n > Len(handler.entries)
  /\ handler.pass # "files"
  /\ queueLoaded' = (queueLoaded \/ Loading)
  /\ unsaved' = (unsaved \/ Len(downloads) < Len(handler.before))
  /\ handler' = Idle
  /\ UNCHANGED <<downloads, status, place, markers, errors, queueChanged, saved>>

-----------------------------------------------------------------------------
(* Commands on several downloads.  Their identifiers come from a GUI and   *)
(* may be those of downloads that are gone.                                *)

Selections == {S \in SUBSET {d \in Downloads : status[d] # "unborn"} :
                 IsFiniteSet(S) /\ S # {} /\ Cardinality(S) <= MaxSelection}

(* removeDownloads, by identifiers or of all the complete ones.            *)
RemoveDownloads(selected) ==
  /\ MainIdle
  /\ handler' = [kind |-> "removing", position |-> 0, selected |-> selected \cap Queued,
                 before |-> downloads]
  /\ UNCHANGED <<downloads, status, place, markers, errors, storage>>
RemoveSome == \E S \in Selections : RemoveDownloads(S)
RemoveComplete == RemoveDownloads({d \in Downloads : status[d] = "complete"})

RemoveSkips ==
  /\ handler.kind = "removing" /\ handler.position < Len(downloads)
  /\ downloads[handler.position + 1] \notin handler.selected
  /\ handler' = [handler EXCEPT !.position = @ + 1]
  /\ UNCHANGED <<downloads, status, place, markers, errors, storage>>

RemoveOne ==
  LET d == downloads[handler.position + 1]
  IN /\ handler.kind = "removing" /\ handler.position < Len(downloads)
     /\ d \in handler.selected
     /\ downloads' = Removed(downloads, handler.position)
     /\ markers' = MarkersRemove(handler.position)
     /\ status' = [status EXCEPT ![d] = "deleted"]
     /\ ForgetErroneous(d)
     /\ UNCHANGED <<place, timer, storage, handler>>

RemoveEnds_Quietly ==   \* mutant: the result of removeDownloads is not used
  /\ handler.kind = "removing" /\ handler.position = Len(downloads)
  /\ handler' = Idle
  /\ UNCHANGED <<downloads, status, place, markers, errors, storage>>
RemoveEnds ==
  /\ handler.kind = "removing" /\ handler.position = Len(downloads)
  /\ queueChanged' = (queueChanged \/ Len(downloads) < Len(handler.before))
  /\ handler' = Idle
  /\ UNCHANGED <<downloads, status, place, markers, errors, queueLoaded, saved, unsaved>>

(* moveDownloads.  i, iRef, toMove and shift are the locals of the code; j *)
(* is the place in toMove of the download the inner loop is at, 0 outside. *)
(* The code takes the references met out of refs: left is what remains.    *)
(* An identifier in ids that is not in the queue is never met; one in refs *)
(* is, by being counted.                                                   *)
Move(ids, refs, after) ==
  /\ MainIdle
  /\ handler' = [kind |-> "moving", i |-> 0, iRef |-> -1, toMove |-> <<>>, j |-> 0,
                 shift |-> 0, ids |-> ids \cap Queued, refs |-> refs, left |-> refs, after |-> after,
                 ref |-> IF Cardinality(refs) = 1 THEN CHOOSE r \in refs : TRUE ELSE NoRef,
                 before |-> downloads]
  /\ UNCHANGED <<downloads, status, place, markers, errors, storage>>

AtTurn == handler.kind = "moving" /\ handler.j = 0 /\ handler.i < Len(downloads)

(* Past the reference: a selected download joins the others at once.       *)
MoveBack ==
  LET d == downloads[handler.i + 1]
      insertAt == IF handler.after THEN handler.iRef + 1 ELSE handler.iRef
  IN /\ AtTurn /\ d \in handler.ids /\ handler.iRef # -1
     /\ MoveOne(d, insertAt, handler.i + 1)
     /\ handler' = [handler EXCEPT !.i = @ + 1, !.iRef = @ + 1]
     /\ UNCHANGED <<status, place, errors, storage>>

(* The reference, when several are given: for BEFORE the first that is     *)
(* met, for AFTER the last of them once all the others were met.           *)
IsReference(d) ==
  \/ d = handler.ref
  \/ /\ handler.ref = NoRef /\ d \in handler.left
     /\ handler.after => handler.left = {d}

MoveLooks ==
  LET d == downloads[handler.i + 1]
      listed == IF d \in handler.ids THEN Append(handler.toMove, handler.i) ELSE handler.toMove
  IN /\ AtTurn /\ ~(d \in handler.ids /\ handler.iRef # -1)
     /\ IF IsReference(d)
        THEN handler' = [handler EXCEPT !.toMove = listed, !.ref = d, !.iRef = handler.i,
                                        !.j = 1, !.shift = 0]
        ELSE handler' = [handler EXCEPT !.toMove = listed, !.i = @ + 1,
                                        !.left = IF handler.ref = NoRef THEN @ \ {d} ELSE @]
     /\ UNCHANGED <<downloads, status, place, markers, errors, storage>>

AtShift == handler.kind = "moving" /\ handler.j \in 1..Len(handler.toMove)
RefStays == ~handler.after /\ handler.toMove[handler.j] = handler.iRef

(* At the reference: those met before it join it, one after the other.     *)
MoveForward_NoShift ==   \* mutant: the downloads already moved are not counted
  LET removeAt == handler.toMove[handler.j]
  IN /\ AtShift /\ ~RefStays
     /\ MoveOne(downloads[removeAt + 1],
                IF handler.after THEN handler.iRef + 1 ELSE handler.iRef, removeAt)
     /\ handler' = [handler EXCEPT !.j = @ + 1]
     /\ UNCHANGED <<status, place, errors, storage>>
MoveForward ==
  LET removeAt == handler.toMove[handler.j] + handler.shift
  IN /\ AtShift /\ ~RefStays
     /\ MoveOne(downloads[removeAt + 1],
                IF handler.after THEN handler.iRef + 1 ELSE handler.iRef, removeAt)
     /\ handler' = [handler EXCEPT !.j = @ + 1, !.shift = @ - 1]
     /\ UNCHANGED <<status, place, errors, storage>>

MoveKeepsRef ==
  /\ AtShift /\ RefStays
  /\ handler' = [handler EXCEPT !.j = @ + 1, !.iRef = @ + 1]
  /\ UNCHANGED <<downloads, status, place, markers, errors, storage>>

ShiftEnds ==
  /\ handler.kind = "moving" /\ handler.j > Len(handler.toMove)
  /\ handler' = [handler EXCEPT !.toMove = <<>>, !.j = 0, !.i = @ + 1]
  /\ UNCHANGED <<downloads, status, place, markers, errors, storage>>

MoveEnds ==
  /\ handler.kind = "moving" /\ handler.j = 0 /\ handler.i = Len(downloads)
  /\ queueChanged' = TRUE
  /\ handler' = Idle
  /\ UNCHANGED <<downloads, status, place, markers, errors, queueLoaded, saved, unsaved>>

-----------------------------------------------------------------------------
(* Scans, statuses, restart of the erroneous downloads.                    *)

(* A ScanningIterator of P is created and moves to the first download it   *)
(* returns; its marker goes along.                                         *)
Scan(P) ==
  LET from == IF P \in DOMAIN markers THEN markers[P] ELSE 0
      matches(p) == Satisfies(downloads[p + 1], status[downloads[p + 1]], P)
  IN /\ MayScan
     /\ \E to \in from..Len(downloads) :
          /\ \A p \in from..to - 1 : ~matches(p)
          /\ to < Len(downloads) => matches(to)
          /\ markers' = [Q \in DOMAIN markers \cup {P} |-> IF Q = P THEN to ELSE markers[Q]]
     /\ UNCHANGED <<downloads, status, place, errors, storage, handler>>

(* updateStatus and its like: transfers, peers and requests change the     *)
(* status of a download.                                                   *)
StatusChanges(d, st) ==
  /\ MayScan /\ d \in Queued
  /\ status[d] \in {"live", "erroneous"} /\ st \in Outcomes(d) \ {status[d]}
  /\ SetStatus(d, st)
  /\ UNCHANGED <<downloads, place, markers, storage, handler>>

(* pauseDownloads, or a hash received (newHashKnown): the queue is to be   *)
(* saved.  A paused download is not erroneous any more.                    *)
PauseOrHash(d) ==
  /\ MainIdle /\ d \in Queued \cap Files /\ status[d] \in {"live", "erroneous"}
  /\ \E st \in {"live", status[d]} : status' = [status EXCEPT ![d] = st]
  /\ queueChanged' = TRUE
  /\ UNCHANGED <<downloads, place, markers, errors, queueLoaded, saved, unsaved, handler>>

(* createFile gives the entry of a file its shared directory.              *)
FileCreated(d, p) ==
  /\ MayScan /\ d \in Queued \cap Files /\ place[d] = NoPlace
  /\ status[d] \in {"live", "erroneous"}
  /\ place' = [place EXCEPT ![d] = p]
  /\ UNCHANGED <<downloads, status, markers, errors, storage, handler>>

(* The file disappeared: reset() takes its shared directory away.          *)
FileReset(d) ==
  /\ MayScan /\ d \in Queued \cap Files /\ place[d] # NoPlace
  /\ status[d] \in {"live", "erroneous"}
  /\ place' = [place EXCEPT ![d] = NoPlace]
  /\ SetStatus(d, "erroneous")
  /\ UNCHANGED <<downloads, markers, storage, handler>>

(* restartErroneousDownloads: the timer is single shot.  A download that   *)
(* is still erroneous is started, the others leave the list.  Its status   *)
(* may stay (the list is then not told) or change and become erroneous     *)
(* again.                                                                  *)
Restart_Once(k) ==   \* mutant: the single shot timer is not started again
  /\ MainIdle /\ timer /\ k \in DOMAIN erroneous
  /\ status[erroneous[k]] = "erroneous"
  /\ \A l \in 1..k - 1 : status[erroneous[l]] # "erroneous"
  /\ \E st \in Outcomes(erroneous[k]) : status' = [status EXCEPT ![erroneous[k]] = st]
  /\ erroneous' = SubSeq(erroneous, k + 1, Len(erroneous))
  /\ timer' = FALSE
  /\ UNCHANGED <<downloads, place, markers, storage, handler>>
Restart(k) ==
  /\ MainIdle /\ timer /\ k \in DOMAIN erroneous
  /\ status[erroneous[k]] = "erroneous"
  /\ \A l \in 1..k - 1 : status[erroneous[l]] # "erroneous"
  /\ LET d    == erroneous[k]
         rest == SubSeq(erroneous, k + 1, Len(erroneous))
     IN \E st \in Outcomes(d) :
          /\ status' = [status EXCEPT ![d] = st]
          /\ \/ erroneous' = rest
             \/ st = "erroneous" /\ erroneous' = Append(rest, d)
  /\ UNCHANGED <<downloads, place, markers, timer, storage, handler>>

RestartNone ==
  /\ MainIdle /\ timer
  /\ \A k \in DOMAIN erroneous : status[erroneous[k]] # "erroneous"
  /\ erroneous' = <<>> /\ timer' = FALSE
  /\ UNCHANGED <<downloads, status, place, markers, storage, handler>>

-----------------------------------------------------------------------------
(* The queue file.                                                         *)

(* saveQueueToFile, called by a timer once the queue is loaded.            *)
Save ==
  /\ Persistent /\ MainIdle /\ queueLoaded /\ queueChanged
  /\ queueChanged' = FALSE
  /\ \/ saved' = Contents /\ unsaved' = FALSE
     \/ unsaved' = TRUE /\ UNCHANGED saved
  /\ UNCHANGED <<downloads, status, place, markers, errors, queueLoaded, handler>>

(* The program ends and is started again; ~DownloadManager saves the queue *)
(* unless it was not loaded yet.  A crash saves nothing.                   *)
StartAgain ==
  /\ Persistent
  /\ downloads' = <<>> /\ markers' = <<>> /\ erroneous' = <<>>
  /\ status' = [d \in Downloads |-> "unborn"]
  /\ place' = [d \in Downloads |-> NoPlace]
  /\ timer' = FALSE /\ handler' = Idle
  /\ queueLoaded' = FALSE /\ queueChanged' = FALSE /\ unsaved' = FALSE
Quit == StartAgain /\ MainIdle /\ saved' = IF queueLoaded THEN Contents ELSE saved
Crash == StartAgain /\ UNCHANGED saved

-----------------------------------------------------------------------------
Init ==
  /\ downloads = <<>> /\ markers = <<>> /\ erroneous = <<>> /\ saved = <<>>
  /\ status = [d \in Downloads |-> "unborn"]
  /\ place = [d \in Downloads |-> NoPlace]
  /\ timer = FALSE /\ handler = Idle
  /\ queueLoaded = FALSE /\ queueChanged = FALSE /\ unsaved = FALSE

Next ==
  \/ \E n \in Asked, p \in Destinations : UserAdds(n, p)
  \/ \E d \in Dirs : \E l \in Listings[NameOf[d]] : NewEntries(d, l)
  \/ LoadQueue \/ Enter \/ EnterSkips \/ SecondPass \/ EnterEnds
  \/ RemoveSome \/ RemoveComplete \/ RemoveSkips \/ RemoveOne \/ RemoveEnds
  \/ \E ids, refs \in Selections, after \in BOOLEAN : Move(ids, refs, after)
  \/ MoveBack \/ MoveLooks \/ MoveForward \/ MoveKeepsRef \/ ShiftEnds \/ MoveEnds
  \/ \E P \in Predicates : Scan(P)
  \/ \E d \in Downloads : PauseOrHash(d) \/ FileReset(d)
  \/ \E d \in Downloads, st \in {"live", "erroneous", "complete"} : StatusChanges(d, st)
  \/ \E d \in Downloads, p \in Places : FileCreated(d, p)
  \/ \E k \in 1..MaxListed : Restart(k)
  \/ RestartNone
  \/ Save \/ Quit \/ Crash

Spec == Init /\ [][Next]_vars
-----------------------------------------------------------------------------
(* Properties.                                                             *)

Names(s) == [i \in DOMAIN s |-> s[i].name]
Entries  == [name : {NameOf[d] : d \in Downloads}, place : Places \cup {NoPlace}]

Entering ==
  [kind : {"entering"}, pass : {"saved", "files", "directories"}, n : Nat \ {0}, at : Nat,
   entries : Seq(Entries), before : Seq(Downloads)]
Removing ==
  [kind : {"removing"}, position : Nat, selected : SUBSET Downloads, before : Seq(Downloads)]
Moving ==
  [kind : {"moving"}, i : Nat, iRef : Nat \cup {-1}, toMove : Seq(Nat), j : Nat, shift : Int,
   ids : SUBSET Downloads, refs : SUBSET Downloads, left : SUBSET Downloads, after : BOOLEAN,
   ref : Downloads \cup {NoRef}, before : Seq(Downloads)]
Handlers == {Idle} \cup Entering \cup Removing \cup Moving

(* The types; a marker is never beyond the end of the queue.               *)
TypeOK ==
  /\ downloads \in Seq(Downloads)
  /\ status \in [Downloads -> {"unborn", "live", "erroneous", "complete", "deleted"}]
  /\ place \in [Downloads -> Places \cup {NoPlace}]
  /\ DOMAIN markers \subseteq Predicates
  /\ \A P \in DOMAIN markers : markers[P] \in 0..Len(downloads)
  /\ erroneous \in Seq(Downloads)
  /\ {timer, queueLoaded, queueChanged, unsaved} \subseteq BOOLEAN
  /\ saved \in Seq(Entries)
  /\ handler \in Handlers

(* A scan starts at the marker of its predicate: nothing it looks for is   *)
(* before it, whatever was inserted, moved, removed or changed status, in  *)
(* the middle of a move too (ScanningIterator, updateMarkers...).          *)
MarkersSkipNothing ==
  \A P \in DOMAIN markers : \A p \in 0..markers[P] - 1 :
    ~Satisfies(downloads[p + 1], status[downloads[p + 1]], P)

(* A download in the list of the erroneous ones will be looked at: the     *)
(* timer of restartErroneousDownloads runs, though it is single shot and   *)
(* removals and restarts empty the list behind its back.                   *)
ListedIsTimed == erroneous # <<>> => timer

(* The file holds the queue unless queueChanged tells it does not, so that *)
(* a program killed between two saves only loses what came after the last  *)
(* one (setQueueChanged, "Called each time the queue is modified").  There *)
(* are two exceptions, noted in unsaved: a save that failed is not done    *)
(* again, and a directory that leaves the queue without one new child does *)
(* not set queueChanged.                                                   *)
SavedUnlessChanged ==
  queueLoaded /\ MainIdle /\ ~queueChanged /\ ~unsaved
    => Names(saved) = Names(Contents)

(* What was saved is what is reloaded (loadQueueFromFile): every name, and *)
(* in the same order unless a name was there twice.                        *)
ReloadRestores ==
  [][Loading /\ handler'.kind = "idle" /\ queueLoaded'
       /\ handler.before = <<>>
     => /\ ToSet(Names(Contents)) = ToSet(Names(saved))
        /\ Cardinality(ToSet(Names(saved))) = Len(saved) => Names(Contents) = Names(saved)]_vars

(* The command under way, for QueueOrder.                                  *)
Replaced == CHOOSE d \in ToSet(handler.before) : d \notin Queued
KnownChild ==
  \E i \in DOMAIN handler.entries :
    \/ \E d \in ToSet(handler.before) : handler.entries[i].name = NameOf[d]
    \/ \E k \in DOMAIN handler.entries \ {i} : handler.entries[i].name = handler.entries[k].name
Command ==
  CASE Loading -> [do |-> "load"]
    [] handler.kind = "entering" /\ ~Loading ->
         [do |-> "replace", directory |-> Replaced, known |-> KnownChild]
    [] handler.kind = "removing" -> [do |-> "remove", which |-> handler.selected]
    [] handler.kind = "moving" ->
         [do |-> "move", which |-> handler.ids, refs |-> handler.refs, after |-> handler.after]
    [] OTHER -> [do |-> "nothing"]

Order == INSTANCE QueueOrder WITH
  order <- IF MainIdle THEN downloads ELSE handler.before,
  command <- Command

(* The commands have the effect QueueOrder tells on the order of the       *)
(* downloads: a move, a removal, the children in place of their directory, *)
(* a reload, each of which is many steps of a loop here.                   *)
ImplementsOrder == Order!Spec
=============================================================================

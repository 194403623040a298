----------------------------- MODULE PeerSocket -----------------------------
(***************************************************************************)
(* The connections one core, the client, opens to another one, the server. *)
(* The client keeps a pool of them (ConnectionPool): a request takes the   *)
(* first socket that is not active, or a new one, and the socket becomes   *)
(* idle when the transaction is terminated.  Both ends of a connection are *)
(* a PeerMessageSocket, which answers the messages of the other end and    *)
(* judges by itself when a transaction is terminated.                      *)
(*                                                                         *)
(* There are three kinds of request: the entries of a directory (one       *)
(* answer), the hashes of a file (one answer, then NbHash hashes), a chunk *)
(* (one answer, then bytes that a worker of the server writes and a worker *)
(* of the client reads).  An action is a handler of one of the cores, run  *)
(* to its end; only the signal closed() is delivered later.  The messages  *)
(* of one direction stay in order, and a connection may break at any time. *)
(***************************************************************************)
EXTENDS Integers, Sequences, FiniteSets, SequencesExt, Filters

CONSTANTS
  EntriesRequests, HashesRequests, ChunkRequests,   \* each is sent once
  MaxSent,     \* bound: requests sent
  MaxSockets,  \* bound: connections that are made
  NbHash,      \* the hashes a request asks for
  MaxIdle,     \* setting "max_number_idle_socket"
  MaxFaults,   \* bound: timeouts, requests given up, breaks of the network
  NoRequest

Requests == EntriesRequests \cup HashesRequests \cup ChunkRequests
Sockets  == 1..MaxSockets
Sides    == {"client", "server"}

ASSUME RequestsAssumption ==
  /\ EntriesRequests \cap HashesRequests = {}
  /\ (EntriesRequests \cup HashesRequests) \cap ChunkRequests = {}
  /\ NoRequest \notin Requests
ASSUME BoundsAssumption ==
  MaxSent \in Nat /\ MaxSockets \in Nat /\ NbHash \in Nat \ {0} /\ MaxIdle \in Nat /\ MaxFaults \in Nat

VARIABLES
  request,   \* the client's requests: state, socket, hashes left, what answered
  opened,    \* the sockets 1..opened have been connected
  end,       \* for each side and socket: active, listening, nbHash
  pool,      \* for each side: socketsToPeer of the client, socketsFromPeer of the server
  closing,   \* for each side: sockets whose signal closed() is not delivered
  serving,   \* what the server's sockets still have to do
  wire,      \* for each side and socket: the messages on their way to it
  cut,       \* the connections the network has broken
  faults,    \* counts the faults, for the bound MaxFaults
  astray     \* history: sockets given back to the pool before the end of a
             \* transaction, or taken from it once they were closed

work == <<serving, wire, cut>>
ends == <<end, pool, closing>>
history == <<faults, astray>>
vars == <<request, opened, ends, work, history>>

NoWork   == [entries |-> NoRequest, hashes |-> <<>>, upload |-> NoRequest,
             written |-> FALSE, kept |-> {}]
NewEnd   == [active |-> TRUE, listening |-> TRUE, nbHash |-> 0]
Message(type, r) == [type |-> type, r |-> r]

(* The ends e of a side, but for the one of the socket s. *)
ClosedEnd(e)    == [e EXCEPT !.active = FALSE, !.listening = FALSE]
Awake(e, s)     == [e EXCEPT ![s] = [e[s] EXCEPT !.active = TRUE]]   \* setActive()
Deaf(e, s)      == [e EXCEPT ![s] = [e[s] EXCEPT !.listening = FALSE]]
Counts(e, s, n) == [e EXCEPT ![s] = [e[s] EXCEPT !.nbHash = n]]

(* The messages w on their way, but for those to s, which are q. *)
Puts(w, to, s, q) == [w EXCEPT ![to] = [w[to] EXCEPT ![s] = q]]

Fault == faults < MaxFaults /\ faults' = faults + 1

Pooled(side) == {pool[side][i] : i \in 1..Len(pool[side])}
Live(r)      == request[r].st \in {"asked", "streaming"}
HeldBy(s)    == {r \in Requests : Live(r) /\ request[r].socket = s}

(* The requests of a kind whose newMessage() is connected to the socket s. *)
Waiting(s, kind) == {r \in HeldBy(s) \cap kind : request[r].st = "asked"}

(* A socket lives as long as a pool, a request or an upload holds it.      *)
Gone(side, s) ==
  /\ s <= opened /\ s \notin Pooled(side)
  /\ IF side = "client" THEN HeldBy(s) = {}
     ELSE serving[s].upload = NoRequest /\ serving[s].kept = {}
Broken(s) == s \in cut \/ \E side \in Sides : Gone(side, s)

-----------------------------------------------------------------------------
(* The methods of a socket.                                                *)

(* send(): dropped by a socket that does not listen, lost when broken.     *)
Sent(to, listening, s, message) ==
  IF listening /\ ~Broken(s) THEN Puts(wire, to, s, Append(wire[to][s], message)) ELSE wire

(* The ends of a side are e, and close() is called for those of S: it only *)
(* emits closed().                                                         *)
Becomes(side, e, S) ==
  /\ end' = [end EXCEPT ![side] = [s \in Sockets |-> IF s \in S THEN ClosedEnd(e[s]) ELSE e[s]]]
  /\ closing' = [closing EXCEPT ![side] = @ \cup (S \cap Pooled(side))]

(* socketBecomeIdle(): the sockets that are not active, but the first ones.*)
Idle(side, e) == Only(pool[side], {s \in Sockets : ~e[s].active})
Surplus(side, e) == {Idle(side, e)[i] : i \in MaxIdle + 1..Len(Idle(side, e))}

(* finished(close).  A broken connection may not be known as such yet.     *)
Finish(side, e, s, close) ==
  LET idle == [e EXCEPT ![s] = [e[s] EXCEPT !.active = FALSE, !.listening = TRUE]]
  IN IF ~e[s].active THEN Becomes(side, e, {})
     ELSE \/ (close \/ Broken(s)) /\ Becomes(side, e, {s})
          \/ ~close /\ Becomes(side, idle, IF s \in Pooled(side) THEN Surplus(side, idle) ELSE {})

Woken(side, s) == Awake(end[side], s)

-----------------------------------------------------------------------------
(* The requests of the client.                                             *)

Type(r) == CASE r \in EntriesRequests -> "GET_ENTRIES"
             [] r \in HashesRequests -> "GET_HASHES"
             [] r \in ChunkRequests -> "GET_CHUNK"

MayAsk(r) == request[r].st = "new" /\ Cardinality({q \in Requests : request[q].st # "new"}) < MaxSent
Asked(s, r) == [st |-> "asked", socket |-> s, left |-> NbHash, answer |-> NoRequest]

(* getASocket() takes the first socket that is not active, though it may   *)
(* have been closed and be about to leave the pool; start() sends.         *)
AskReuses_Any(r) ==   \* mutant: the first socket, active or not
  /\ MayAsk(r) /\ pool["client"] # <<>>
  /\ LET s == Head(pool["client"])
     IN /\ request' = [request EXCEPT ![r] = Asked(s, r)]
        /\ end' = [end EXCEPT !["client"] = Woken("client", s)]
        /\ wire' = Sent("server", end["client"][s].listening, s, Message(Type(r), r))
  /\ UNCHANGED <<opened, pool, closing, serving, cut, history>>
AskReuses(r) ==
  /\ MayAsk(r) /\ Idle("client", end["client"]) # <<>>
  /\ LET s == Head(Idle("client", end["client"]))
     IN /\ request' = [request EXCEPT ![r] = Asked(s, r)]
        /\ end' = [end EXCEPT !["client"] = Woken("client", s)]
        /\ wire' = Sent("server", end["client"][s].listening, s, Message(Type(r), r))
        /\ astray' = IF end["client"][s].listening THEN astray ELSE astray \cup {s}
  /\ UNCHANGED <<opened, pool, closing, serving, cut, faults>>

AskConnects_Kept(r) ==   \* mutant: the pool takes the socket at each request
  /\ MayAsk(r) /\ opened < MaxSockets
  /\ LET s == opened + 1
     IN /\ request' = [request EXCEPT ![r] = Asked(s, r)]
        /\ opened' = s
        /\ end' = [side \in Sides |-> [end[side] EXCEPT ![s] = NewEnd]]
        /\ pool' = [side \in Sides |-> pool[side] \o <<s, s>>]
        /\ wire' = Puts(wire, "server", s, <<Message(Type(r), r)>>)
  /\ UNCHANGED <<closing, serving, cut, history>>
AskConnects(r) ==
  /\ MayAsk(r) /\ Idle("client", end["client"]) = <<>> /\ opened < MaxSockets
  /\ LET s == opened + 1
     IN /\ request' = [request EXCEPT ![r] = Asked(s, r)]
        /\ opened' = s
        /\ end' = [side \in Sides |-> [end[side] EXCEPT ![s] = NewEnd]]
        /\ pool' = [side \in Sides |-> Append(pool[side], s)]
        /\ wire' = Puts(wire, "server", s, <<Message(Type(r), r)>>)
  /\ UNCHANGED <<closing, serving, cut, history>>

(* doDeleteLater(): the request is done with its socket.                   *)
Release(r, e, close) ==
  /\ request' = [request EXCEPT ![r] = [request[r] EXCEPT !.st = "done"]]
  /\ Finish("client", e, request[r].socket, close)

(* The timeout of the request of a chunk closes the socket.                *)
ChunkTimeout(r) ==
  /\ Fault
  /\ r \in ChunkRequests /\ request[r].st = "asked"
  /\ Release(r, end["client"], TRUE)
  /\ UNCHANGED <<opened, pool, work, astray>>

(* The other timeouts do not, nor the stop of a chunk that waits for its   *)
(* answer, nor a pause or removal: the answer may still come.              *)
GiveUp(r) ==
  /\ Fault
  /\ request[r].st = "asked"
  /\ Release(r, end["client"], FALSE)
  /\ astray' = astray \cup {request[r].socket}
  /\ UNCHANGED <<opened, pool, work>>

-----------------------------------------------------------------------------
(* The messages the client reads.  onNewMessage(), of the socket, may      *)
(* finish the transaction before the request connected to it sees the      *)
(* message and is done.                                                    *)

Reads(side, s, type) ==
  /\ s <= opened /\ end[side][s].listening /\ ~Gone(side, s)
  /\ wire[side][s] # <<>> /\ Head(wire[side][s]).type = type
Taken(side, s) == Puts(wire, side, s, Tail(wire[side][s]))
Done(R, m) ==
  request' = [r \in Requests |-> IF r \notin R THEN request[r]
                                ELSE [request[r] EXCEPT !.st = "done", !.answer = m.r]]

ReadEntries(s) ==
  /\ Reads("client", s, "ENTRIES")
  /\ Finish("client", Woken("client", s), s, FALSE)
  /\ Done(Waiting(s, EntriesRequests), Head(wire["client"][s]))
  /\ wire' = Taken("client", s)
  /\ UNCHANGED <<opened, pool, serving, cut, history>>

ReadHashes(s) ==
  /\ Reads("client", s, "HASHES")
  /\ Becomes("client", Counts(Woken("client", s), s, NbHash), {})
  /\ wire' = Taken("client", s)
  /\ UNCHANGED <<request, opened, pool, serving, cut, history>>

ReadNoHashes(s) ==
  /\ Reads("client", s, "NO_HASHES")
  /\ LET e == Counts(Woken("client", s), s, 0)
         R == Waiting(s, HashesRequests)
     IN /\ Done(R, Head(wire["client"][s]))
        /\ IF R = {} THEN Becomes("client", e, {}) ELSE Finish("client", e, s, FALSE)
  /\ wire' = Taken("client", s)
  /\ UNCHANGED <<opened, pool, serving, cut, history>>

ReadHash(s) ==
  /\ Reads("client", s, "HASH")
  /\ LET e == Counts(Woken("client", s), s, end["client"][s].nbHash - 1)
         R == Waiting(s, HashesRequests)
         last == {r \in R : request[r].left = 1}
     IN /\ request' = [r \in Requests |->
              IF r \notin R THEN request[r]
              ELSE [request[r] EXCEPT !.left = @ - 1, !.answer = Head(wire["client"][s]).r,
                                      !.st = IF r \in last THEN "done" ELSE @]]
        /\ IF e[s].nbHash = 0 \/ last # {}
           THEN Finish("client", e, s, FALSE) ELSE Becomes("client", e, {})
  /\ wire' = Taken("client", s)
  /\ UNCHANGED <<opened, pool, serving, cut, history>>

(* The answer OK: the socket is given to a worker.                         *)
ReadChunk_Hears(s) ==   \* mutant: stopListening() is forgotten
  /\ Reads("client", s, "CHUNK")
  /\ request' = [r \in Requests |-> IF r \notin Waiting(s, ChunkRequests) THEN request[r]
       ELSE [request[r] EXCEPT !.st = "streaming", !.answer = Head(wire["client"][s]).r]]
  /\ Becomes("client", Woken("client", s), {})
  /\ wire' = Taken("client", s)
  /\ UNCHANGED <<opened, pool, serving, cut, history>>
ReadChunk(s) ==
  /\ Reads("client", s, "CHUNK")
  /\ LET R == Waiting(s, ChunkRequests)
         e == Woken("client", s)
     IN /\ request' = [r \in Requests |-> IF r \notin R THEN request[r]
              ELSE [request[r] EXCEPT !.st = "streaming", !.answer = Head(wire["client"][s]).r]]
        /\ Becomes("client", IF R = {} THEN e ELSE Deaf(e, s), {})
  /\ wire' = Taken("client", s)
  /\ UNCHANGED <<opened, pool, serving, cut, history>>

ReadNoChunk(s) ==
  /\ Reads("client", s, "NO_CHUNK")
  /\ LET R == Waiting(s, ChunkRequests)
         e == Woken("client", s)
     IN /\ Done(R, Head(wire["client"][s]))
        /\ IF R = {} THEN Becomes("client", e, {}) ELSE Finish("client", e, s, FALSE)
  /\ wire' = Taken("client", s)
  /\ UNCHANGED <<opened, pool, serving, cut, history>>

(* Bytes of a chunk read as a message: the sender's ID is wrong, close.    *)
ReadGarbage(s) ==
  /\ Reads("client", s, "DATA")
  /\ cut' = cut \cup {s}
  /\ wire' = [side \in Sides |-> [wire[side] EXCEPT ![s] = <<>>]]
  /\ Becomes("client", Woken("client", s), {s})
  /\ UNCHANGED <<request, opened, pool, serving, history>>

(* The worker of the client: all of the chunk is read.                     *)
StreamEnds(r) ==
  /\ request[r].st = "streaming"
  /\ LET s == request[r].socket
     IN /\ wire["client"][s] # <<>> /\ Head(wire["client"][s]).type = "DATA"
        /\ Release(r, end["client"], FALSE)
        /\ wire' = Taken("client", s)
  /\ UNCHANGED <<opened, pool, serving, cut, history>>

(* It is stopped, or fails: some bytes would still come, so it closes.     *)
StreamAborts_Kept(r) ==   \* mutant: closeTheSocket is not set
  /\ request[r].st = "streaming"
  /\ Release(r, end["client"], FALSE)
  /\ UNCHANGED <<opened, pool, work, history>>
StreamAborts(r) ==
  /\ request[r].st = "streaming"
  /\ Release(r, end["client"], TRUE)
  /\ UNCHANGED <<opened, pool, work, history>>

-----------------------------------------------------------------------------
(* What happens to the sockets of both sides.                              *)

(* socketClosed(), the delivery of closed().                               *)
LeavesPool(side, s) ==
  /\ s \in closing[side]
  /\ closing' = [closing EXCEPT ![side] = @ \ {s}]
  /\ pool' = [pool EXCEPT ![side] = Only(@, Sockets \ {s})]
  /\ UNCHANGED <<request, opened, end, work, history>>

(* The timer of inactivity, longer than the timeouts of the requests.      *)
Inactive(side, s) ==
  /\ Fault
  /\ s \in Pooled(side) \ closing[side]
  /\ side = "client" => \A r \in HeldBy(s) : request[r].st = "streaming"
  /\ Becomes(side, end[side], {s})
  /\ UNCHANGED <<request, opened, pool, work, astray>>

(* Peer::timeout of the server: closeAllSocket().                          *)
PeerTimeout ==
  /\ Fault
  /\ pool["client"] # <<>>
  /\ Becomes("client", end["client"], Pooled("client"))
  /\ UNCHANGED <<request, opened, pool, work, astray>>

(* The end hears that the connection is broken, once all is read.          *)
Disconnected(side, s) ==
  /\ s <= opened /\ Broken(s) /\ ~Gone(side, s)
  /\ end[side][s].listening /\ wire[side][s] = <<>>
  /\ Becomes(side, end[side], {s})
  /\ UNCHANGED <<request, opened, pool, work, history>>

NetworkBreaks(s) ==
  /\ Fault
  /\ s <= opened /\ ~Broken(s)
  /\ cut' = cut \cup {s}
  /\ wire' = [side \in Sides |-> [wire[side] EXCEPT ![s] = <<>>]]
  /\ UNCHANGED <<request, opened, ends, serving, astray>>

-----------------------------------------------------------------------------
(* The server.                                                             *)

(* The scan of the directory is asked, unless another is under way.        *)
ServesEntries(s) ==
  /\ Reads("server", s, "GET_ENTRIES")
  /\ serving' = IF serving[s].entries # NoRequest THEN serving
                ELSE [serving EXCEPT ![s] = [serving[s] EXCEPT !.entries = Head(wire["server"][s]).r]]
  /\ Becomes("server", Woken("server", s), {})
  /\ wire' = Taken("server", s)
  /\ UNCHANGED <<request, opened, pool, cut, history>>

(* Every message sent sets the socket as active.                           *)
Active(e, s) == IF e[s].listening THEN Awake(e, s) ELSE e

EntriesReady(s) ==
  /\ serving[s].entries # NoRequest /\ ~Gone("server", s)
  /\ wire' = Sent("client", end["server"][s].listening, s, Message("ENTRIES", serving[s].entries))
  /\ serving' = [serving EXCEPT ![s] = [serving[s] EXCEPT !.entries = NoRequest]]
  /\ Finish("server", Active(end["server"], s), s, FALSE)
  /\ UNCHANGED <<request, opened, pool, cut, history>>

(* The message read is answered at once. *)
Answered(s, m) ==
  Puts(Taken("server", s), "client", s,
       IF Broken(s) THEN wire["client"][s] ELSE Append(wire["client"][s], m))

(* The calls of nextAskedHash() the file manager has posted. *)
Posted(s, hashes) == serving' = [serving EXCEPT ![s] = [serving[s] EXCEPT !.hashes = hashes]]

(* The hashes of an earlier request that are already posted stay posted.   *)
ServesHashes_Less(s) ==   \* mutant: the count leaves one hash out
  /\ Reads("server", s, "GET_HASHES")
  /\ LET r == Head(wire["server"][s]).r
     IN /\ serving' = [serving EXCEPT ![s].hashes = [i \in 1..NbHash |-> r]]
        /\ Becomes("server", Counts(Woken("server", s), s, NbHash - 1), {})
        /\ wire' = Answered(s, Message("HASHES", r))
  /\ UNCHANGED <<request, opened, pool, cut, history>>
ServesHashes(s) ==
  /\ Reads("server", s, "GET_HASHES")
  /\ LET r == Head(wire["server"][s]).r
     IN /\ \E k \in 0..Len(serving[s].hashes) :
             Posted(s, SubSeq(serving[s].hashes, 1, k) \o [i \in 1..NbHash |-> r])
        /\ Becomes("server", Counts(Woken("server", s), s, NbHash), {})
        /\ wire' = Answered(s, Message("HASHES", r))
  /\ UNCHANGED <<request, opened, pool, cut, history>>

RefusesHashes(s) ==
  /\ Reads("server", s, "GET_HASHES")
  /\ LET r == Head(wire["server"][s]).r
     IN /\ \E k \in 0..Len(serving[s].hashes) :
             Posted(s, SubSeq(serving[s].hashes, 1, k))
        /\ Finish("server", Counts(Woken("server", s), s, 0), s, FALSE)
        /\ wire' = Answered(s, Message("NO_HASHES", r))
  /\ UNCHANGED <<request, opened, pool, cut, history>>

(* nextAskedHash(), posted by the file manager.                            *)
NextAskedHash(s) ==
  /\ serving[s].hashes # <<>> /\ ~Gone("server", s)
  /\ LET e == Counts(Active(end["server"], s), s, end["server"][s].nbHash - 1)
         last == e[s].nbHash = 0
     IN /\ wire' = Sent("client", end["server"][s].listening, s,
                        Message("HASH", Head(serving[s].hashes)))
        /\ IF last THEN Finish("server", e, s, FALSE) ELSE Becomes("server", e, {})
        /\ \E k \in 1..Len(serving[s].hashes) :   \* what is posted at the last one
             /\ ~last => k = Len(serving[s].hashes)
             /\ Posted(s, SubSeq(serving[s].hashes, 2, k))
  /\ UNCHANGED <<request, opened, pool, cut, history>>

(* GET_CHUNK: the upload starts if the socket is still in the pool.        *)
ServesChunk(s) ==
  /\ Reads("server", s, "GET_CHUNK")
  /\ LET r == Head(wire["server"][s]).r
     IN /\ wire' = Answered(s, Message("CHUNK", r))
        /\ Becomes("server", Deaf(Woken("server", s), s), {})
        /\ serving' = IF s \notin Pooled("server") THEN serving
                      ELSE [serving EXCEPT ![s] = [serving[s] EXCEPT !.upload = r, !.written = FALSE]]
  /\ UNCHANGED <<request, opened, pool, cut, history>>

RefusesChunk(s) ==
  /\ Reads("server", s, "GET_CHUNK")
  /\ wire' = Answered(s, Message("NO_CHUNK", Head(wire["server"][s]).r))
  /\ Finish("server", Woken("server", s), s, FALSE)
  /\ UNCHANGED <<request, opened, pool, serving, cut, history>>

(* The worker of the upload writes the bytes, whatever the socket became.  *)
UploadWrites(s) ==
  /\ serving[s].upload # NoRequest /\ ~serving[s].written
  /\ wire' = Sent("client", TRUE, s, Message("DATA", serving[s].upload))
  /\ serving' = [serving EXCEPT ![s] = [serving[s] EXCEPT !.written = TRUE]]
  /\ UNCHANGED <<request, opened, ends, cut, history>>

(* finished(), posted at its end: the upload is kept until its timer.      *)
UploadEnds(s, close) ==
  /\ serving[s].upload # NoRequest
  /\ serving[s].written \/ close   \* a failure closes the socket
  /\ serving' = [serving EXCEPT ![s] =
       [serving[s] EXCEPT !.upload = NoRequest, !.kept = @ \cup {serving[s].upload}]]
  /\ Finish("server", end["server"], s, close)
  /\ UNCHANGED <<request, opened, pool, wire, cut, history>>

UploadTimeout(s, r) ==
  /\ r \in serving[s].kept
  /\ serving' = [serving EXCEPT ![s] = [serving[s] EXCEPT !.kept = @ \ {r}]]
  /\ UNCHANGED <<request, opened, ends, wire, cut, history>>

-----------------------------------------------------------------------------
Init ==
  /\ request = [r \in Requests |-> [st |-> "new", socket |-> 0, left |-> 0, answer |-> NoRequest]]
  /\ opened = 0 /\ faults = 0 /\ cut = {} /\ astray = {}
  /\ end = [side \in Sides |-> [s \in Sockets |-> ClosedEnd(NewEnd)]]
  /\ pool = [side \in Sides |-> <<>>]
  /\ closing = [side \in Sides |-> {}]
  /\ serving = [s \in Sockets |-> NoWork]
  /\ wire = [side \in Sides |-> [s \in Sockets |-> <<>>]]

ClientStep ==
  \/ \E r \in Requests : \/ AskReuses(r) \/ AskConnects(r) \/ ChunkTimeout(r) \/ GiveUp(r)
                         \/ StreamEnds(r) \/ StreamAborts(r)
  \/ \E s \in Sockets : \/ ReadEntries(s) \/ ReadHashes(s) \/ ReadNoHashes(s) \/ ReadHash(s)
                        \/ ReadChunk(s) \/ ReadNoChunk(s) \/ ReadGarbage(s)
  \/ PeerTimeout
ServerStep ==
  \E s \in Sockets :
    \/ ServesEntries(s) \/ EntriesReady(s) \/ ServesHashes(s) \/ RefusesHashes(s)
    \/ NextAskedHash(s) \/ ServesChunk(s) \/ RefusesChunk(s) \/ UploadWrites(s)
    \/ \E close \in BOOLEAN : UploadEnds(s, close)
    \/ \E r \in ChunkRequests : UploadTimeout(s, r)
SocketStep ==
  \E s \in Sockets :
    \/ NetworkBreaks(s)
    \/ \E side \in Sides : LeavesPool(side, s) \/ Inactive(side, s) \/ Disconnected(side, s)

Next == ClientStep \/ ServerStep \/ SocketStep
Spec == Init /\ [][Next]_vars

-----------------------------------------------------------------------------
(* Properties.                                                             *)

Ends     == [active : BOOLEAN, listening : BOOLEAN, nbHash : Int]
States   == [st : {"new", "asked", "streaming", "done"}, socket : Nat, left : 0..NbHash,
             answer : Requests \cup {NoRequest}]
Works    == [entries : EntriesRequests \cup {NoRequest}, hashes : Seq(HashesRequests),
             upload : ChunkRequests \cup {NoRequest}, written : BOOLEAN, kept : SUBSET ChunkRequests]
Messages == [type : {"GET_ENTRIES", "ENTRIES"}, r : EntriesRequests]
              \cup [type : {"GET_HASHES", "HASHES", "NO_HASHES", "HASH"}, r : HashesRequests]
              \cup [type : {"GET_CHUNK", "CHUNK", "NO_CHUNK", "DATA"}, r : ChunkRequests]

(* Every variable has its type; a pool holds a socket once, and at most    *)
(* MaxIdle of its sockets could be used again.                             *)
TypeOK ==
  /\ request \in [Requests -> States] /\ \A r \in Requests : request[r].socket <= opened
  /\ opened \in 0..MaxSockets /\ faults \in 0..MaxFaults
  /\ cut \subseteq 1..opened /\ astray \subseteq 1..opened
  /\ serving \in [Sockets -> Works]
  /\ end \in [Sides -> [Sockets -> Ends]] /\ wire \in [Sides -> [Sockets -> Seq(Messages)]]
  /\ pool \in [Sides -> Seq(Sockets)] /\ closing \in [Sides -> SUBSET Sockets]
  /\ \A side \in Sides :
       /\ closing[side] \subseteq Pooled(side) /\ Pooled(side) \subseteq 1..opened
       /\ \A i, j \in 1..Len(pool[side]) : pool[side][i] = pool[side][j] => i = j
       /\ Cardinality({s \in Pooled(side) : ~end[side][s].active /\ end[side][s].listening}) <= MaxIdle

(* A socket carries one request of the client at a time: the pool never    *)
(* gives a socket whose transaction is under way.                          *)
OneRequestPerSocket ==
  \A s \in Sockets \ astray : Cardinality(HeldBy(s)) <= 1

(* What comes to a socket that is used or may be used again, and what the  *)
(* server prepares for it, answers the request that holds the socket now.  *)
AnswersAwaited ==
  \A s \in Sockets \ astray :
    end["client"][s].listening \/ HeldBy(s) # {} =>
      /\ \A i \in 1..Len(wire["client"][s]) : wire["client"][s][i].r \in HeldBy(s)
      /\ ~Broken(s) => {serving[s].entries} \cup ToSet(serving[s].hashes)
                          \subseteq HeldBy(s) \cup {NoRequest}

(* The bytes of a chunk and the messages never mix: the client does not    *)
(* read bytes as a message, the server sends no message during an upload.  *)
StreamsApart ==
  \A s \in Sockets \ astray :
    /\ end["client"][s].listening /\ wire["client"][s] # <<>> =>
         Head(wire["client"][s]).type # "DATA"
    /\ serving[s].upload # NoRequest => ~end["server"][s].listening

(* While a request waits for the hashes of a file, those under way and     *)
(* those the server will send are the ones it misses: neither count, of    *)
(* the client or of the server, ends the transaction too early.            *)
HashesConserved ==
  \A r \in HashesRequests : Live(r) /\ request[r].socket \notin astray =>
    LET s == request[r].socket
        sent == {i \in 1..Len(wire["client"][s]) : wire["client"][s][i].type = "HASH"}
    IN /\ end["client"][s].listening => end["client"][s].active
       /\ \/ Broken(s) \/ ~end["server"][s].listening \/ wire["server"][s] # <<>>
          \/ Message("NO_HASHES", r) \in ToSet(wire["client"][s])
          \/ Cardinality(sent) + Len(serving[s].hashes) = request[r].left
=============================================================================

--------------------------------- MODULE Chat ---------------------------------
(***************************************************************************)
(* The chat of the peers (ChatSystem, ChatMessages): a message is sent     *)
(* once to everybody by UDP, what was lost is got back by asking a random  *)
(* peer for its last messages, and each peer saves its lists.  A datagram  *)
(* may be lost, duplicated or received after those sent later.             *)
(***************************************************************************)
EXTENDS Integers, Sequences, FiniteSets, FiniteSetsExt, SequencesExt, Filters

CONSTANTS
  Peers,
  Main,         \* the chat without a room
  Rooms,
  Limits,       \* the values of max_number_of_stored_chat_messages
  Number,       \* number_of_chat_messages_to_retrieve
  Fit,          \* messages that fit in a datagram
  DiskMayFill,  \* less than 20 MB may be free when messages are saved
  NbMessages,   \* bound: the messages sent, by all the peers
  MaxTime,      \* bound: the clock of a peer shows any of 1..MaxTime
  MaxDatagrams, \* bound: datagrams under way beyond which only answers are sent
  MaxEvents,    \* bound: rooms joined or left, failed saves and stops of a core, in all
  Savers        \* bound: the peers whose core saves its lists and may stop

ASSUME ChatAssumption ==
  /\ Main \notin Rooms /\ Savers \subseteq Peers
  /\ Limits \subseteq Nat \ {0} /\ Number \in Nat \ {0} /\ Fit \in Nat \ {0}
  /\ NbMessages \in Nat /\ MaxTime \in Nat /\ MaxEvents \in Nat

VARIABLES
  limit,    \* MAX_NUMBER_OF_STORED_CHAT_MESSAGES
  data,     \* ChatMessagesData of each peer and chat
  joined, members,   \* of each peer: the rooms it is in; the peers it knows in each room
  running,  \* the peers whose core runs
  file, settings,    \* on the disk of each peer: its messages; joined_chat_rooms
  net,      \* the datagrams under way
  sent, events       \* history: messages sent; what MaxEvents bounds

vars == <<limit, data, joined, members, running, file, settings, net, sent, events>>

Chats == Rooms \cup {Main}
Times == 1..MaxTime
NotSet == 0
NoData == [messages |-> <<>>, messageIDs |-> {}, changed |-> FALSE]
IDsOf(list) == {m.id : m \in ToSet(list)}
LastOf(list, n) == SubSeq(list, Max({1, Len(list) - n + 1}), Len(list))

-----------------------------------------------------------------------------
(* ChatMessages.                                                           *)

(* The ChatMessage made from a received one has the time of its receiver   *)
(* if it has none.                                                         *)
Timed(batch, t) == [i \in DOMAIN batch |-> IF batch[i].time = NotSet THEN [batch[i] EXCEPT !.time = t] ELSE batch[i]]

(* insert(): from the last of the batch to the first, j going back only;   *)
(* then the oldest beyond the limit are erased.                            *)
Placed(m, acc) ==
  LET j == Max({0} \cup {k \in 1..acc.j : acc.list[k].time <= m.time})
  IN CASE m.id \in acc.ids -> acc
       [] m.id \notin acc.ids /\ Len(acc.list) = limit /\ j = 0 -> [acc EXCEPT !.j = 0]
       [] OTHER -> [list |-> InsertAt(acc.list, j + 1, m), ids |-> acc.ids \cup {m.id}, j |-> j, inserted |-> TRUE]
(* The list, its IDs and j after the last k messages of the batch.         *)
Placing(d, batch) ==
  LET placed[k \in 0..Len(batch)] ==
        IF k = 0
        THEN [list |-> d.messages, ids |-> d.messageIDs, j |-> Len(d.messages), inserted |-> FALSE]
        ELSE Placed(batch[Len(batch) - k + 1], placed[k - 1])
  IN placed
Insert_KeepsIDs(d, batch) ==   \* mutant: the IDs of the erased stay
  LET end == Placing(d, batch)[Len(batch)]
  IN [messages |-> LastOf(end.list, limit), messageIDs |-> end.ids, changed |-> d.changed \/ end.inserted]
Insert(d, batch) ==
  LET end == Placing(d, batch)[Len(batch)]
      kept == LastOf(end.list, limit)
      erased == SubSeq(end.list, 1, Len(end.list) - Len(kept))
  IN [messages |-> kept, messageIDs |-> end.ids \ IDsOf(erased), changed |-> d.changed \/ end.inserted]

(* getUnknownMessages(): of the last ones, those not known, oldest first.  *)
Unknown(d, known) ==
  LET last == LastOf(d.messages, Number)
  IN Only(last, {m \in ToSet(last) : m.id \notin known})

(* saveToFile(): what a save leaves in the data and on the disk.  Nothing  *)
(* is written, and nothing says so, when the disk is nearly full.          *)
Outcomes == {"written", "failed"} \cup IF DiskMayFill THEN {"skipped"} ELSE {}
Saved_Forgets(d, outcome) == [d EXCEPT !.changed = FALSE]   \* mutant: cleared whatever happens
Saved(d, outcome) == [d EXCEPT !.changed = @ /\ outcome = "failed"]
Written(old, d, outcome) == IF d.changed /\ outcome = "written" THEN d.messages ELSE old

(* loadFromFile().                                                         *)
Loaded(d, saved) == IF saved = <<>> THEN d ELSE [Insert(d, saved) EXCEPT !.changed = FALSE]

-----------------------------------------------------------------------------
(* Datagrams.                                                              *)

GetLast(p, q, c, known)   == [type |-> "get", from |-> p, to |-> q, chat |-> c, ids |-> known, list |-> <<>>]
ChatMessages(p, q, c, ms) == [type |-> "messages", from |-> p, to |-> q, chat |-> c, ids |-> {}, list |-> ms]

Event == events < MaxEvents /\ events' = events + 1
Sends(new) == Cardinality(net) < MaxDatagrams /\ net' = net \cup new
(* A datagram is received, and others are sent; the network may have a     *)
(* copy of that one.                                                       *)
Receives(d, new) ==
  \/ net' = (net \ {d}) \cup new /\ UNCHANGED events
  \/ net' = net \cup new /\ Event

(* The answer is cut at what fits in a datagram.                           *)
Answer_RoomsOnly(p, d) ==   \* mutant: no room of that name, no answer
  LET ms == Unknown(data[p][d.chat], d.ids)
  IN IF d.chat = Main THEN {}
     ELSE {ChatMessages(p, d.from, d.chat, SubSeq(ms, i, Min({i + Fit - 1, Len(ms)}))) :
             i \in {k \in 1..Len(ms) : (k - 1) % Fit = 0}}
Answer(p, d) ==
  LET ms == Unknown(data[p][d.chat], d.ids)
  IN {ChatMessages(p, d.from, d.chat, SubSeq(ms, i, Min({i + Fit - 1, Len(ms)}))) :
        i \in {k \in 1..Len(ms) : (k - 1) % Fit = 0}}

(* The requests for a choice of peers; the messages said to be known are   *)
(* those of the main chat whatever the chat.                               *)
Requests(p, asked) ==
  {GetLast(p, asked[c], c, IDsOf(LastOf(data[p][Main].messages, Number))) : c \in DOMAIN asked}
RandomPeers(p, chats) ==
  {asked \in [chats -> Peers \ {p}] : \A c \in chats \ {Main} : asked[c] \in members[p][c]}

-----------------------------------------------------------------------------
(* ChatSystem.                                                             *)

(* send(): the message is in the sender's list whatever becomes of it; its *)
(* time is left to each receiver.                                          *)
Send(p, c, t) ==
  LET m == [id |-> sent + 1, time |-> t]
  IN /\ p \in running /\ sent < NbMessages /\ sent' = sent + 1
     /\ data' = [data EXCEPT ![p][c] = Insert(@, <<m>>)]
     /\ Sends({ChatMessages(p, q, c, <<[m EXCEPT !.time = NotSet]>>) : q \in Peers \ {p}})
     /\ UNCHANGED <<limit, joined, members, running, file, settings, events>>

(* received(): messages, of the main chat or of a room joined.             *)
ReceiveMessages(d, t) ==
  /\ d.type = "messages" /\ d.to \in running
  /\ data' = IF d.chat \in joined[d.to] \cup {Main}
             THEN [data EXCEPT ![d.to][d.chat] = Insert(@, Timed(d.list, t))] ELSE data
  /\ Receives(d, {})
  /\ UNCHANGED <<limit, joined, members, running, file, settings, sent>>
ReceiveGetLast(d) ==
  /\ d.type = "get" /\ d.to \in running
  /\ Receives(d, Answer(d.to, d))
  /\ UNCHANGED <<limit, data, joined, members, running, file, settings, sent>>
Lose(d) ==
  /\ net' = net \ {d}
  /\ UNCHANGED <<limit, data, joined, members, running, file, settings, sent, events>>

(* received(): the rooms of q in its IMAlive.  A room without peers is     *)
(* forgotten with its messages unless it is joined.                        *)
HearIMAlive(p, q) ==
  LET known == [r \in Rooms |-> IF r \in joined[q] THEN members[p][r] \cup {q} ELSE members[p][r] \ {q}]
  IN /\ p # q /\ {p, q} \subseteq running
     /\ members' = [members EXCEPT ![p] = known]
     /\ data' = [data EXCEPT ![p] = [c \in Chats |->
                   IF c \in Rooms \ (joined[p] \cup joined[q]) /\ known[c] = {} THEN NoData ELSE @[c]]]
     /\ UNCHANGED <<limit, joined, running, file, settings, net, sent, events>>

(* retrieveLastChatMessages(), at each tick: a random peer q for the main  *)
(* chat, and a random one of each room joined that has some.               *)
Retrieve(p, q) ==
  /\ p \in running
  /\ \E asked \in RandomPeers(p, {Main} \cup {r \in joined[p] : members[p][r] # {}}) :
       asked[Main] = q /\ Sends(Requests(p, asked))
  /\ UNCHANGED <<limit, data, joined, members, running, file, settings, sent, events>>

JoinRoom(p, r) ==
  /\ p \in running /\ r \notin joined[p] /\ Event
  /\ joined' = [joined EXCEPT ![p] = @ \cup {r}]
  /\ settings' = [settings EXCEPT ![p] = joined'[p]]
  /\ data' = [data EXCEPT ![p][r] = Loaded(@, file[p][r])]
  /\ \E asked \in RandomPeers(p, {c \in {r} : members[p][c] # {}}) : Sends(Requests(p, asked))
  /\ UNCHANGED <<limit, members, running, file, sent>>

LeaveRoom(p, r) ==
  /\ p \in running /\ r \in joined[p] /\ Event
  /\ joined' = [joined EXCEPT ![p] = @ \ {r}]
  /\ settings' = [settings EXCEPT ![p] = joined'[p]]
  /\ \E outcome \in Outcomes :
       /\ file' = [file EXCEPT ![p][r] = Written(@, data[p][r], outcome)]
       /\ data' = [data EXCEPT ![p][r] = IF members[p][r] = {} THEN NoData ELSE Saved(@, outcome)]
  /\ UNCHANGED <<limit, members, running, net, sent>>

(* saveAllChatMessages().                                                  *)
SavesAll(p, outcome) ==
  file' = [file EXCEPT ![p] = [c \in Chats |->
             IF c \in joined[p] \cup {Main} THEN Written(@[c], data[p][c], outcome[c]) ELSE @[c]]]
SaveAll(p) ==
  /\ p \in running \cap Savers
  /\ \E outcome \in [Chats -> Outcomes] :
       /\ SavesAll(p, outcome)
       /\ data' = [data EXCEPT ![p] = [c \in Chats |->
                     IF c \in joined[p] \cup {Main} THEN Saved(@[c], outcome[c]) ELSE @[c]]]
       /\ IF \A c \in Chats : outcome[c] = "written" THEN UNCHANGED events ELSE Event
  /\ UNCHANGED <<limit, joined, members, running, settings, net, sent>>

(* The core stops, after its destructor has saved the lists, or at once.   *)
Stopped(p) ==
  /\ p \in running \cap Savers /\ Event
  /\ running' = running \ {p}
  /\ data' = [data EXCEPT ![p] = [c \in Chats |-> NoData]]
  /\ joined' = [joined EXCEPT ![p] = {}]
  /\ members' = [members EXCEPT ![p] = [r \in Rooms |-> {}]]
  /\ UNCHANGED <<limit, settings, net, sent>>
Stop(p) == Stopped(p) /\ \E outcome \in [Chats -> Outcomes] : SavesAll(p, outcome)
Crash(p) == Stopped(p) /\ UNCHANGED file

(* The constructor: no peer is known yet, the rooms of the settings are    *)
(* joined.                                                                 *)
Start(p) ==
  /\ p \notin running
  /\ running' = running \cup {p}
  /\ joined' = [joined EXCEPT ![p] = settings[p]]
  /\ data' = [data EXCEPT ![p] = [c \in Chats |->
                IF c \in settings[p] \cup {Main} THEN Loaded(NoData, file[p][c]) ELSE NoData]]
  /\ UNCHANGED <<limit, members, file, settings, net, sent, events>>

Init ==
  /\ limit \in Limits
  /\ data = [p \in Peers |-> [c \in Chats |-> NoData]]
  /\ settings = [p \in Peers |-> {}] /\ joined = settings
  /\ members = [p \in Peers |-> [r \in Rooms |-> {}]]
  /\ running = Peers
  /\ file = [p \in Peers |-> [c \in Chats |-> <<>>]]
  /\ net = {} /\ sent = 0 /\ events = 0

Next ==
  \/ \E p \in Peers :
       \/ SaveAll(p) \/ Stop(p) \/ Crash(p) \/ Start(p)
       \/ \E c \in Chats, t \in Times : Send(p, c, t)
       \/ \E q \in Peers : HearIMAlive(p, q) \/ Retrieve(p, q)
       \/ \E r \in Rooms : JoinRoom(p, r) \/ LeaveRoom(p, r)
  \/ \E d \in net : (\E t \in Times : ReceiveMessages(d, t)) \/ ReceiveGetLast(d) \/ Lose(d)
Spec == Init /\ [][Next]_vars

(* A core is started again; its timer ticks for ever and the choice of a   *)
(* peer is random; no datagram is under way for ever, and one that is sent *)
(* again and again is received: a request of the main chat, or a message.  *)
Fairness ==
  /\ \A p \in Peers : WF_vars(Start(p))
  /\ []<>(net = {})
  /\ \A p \in Peers : \A q \in Peers \ {p} :
       /\ []<><<Retrieve(p, q)>>_vars
       /\ SF_vars(\E d \in net : d.from = p /\ d.to = q /\ d.chat = Main /\ ReceiveGetLast(d))
       /\ \A id \in 1..NbMessages :
            SF_vars(\E d \in net, t \in Times : d.from = p /\ d.to = q /\ d.chat = Main
                                             /\ id \in IDsOf(d.list) /\ ReceiveMessages(d, t))
FairSpec == Spec /\ Fairness

-----------------------------------------------------------------------------
(* Properties.                                                             *)

IsChatData(d) ==
  /\ d.messageIDs = IDsOf(d.messages) /\ Cardinality(d.messageIDs) = Len(d.messages)
  /\ Len(d.messages) <= limit
  /\ \A i \in 2..Len(d.messages) : d.messages[i - 1].time <= d.messages[i].time
(* A list of messages, in memory or on the disk, is sorted by time, has no *)
(* message twice and not more than the limit, whatever the order in which  *)
(* the batches came; the set of IDs is that of the list.                   *)
TypeOK ==
  /\ limit \in Limits /\ running \subseteq Peers
  /\ joined \in [Peers -> SUBSET Rooms] /\ settings \in [Peers -> SUBSET Rooms]
  /\ \A p \in Peers :
       /\ p \in running => joined[p] = settings[p]
       /\ members[p] \in [Rooms -> SUBSET (Peers \ {p})]
       /\ \A c \in Chats : /\ IsChatData(data[p][c])
                          /\ IsChatData([messages |-> file[p][c], messageIDs |-> IDsOf(file[p][c])])
  /\ sent \in 0..NbMessages /\ events \in 0..MaxEvents

(* What is not on the disk is known not to be: the messages of the main    *)
(* chat are those of the file unless a save is still to be done.           *)
SavedUnlessChanged ==
  \A p \in running \cap Savers : data[p][Main].changed \/ data[p][Main].messages = file[p][Main]

Has(p, id) == id \in data[p][Main].messageIDs
Kept(id) == \E p \in Peers : Has(p, id) \/ id \in IDsOf(file[p][Main])
(* Every peer ends with the messages of the main chat that some peer has,  *)
(* whatever datagrams were lost and whichever cores restarted, if the      *)
(* limits are large enough for all of them.                                *)
MessagesSpread ==
  limit >= NbMessages /\ Number >= NbMessages =>
    <>[](\A id \in 1..NbMessages : Kept(id) => \A p \in Peers : Has(p, id))
=============================================================================

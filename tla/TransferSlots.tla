--------------------------- MODULE TransferSlots ---------------------------
(***************************************************************************)
(* What the transfer of chunks promises to the rest of the program, seen   *)
(* from outside: at most NbDownloader transfers at a time, each of one     *)
(* chunk from one peer, no peer used twice, and a chunk that becomes       *)
(* complete does so during its own transfer and is not transferred again.  *)
(***************************************************************************)
EXTENDS Naturals, FiniteSets

CONSTANTS Chunks, Peers, NbDownloader, NoPeer

VARIABLES
  slot,  \* the peer each chunk is being transferred from, or NoPeer
  done   \* the chunks that are complete

vars == <<slot, done>>

Busy == {c \in Chunks : slot[c] # NoPeer}

Init ==
  /\ slot = [c \in Chunks |-> NoPeer]
  /\ done = {}

Begin(c, p) ==
  /\ slot[c] = NoPeer /\ c \notin done
  /\ \A d \in Chunks : slot[d] # p
  /\ Cardinality(Busy) < NbDownloader
  /\ slot' = [slot EXCEPT ![c] = p]
  /\ UNCHANGED done

Finish(c) ==
  /\ slot[c] # NoPeer
  /\ done' = done \cup {c}
  /\ UNCHANGED slot

End(c) ==
  /\ slot[c] # NoPeer
  /\ slot' = [slot EXCEPT ![c] = NoPeer]
  /\ UNCHANGED done

Next == \E c \in Chunks : (\E p \in Peers : Begin(c, p)) \/ Finish(c) \/ End(c)

Spec == Init /\ [][Next]_vars
=============================================================================

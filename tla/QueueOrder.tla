---------------------------- MODULE QueueOrder ----------------------------
(***************************************************************************)
(* What the queue of downloads promises to its user: a command is given,   *)
(* and when it has been carried out the order of the downloads is the one  *)
(* told here, whatever the loops that reach it.                            *)
(***************************************************************************)
EXTENDS Integers, Sequences, SequencesExt, FiniteSetsExt, Filters

CONSTANT Downloads

VARIABLES
  order,    \* the downloads, first to last
  command   \* the command under way

NoCommand == [do |-> "nothing"]
Commands ==
  [do : {"load"}]
  \cup [do : {"remove"}, which : SUBSET Downloads]
  \cup [do : {"replace"}, directory : Downloads, known : BOOLEAN]
  \cup [do : {"move"}, which : SUBSET Downloads, refs : SUBSET Downloads,
          after : BOOLEAN]

Init == order = <<>> /\ command = NoCommand

Without(s, S) == Only(s, ToSet(s) \ S)
(* The downloads that a step brings. *)
New == Only(order', ToSet(order') \ ToSet(order))

Ask == command = NoCommand /\ command' \in Commands /\ UNCHANGED order

(* A new download goes to the end, as do those of the queue file. *)
Add == command = NoCommand /\ order' = order \o New /\ Len(New) = 1 /\ UNCHANGED command

Carries(what) == command.do = what /\ command' = NoCommand

Load == Carries("load") /\ order' = order \o New

(* The others keep their order. *)
TakeOut == Carries("remove") /\ order' = Without(order, command.which)

(* The children take the place of their directory; if some of them were    *)
(* already known, or told twice, the new ones may be further, among those  *)
(* that follow.                                                            *)
Replace ==
  /\ Carries("replace")
  /\ \E p \in DOMAIN order :
       /\ order[p] = command.directory
       /\ IF command.known
          THEN /\ Without(order', ToSet(New)) = Without(order, {command.directory})
               /\ SubSeq(order', 1, p - 1) = SubSeq(order, 1, p - 1)
          ELSE order' = SubSeq(order, 1, p - 1) \o New \o SubSeq(order, p + 1, Len(order))

(* The moved downloads, in the order they have, come together just before  *)
(* the first of the references or just after the last.  "After" moves      *)
(* nothing if a reference is not there.                                    *)
Move ==
  LET S      == command.which
      places == {p \in DOMAIN order : order[p] \in command.refs}
      cut    == IF command.after THEN Max(places) ELSE Min(places) - 1
  IN /\ Carries("move")
     /\ IF places = {} \/ (command.after /\ ~ command.refs \subseteq ToSet(order))
        THEN UNCHANGED order
        ELSE order' = Without(SubSeq(order, 1, cut), S) \o Only(order, S)
                        \o Without(SubSeq(order, cut + 1, Len(order)), S)

(* The program ends. *)
Forget == order' = <<>> /\ command' = NoCommand

Next == Ask \/ Add \/ Load \/ TakeOut \/ Replace \/ Move \/ Forget

Spec == Init /\ [][Next]_<<order, command>>
=============================================================================

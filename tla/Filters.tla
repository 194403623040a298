------------------------------- MODULE Filters -------------------------------
(***************************************************************************)
(* The elements of a list that are in a set, in their order: what a loop   *)
(* that removes the others, or that collects these, leaves.  It is the     *)
(* operator SelectSeq of the standard modules, written as a recursive      *)
(* function so that the proofs can look into it.                           *)
(***************************************************************************)
EXTENDS Integers, Sequences

(* What is kept of the first i elements of s. *)
KeptOf(s, K) ==
  LET kept[i \in 0..Len(s)] ==
        IF i = 0 THEN <<>>
        ELSE IF s[i] \in K THEN Append(kept[i - 1], s[i]) ELSE kept[i - 1]
  IN kept

Only(s, K) == KeptOf(s, K)[Len(s)]
=============================================================================

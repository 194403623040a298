-------------------------- MODULE MCDownloadQueue --------------------------
(* Small instances of DownloadQueue: the values of its constants.          *)
EXTENDS DownloadQueue, TLC

CONSTANTS
  a, a2, b, c, folder,  \* downloads: a and a2 are of the same file, folder a directory
  name             \* the name of that file; the others are named by themselves

MCNameOf == [x \in Downloads |-> IF x \in {a, a2} THEN name ELSE x]
(* What the directory folder holds. *)
SameChild   == [n \in {folder} |-> {<<name>>}]
TwoChildren == [n \in {folder} |-> {<<b, c>>}]

Symmetry == Permutations({a, a2})
=============================================================================

---------------------------- MODULE MCSortedArray ----------------------------
(* Small instances of SortedArray: the values of its constants.  The order *)
(* 3 has the smallest nodes, so trees of three levels; the order 5 has     *)
(* nodes large enough to be searched by halves.                            *)
EXTENDS SortedArray

CONSTANTS Max3, Max5
MCNbValues == [m \in Orders |-> IF m = 3 THEN Max3 ELSE Max5]

(* The state but for the addresses of the nodes: nothing depends on them.  *)
Shape(n) ==
  LET at[x \in DOMAIN node \cup {Null}] ==
        IF x = Null THEN <<>>
        ELSE [items |-> node[x].items, size |-> node[x].size,
              child |-> [i \in DOMAIN node[x].child |-> at[node[x].child[i]]],
              known |-> {c \in ToSet(node[x].child) \ {Null} : Parent(c) = x} = ToSet(node[x].child) \ {Null},
              roles |-> <<x = task.node, x = task.from>>]
  IN at[n]
View ==
  <<M, descending, pending, content, crashed, Shape(root), Shape(task.child), Cardinality(DOMAIN node),
    [task EXCEPT !.node = Null, !.from = Null, !.child = Null]>>
=============================================================================

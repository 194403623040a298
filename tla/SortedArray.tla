----------------------------- MODULE SortedArray -----------------------------
(***************************************************************************)
(* Common::SortedArray, a sorted list read as an array, kept in a B-tree   *)
(* whose nodes know the number of items below them; and the index of the   *)
(* files by size, FM::SizeIndexEntries, which is one of these arrays.      *)
(*                                                                         *)
(* add() and rebalance() call themselves for the parent of a node: a call  *)
(* is one action and `task' is the call to come.                           *)
(***************************************************************************)
EXTENDS Integers, Sequences, FiniteSets, FiniteSetsExt, SequencesExt, TLC

CONSTANTS
  Orders,     \* the values of the template parameter M
  NbValues,   \* bound: the values put in an array of each order are 1..NbValues[m]
  SameSize    \* of the values taken as entries of files, those of one size

ASSUME OrdersAssumption == Orders \subseteq {m \in Nat : m >= 3 /\ m % 2 = 1}
ASSUME ValuesAssumption == NbValues \in [Orders -> Nat] /\ SameSize \in Nat \ {0}

VARIABLES
  M,
  node,       \* the nodes in memory, from addresses (1, 2...) to nodes
  root,
  descending, \* lesserThanFun: "<", or ">" once given to setSortedFunction()
  task,       \* the call to come
  pending,    \* what setSortedFunction() has still to add
  content,    \* history: the values inserted and not removed
  crashed     \* history: an item was read before the first one

vars == <<M, node, root, descending, task, pending, content, crashed>>

Values == 1..NbValues[M]
Lt(a, b) == IF descending THEN b < a ELSE a < b
Half == M \div 2
Null == 0       \* nullptr
Leaf(items) == [items |-> items, child |-> [i \in 1..Len(items) + 1 |-> Null], parent |-> Null, size |-> Len(items)]
NoTask == [op |-> "none", node |-> Null, value |-> 0, p |-> 0, child |-> Null,
           from |-> Null, asked |-> 0]
Idle == task.op = "none" /\ pending = <<>> /\ ~crashed

-----------------------------------------------------------------------------
(* Reading.  t is the nodes; positions and indices are the code's, from 0. *)

(* getPosition(): where v is in a node, or where it has to be inserted.    *)
Position(items, v) ==
  LET between[i \in 0..M, j \in 0..M] ==
        LET k == (i + j) \div 2
        IN CASE Lt(v, items[k + 1]) -> IF i + 1 = k THEN [p |-> k, exists |-> FALSE] ELSE between[i, k]
             [] Lt(items[k + 1], v) -> IF k + 1 = j THEN [p |-> j, exists |-> FALSE] ELSE between[k, j]
             [] OTHER -> [p |-> k, exists |-> TRUE]
  IN CASE items = <<>> \/ Lt(v, items[1]) -> [p |-> 0, exists |-> FALSE]
       [] Lt(Last(items), v) -> [p |-> Len(items), exists |-> FALSE]
       [] v = items[1] -> [p |-> 0, exists |-> TRUE]
       [] OTHER -> between[0, Len(items)]

(* getNode(): the node where v is, or the leaf where it should be (p = -1).*)
NodeOf(t, n, v) ==
  LET below[x \in DOMAIN t] ==
        LET q == Position(t[x].items, v)
        IN CASE q.exists -> [node |-> x, p |-> q.p]
             [] ~q.exists /\ t[x].child[q.p + 1] = Null -> [node |-> x, p |-> -1]
             [] OTHER -> below[t[x].child[q.p + 1]]
  IN below[n]

Size(t, n) == IF n = Null THEN 0 ELSE t[n].size
SizeOfFirst(t, n, k) == MapThenSumSet(LAMBDA i : Size(t, t[n].child[i]), 1..k)

(* The position of the item number k.                                      *)
GetFromIndex(t, k) ==
  LET below[x \in DOMAIN t, j \in 0..k] ==
        LET Before(i) == i + SizeOfFirst(t, x, i)    \* what is before the child i
            inChild == {i \in 0..Len(t[x].items) :
                          Before(i) <= j /\ j < Before(i) + Size(t, t[x].child[i + 1])}
        IN IF inChild # {} THEN LET i == Min(inChild) IN below[t[x].child[i + 1], j - Before(i)]
           ELSE [node |-> x, p |-> CHOOSE i \in 0..Len(t[x].items) - 1 : j = Before(i + 1) - 1]
  IN below[root, k]

(* indexOf() and indexOfNearest(): what is before the item in its node, but *)
(* not what is in the child between it and the item before.                *)
Index(t, v, nearest) ==
  LET below[x \in DOMAIN t, k \in 0..t[root].size] ==
        LET q == Position(t[x].items, v)
            before == k + q.p + SizeOfFirst(t, x, q.p)
        IN CASE q.exists -> before
             [] ~q.exists /\ t[x].child[q.p + 1] # Null -> below[t[x].child[q.p + 1], before]
             [] OTHER -> IF ~nearest THEN -1 ELSE Max({0, before - 1})
  IN below[root, 0]

Leftmost(t, n)  == LET below[x \in DOMAIN t] == IF Head(t[x].child) = Null THEN x ELSE below[Head(t[x].child)] IN below[n]
Rightmost(t, n) == LET below[x \in DOMAIN t] == IF Last(t[x].child) = Null THEN x ELSE below[Last(t[x].child)] IN below[n]

(* begin(), end() and ++ of the iterators; the way back of --.             *)
Begin(t) == [node |-> Leftmost(t, root), p |-> 0]
End(t)   == LET n == Rightmost(t, root) IN [node |-> n, p |-> Len(t[n].items)]
NextPosition(t, q) ==
  LET up[x \in DOMAIN t] ==
        LET parent == t[x].parent
        IN IF parent = Null THEN [q EXCEPT !.p = @ + 1]
           ELSE IF Last(t[parent].child) = x THEN up[parent]
           ELSE [node |-> parent, p |-> CHOOSE i \in 0..Len(t[parent].items) - 1 : t[parent].child[i + 1] = x]
      child == t[q.node].child[q.p + 2]
  IN CASE child # Null -> [node |-> Leftmost(t, child), p |-> 0]
       [] child = Null /\ q.p + 1 < Len(t[q.node].items) -> [q EXCEPT !.p = @ + 1]
       [] OTHER -> up[q.node]
PreviousPosition(t, q) ==
  LET up[x \in DOMAIN t] ==
        LET parent == t[x].parent
        IN IF parent = Null THEN [q EXCEPT !.p = @ - 1]
           ELSE IF Head(t[parent].child) = x THEN up[parent]
           ELSE [node |-> parent, p |-> CHOOSE i \in 0..Len(t[parent].items) - 1 : t[parent].child[i + 2] = x]
      child == t[q.node].child[q.p + 1]
  IN CASE child # Null -> [node |-> Rightmost(t, child), p |-> Len(t[Rightmost(t, child)].items) - 1]
       [] child = Null /\ q.p > 0 -> [q EXCEPT !.p = @ - 1]
       [] OTHER -> up[q.node]

ItemAt(t, q) == t[q.node].items[q.p + 1]
PositionsOf(t) == [node : DOMAIN t, p : -1..M]
(* The items from a position to another, that of the end excluded.         *)
Iterated(t, first, last) ==
  LET from[q \in PositionsOf(t)] == IF q = last THEN <<>> ELSE <<ItemAt(t, q)>> \o from[NextPosition(t, q)]
  IN from[first]

(* iteratorOfNearest(): v, or what is before it, or the first item.        *)
PositionOfNearest_Leaf(t, v) ==   \* mutant: nothing is before the leaf
  LET below[x \in DOMAIN t] ==
        LET q == Position(t[x].items, v)
        IN CASE q.exists -> [node |-> x, p |-> q.p]
             [] ~q.exists /\ t[x].child[q.p + 1] # Null -> below[t[x].child[q.p + 1]]
             [] ~q.exists /\ t[x].child[q.p + 1] = Null /\ q.p > 0 -> [node |-> x, p |-> q.p - 1]
             [] OTHER -> [node |-> x, p |-> 0]
  IN below[root]
PositionOfNearest(t, v) ==
  LET below[x \in DOMAIN t] ==
        LET q == Position(t[x].items, v)
            before == PreviousPosition(t, [node |-> x, p |-> 0])
        IN CASE q.exists -> [node |-> x, p |-> q.p]
             [] ~q.exists /\ t[x].child[q.p + 1] # Null -> below[t[x].child[q.p + 1]]
             [] ~q.exists /\ t[x].child[q.p + 1] = Null /\ q.p > 0 -> [node |-> x, p |-> q.p - 1]
             [] OTHER -> IF before.p # -1 THEN before ELSE [node |-> x, p |-> 0]
  IN below[root]

-----------------------------------------------------------------------------
(* Adding.                                                                 *)

Ancestors(t, n) ==
  LET up[x \in DOMAIN t] == {x} \cup IF t[x].parent = Null THEN {} ELSE up[t[x].parent]
  IN up[n]
(* incrementSize(), decrementSize().                                       *)
Resized_One(t, n, by) == [t EXCEPT ![n].size = @ + by]   \* mutant: not those above
Resized(t, n, by) == [x \in DOMAIN t |-> IF x \in Ancestors(t, n) THEN [t[x] EXCEPT !.size = @ + by] ELSE t[x]]
(* The children of a node know it.                                         *)
Adopted(t, n) == [x \in DOMAIN t |-> IF x \in ToSet(t[n].child) THEN [t[x] EXCEPT !.parent = n] ELSE t[x]]
NewNode(t) == Min((1..Cardinality(DOMAIN t) + 1) \ DOMAIN t)
With(t, n, record) == [x \in DOMAIN t \cup {n} |-> IF x = n THEN record ELSE t[x]]
Freed(t, gone) == [x \in DOMAIN t \ gone |-> t[x]]

(* The items and the children of the node with the value and the child.    *)
Place(items, v) == Cardinality({i \in 1..Len(items) : Lt(items[i], v)})
NewItems == LET items == node[task.node].items IN InsertAt(items, Place(items, task.value) + 1, task.value)
NewChild == LET n == node[task.node] IN InsertAt(n.child, Place(n.items, task.value) + 2, task.child)

(* A value asked by operator[] is looked for again once added, from the    *)
(* parent of the leaf it was to be added to.                               *)
NotFoundAgain(t) ==
  /\ task.from # Null
  /\ NodeOf(t, IF t[task.from].parent = Null THEN task.from ELSE t[task.from].parent, task.asked).p = -1
AddCall(n, v) == [NoTask EXCEPT !.op = "add", !.node = n, !.value = v]

AddFits ==
  /\ task.op = "add" /\ Len(node[task.node].items) < M - 1
  /\ LET new == [node[task.node] EXCEPT !.items = NewItems, !.child = NewChild]
         t == Resized(Adopted(With(node, task.node, new), task.node), task.node, 1)
     IN node' = t /\ crashed' = NotFoundAgain(t)
  /\ task' = NoTask
  /\ UNCHANGED <<M, root, descending, pending, content>>

(* split(): the greater half of the items goes to a new node, and the      *)
(* median to the parent.                                                   *)
Median == NewItems[Half + 1]
RightHalf ==
  LET kids == SubSeq(NewChild, Half + 2, M + 1)
  IN [items |-> SubSeq(NewItems, Half + 2, M), child |-> kids, parent |-> Null,
      size |-> Half + MapThenSumSet(LAMBDA i : Size(node, kids[i]), 1..Half + 1)]
LeftHalf ==
  [node[task.node] EXCEPT !.items = SubSeq(NewItems, 1, Half), !.child = SubSeq(NewChild, 1, Half + 1),
                          !.size = @ - RightHalf.size]
Split(right) == Adopted(Adopted(With(With(node, task.node, LeftHalf), right, RightHalf), right), task.node)

AddSplits ==
  /\ task.op = "add" /\ Len(node[task.node].items) = M - 1 /\ node[task.node].parent # Null
  /\ LET right == NewNode(node)
     IN /\ node' = Split(right)
        /\ task' = [task EXCEPT !.node = node[task.node].parent, !.value = Median, !.child = right]
  /\ UNCHANGED <<M, root, descending, pending, content, crashed>>

AddGrows ==
  /\ task.op = "add" /\ Len(node[task.node].items) = M - 1 /\ node[task.node].parent = Null
  /\ LET right == NewNode(node)
         top == NewNode(Split(right))
         t == Adopted(With(Split(right), top,
                [items |-> <<Median>>, child |-> <<task.node, right>>, parent |-> Null,
                 size |-> 1 + LeftHalf.size + RightHalf.size]), top)
     IN node' = t /\ root' = top /\ crashed' = NotFoundAgain(t)
  /\ task' = NoTask
  /\ UNCHANGED <<M, descending, pending, content>>

-----------------------------------------------------------------------------
(* Removing.                                                               *)

RemoveCall(q) == [NoTask EXCEPT !.op = "remove", !.node = q.node, !.p = q.p]
RebalanceCall(n) == [NoTask EXCEPT !.op = "rebalance", !.node = n]

RemoveInLeaf ==
  /\ task.op = "remove" /\ Len(node[task.node].items) = node[task.node].size
  /\ node' = Resized([node EXCEPT ![task.node].items = RemoveAt(@, task.p + 1), ![task.node].child = Tail(@)],
                     task.node, -1)
  /\ task' = RebalanceCall(task.node)
  /\ UNCHANGED <<M, root, descending, pending, content, crashed>>

(* The item is exchanged with one of its two neighbors, which is in a leaf.*)
RemoveInside ==
  /\ task.op = "remove" /\ Len(node[task.node].items) # node[task.node].size
  /\ LET left  == Rightmost(node, node[task.node].child[task.p + 1])
         right == Leftmost(node, node[task.node].child[task.p + 2])
         last  == Len(node[left].items)
         taken == IF last > Len(node[right].items) THEN [node |-> left, p |-> last - 1] ELSE [node |-> right, p |-> 0]
     IN /\ node' = [node EXCEPT ![taken.node].items[taken.p + 1] = node[task.node].items[task.p + 1],
                                ![task.node].items[task.p + 1] = ItemAt(node, taken)]
        /\ task' = RemoveCall(taken)
  /\ UNCHANGED <<M, root, descending, pending, content, crashed>>

Parent(n) == node[n].parent
PlaceIn(n) == CHOOSE i \in 1..Len(node[Parent(n)].child) : node[Parent(n)].child[i] = n
HasRight(n) == PlaceIn(n) < Len(node[Parent(n)].child)
HasLeft(n)  == PlaceIn(n) > 1
RightOf(n) == node[Parent(n)].child[PlaceIn(n) + 1]
LeftOf(n)  == node[Parent(n)].child[PlaceIn(n) - 1]

TooSmall(n) == Parent(n) # Null /\ Len(node[n].items) < Half
CanGive(n)  == Len(node[n].items) > Half
Rebalancing(n) == task = RebalanceCall(n) /\ TooSmall(n)

Balanced ==
  /\ task.op = "rebalance" /\ ~TooSmall(task.node)
  /\ task' = NoTask
  /\ UNCHANGED <<M, node, root, descending, pending, content, crashed>>

(* A node gets the item of its parent that is between it and its neighbor, *)
(* and the parent that of the neighbor.                                    *)
TakesFromRight(n) ==
  /\ Rebalancing(n) /\ HasRight(n) /\ CanGive(RightOf(n))
  /\ LET right == RightOf(n)
         kid == Head(node[right].child)
     IN node' = Adopted([node EXCEPT
          ![n] = [@ EXCEPT !.items = Append(@, node[Parent(n)].items[PlaceIn(n)]), !.child = Append(@, kid),
                           !.size = @ + 1 + Size(node, kid)],
          ![right] = [@ EXCEPT !.items = Tail(@), !.child = Tail(@), !.size = @ - 1 - Size(node, kid)],
          ![Parent(n)].items[PlaceIn(n)] = Head(node[right].items)], n)
  /\ task' = NoTask
  /\ UNCHANGED <<M, root, descending, pending, content, crashed>>

TakesFromLeft(n) ==
  /\ Rebalancing(n) /\ HasLeft(n) /\ CanGive(LeftOf(n)) /\ ~(HasRight(n) /\ CanGive(RightOf(n)))
  /\ LET left == LeftOf(n)
         kid == Last(node[left].child)
     IN node' = Adopted([node EXCEPT
          ![n] = [@ EXCEPT !.items = <<node[Parent(n)].items[PlaceIn(n) - 1]>> \o @, !.child = <<kid>> \o @,
                           !.size = @ + 1 + Size(node, kid)],
          ![left] = [@ EXCEPT !.items = Front(@), !.child = Front(@), !.size = @ - 1 - Size(node, kid)],
          ![Parent(n)].items[PlaceIn(n) - 1] = Last(node[left].items)], n)
  /\ task' = NoTask
  /\ UNCHANGED <<M, root, descending, pending, content, crashed>>

(* merge() of two neighbors and of the item m of their parent.             *)
MergedItems(left, m, right) == node[left].items \o <<node[Parent(left)].items[m]>> \o node[right].items
MergedChild(left, right) == node[left].child \o node[right].child
Merges(n) ==
  /\ Rebalancing(n)
  /\ HasRight(n) => ~CanGive(RightOf(n))
  /\ HasLeft(n) => ~CanGive(LeftOf(n))
  /\ LET left == IF HasRight(n) THEN n ELSE LeftOf(n)
         right == RightOf(left)
         parent == Parent(n)
         m == PlaceIn(left)
         both == [items |-> MergedItems(left, m, right), child |-> MergedChild(left, right)]
     IN \/ /\ Parent(parent) = Null /\ Len(node[parent].items) = 1
           /\ node' = Adopted([Freed(node, {left, right}) EXCEPT ![parent].items = both.items, ![parent].child = both.child], parent)
           /\ task' = NoTask
        \/ /\ ~(Parent(parent) = Null /\ Len(node[parent].items) = 1)
           /\ node' = Adopted([Freed(node, {right}) EXCEPT
                ![left] = [@ EXCEPT !.items = both.items, !.child = both.child, !.size = @ + 1 + node[right].size],
                ![parent] = [@ EXCEPT !.items = RemoveAt(@, m), !.child = RemoveAt(@, m + 1)]], left)
           /\ task' = RebalanceCall(parent)
  /\ UNCHANGED <<M, root, descending, pending, content, crashed>>

-----------------------------------------------------------------------------
(* The operations.                                                         *)

(* insert(): a value that is there already is only overwritten.            *)
Insert(v) ==
  /\ Idle
  /\ LET q == NodeOf(node, root, v)
     IN q.p = -1 /\ task' = AddCall(q.node, v)
  /\ content' = content \cup {v}
  /\ UNCHANGED <<M, node, root, descending, pending, crashed>>

(* operator[] of a value that is not there.                                *)
At(v) ==
  /\ Idle
  /\ LET q == NodeOf(node, root, v)
     IN q.p = -1 /\ task' = [AddCall(q.node, v) EXCEPT !.from = q.node, !.asked = v]
  /\ content' = content \cup {v}
  /\ UNCHANGED <<M, node, root, descending, pending, crashed>>

RemoveValue(v) ==
  /\ Idle
  /\ LET q == NodeOf(node, root, v)
     IN q.p # -1 /\ task' = RemoveCall(q)
  /\ content' = content \ {v}
  /\ UNCHANGED <<M, node, root, descending, pending, crashed>>

RemoveFromIndex(k) ==
  /\ Idle
  /\ task' = RemoveCall(GetFromIndex(node, k))
  /\ content' = content \ {ItemAt(node, GetFromIndex(node, k))}
  /\ UNCHANGED <<M, node, root, descending, pending, crashed>>

(* clear(), and setSortedFunction(), which adds everything to a new tree.  *)
NewTree == node' = (1 :> Leaf(<<>>)) /\ root' = 1
Clear ==
  /\ Idle /\ NewTree
  /\ content' = {}
  /\ UNCHANGED <<M, descending, task, pending, crashed>>
SetSortedFunction ==
  /\ Idle /\ NewTree
  /\ descending' = ~descending
  /\ pending' = Iterated(node, Begin(node), End(node))
  /\ UNCHANGED <<M, task, content, crashed>>
AddPending ==
  /\ task.op = "none" /\ pending # <<>>
  /\ task' = AddCall(NodeOf(node, root, Head(pending)).node, Head(pending))
  /\ pending' = Tail(pending)
  /\ UNCHANGED <<M, node, root, descending, content, crashed>>

Init ==
  /\ M \in Orders
  /\ node = (1 :> Leaf(<<>>)) /\ root = 1
  /\ descending = FALSE /\ task = NoTask /\ pending = <<>>
  /\ content = {} /\ crashed = FALSE

Calls ==
  \/ AddFits \/ AddSplits \/ AddGrows \/ RemoveInLeaf \/ RemoveInside \/ Balanced
  \/ (\E n \in DOMAIN node : TakesFromRight(n) \/ TakesFromLeft(n) \/ Merges(n)) \/ AddPending
Operations ==
  \/ (\E v \in Values : Insert(v) \/ At(v) \/ RemoveValue(v))
  \/ (\E k \in 0..node[root].size - 1 : RemoveFromIndex(k)) \/ Clear \/ SetSortedFunction
Next == Calls \/ Operations
Spec == Init /\ [][Next]_vars

-----------------------------------------------------------------------------
(* SizeIndexEntries: the values are entries, SameSize of each size.        *)

SizeOf(v) == (v - 1) \div SameSize

(* search(): fake is the entry of size sizeMin that stands for it, whose   *)
(* place among those of its size is that of its address.                   *)
Search_Nearest(fake, sizeMax) ==   \* mutant: the nearest entry is taken as it is
  IF content = {} THEN <<>>
  ELSE SelectSeq(Iterated(node, PositionOfNearest(node, fake), End(node)), LAMBDA v : SizeOf(v) <= sizeMax)
Search(fake, sizeMax) ==
  LET nearest == PositionOfNearest(node, fake)
      first == IF SizeOf(ItemAt(node, nearest)) < SizeOf(fake) THEN NextPosition(node, nearest) ELSE nearest
  IN IF content = {} THEN <<>>
     ELSE SelectSeq(Iterated(node, first, End(node)), LAMBDA v : SizeOf(v) <= sizeMax)

-----------------------------------------------------------------------------
(* Properties.                                                             *)

Depth(n) == Cardinality(Ancestors(node, n))
IsLeaf(n) == Head(node[n].child) = Null
AllItems == UNION {ToSet(node[n].items) : n \in DOMAIN node}

(* The sizes are those of the subtrees, the leaves are at one depth, each  *)
(* node but the root is at least half full, and no node is lost.           *)
IsBTree ==
  /\ AllItems = content /\ node[root].size = Cardinality(content)
  /\ \A n \in DOMAIN node :
       /\ n # root => Len(node[n].items) >= Half /\ n \in ToSet(node[Parent(n)].child)
       /\ node[n].size = Len(node[n].items) + SizeOfFirst(node, n, Len(node[n].child))
       /\ IsLeaf(n) => ToSet(node[n].child) = {Null} /\ Depth(n) = Depth(Leftmost(node, root))
       /\ \A i \in 1..Len(node[n].child) : node[n].child[i] # Null => Parent(node[n].child[i]) = n

(* Every variable has its type; between two operations the nodes are a     *)
(* B-tree of the values, whatever was split, lent and merged.              *)
TypeOK ==
  /\ M \in Orders /\ root \in DOMAIN node /\ node[root].parent = Null
  /\ \A n \in DOMAIN node :
       /\ Len(node[n].items) < M /\ Len(node[n].child) = Len(node[n].items) + 1
       /\ ToSet(node[n].child) \cup {node[n].parent} \subseteq DOMAIN node \cup {Null}
  /\ task.op \in {"none", "add", "remove", "rebalance"}
  /\ content \cup AllItems \cup ToSet(pending) \subseteq Values
  /\ Idle => IsBTree

Rank(v) == Cardinality({u \in content : Lt(u, v)})
Sorted == [k \in 1..Cardinality(content) |-> CHOOSE v \in content : Rank(v) = k - 1]
(* The array is the sorted list of its values for all who read it: by      *)
(* index, by iterators, by the nearest value.  (The index told of a value  *)
(* is not always its place: a value that is not in a leaf forgets what is  *)
(* in the child before it.)                                                *)
IsSortedArray ==
  Idle =>
    /\ Iterated(node, Begin(node), End(node)) = Sorted
    /\ \A k \in 1..Len(Sorted) : ItemAt(node, GetFromIndex(node, k - 1)) = Sorted[k]
    /\ \A v \in Values :
         /\ v \in content <=> NodeOf(node, root, v).p # -1
         /\ v \notin content => Index(node, v, FALSE) = -1
         /\ content # {} =>
              /\ v \notin content => Index(node, v, TRUE) = Max({0, Rank(v) - 1})
              /\ ItemAt(node, PositionOfNearest(node, v)) = IF v \in content THEN v ELSE Sorted[Max({1, Rank(v)})]

(* A search by size finds all the entries above the minimum and none that  *)
(* is not within the bounds.                                               *)
SearchFinds ==
  Idle /\ ~descending =>
    \A fake \in Values, sizeMax \in {SizeOf(v) : v \in Values} :
      LET found == Search(fake, sizeMax)
      IN /\ \A i \in 1..Len(found) : SizeOf(found[i]) \in SizeOf(fake)..sizeMax
         /\ {v \in content : SizeOf(v) \in SizeOf(fake) + 1..sizeMax} \subseteq ToSet(found)
=============================================================================

------------------------------ MODULE LinkedList ------------------------------
(***************************************************************************)
(* The doubly linked list of linked_list.c: nodes between two sentinels,   *)
(* with a count of members.  The list is a record of its pointers; each    *)
(* call is an action on it.  `line' is what linked_list.h promises, a      *)
(* sequence of nodes, changed by each call the way its comment says;       *)
(* ListIsSequence relates the two.                                         *)
(*                                                                         *)
(* A node that was popped keeps its pointers and belongs to the caller     *)
(* until it is freed.                                                      *)
(***************************************************************************)
EXTENDS Integers, Sequences, FiniteSets

CONSTANTS
  MaxNodes,  \* nodes that fit in memory
  Data,      \* what the list holds
  NoData     \* data of the sentinels, and of memory that is not allocated

ASSUME MemoryAssumption == MaxNodes \in Nat /\ NoData \notin Data

Nodes    == 1..MaxNodes
HeadNode     == 0    \* &list->head
TailNode    == -1   \* &list->tail
Null     == -2
Pointers == Nodes \cup {HeadNode, TailNode, Null}

VARIABLES
  list,    \* members_count, and the next, prev and data of every node
  line,    \* the nodes of the list in order
  inHand   \* nodes popped and not freed yet

listVars == <<list, line, inHand>>

Members == {line[i] : i \in DOMAIN line}

\* malloc returns memory nobody uses.
Unused == Nodes \ (Members \cup inHand)

-----------------------------------------------------------------------------
(* Questions *)

list_length   == list.count
list_is_empty == list.count = 0

list_first == IF list_is_empty THEN Null ELSE list.next[HeadNode]
list_last  == IF list_is_empty THEN Null ELSE list.prev[TailNode]

\* The pointers of Null are Null, which stands for the tests of `node'.
list_next(node) == IF list.next[node] = TailNode THEN Null ELSE list.next[node]
list_prev(node) == IF list.prev[node] = HeadNode THEN Null ELSE list.prev[node]

\* The data met by following list_next from list_first, for list_length nodes,
\* and by following list_prev from list_last.
Forward ==
  LET node[i \in 1..list_length] == IF i = 1 THEN list_first ELSE list_next(node[i - 1])
  IN  [i \in 1..list_length |-> list.data[node[i]]]

Backward ==
  LET node[i \in 1..list_length] == IF i = 1 THEN list_last ELSE list_prev(node[i - 1])
  IN  [i \in 1..list_length |-> list.data[node[i]]]

-----------------------------------------------------------------------------
(* Calls that change the list *)

list_init ==
  /\ list = [count |-> 0,
             next  |-> [p \in Pointers |-> IF p = HeadNode THEN TailNode ELSE Null],
             prev  |-> [p \in Pointers |-> IF p = TailNode THEN HeadNode ELSE Null],
             data  |-> [p \in Pointers |-> NoData]]
  /\ line = <<>>
  /\ inHand = {}

\* Two neighbours are made to point at each other.
Link(l, left, right) == [l EXCEPT !.next[left] = right, !.prev[right] = left]

Store(l, node, obj) == [l EXCEPT !.data[node] = obj]
OneMore(l)          == [l EXCEPT !.count = @ + 1]
OneLess(l)          == [l EXCEPT !.count = @ - 1]
Freed(l, node)      == [l EXCEPT !.next[node] = Null, !.prev[node] = Null, !.data[node] = NoData]

Appended(l, node, obj) ==
  OneMore(Link(Link(Store(l, node, obj), node, TailNode), l.prev[TailNode], node))

AppendedLeft(l, node, obj) ==
  OneMore(Link(Link(Store(l, node, obj), node, l.next[HeadNode]), HeadNode, node))

Popped(l) == OneLess(Link(l, l.prev[l.prev[TailNode]], TailNode))

PoppedLeft(l) == OneLess(Link(l, HeadNode, l.next[l.next[HeadNode]]))

Removed(l, node) == OneLess(Link(l, l.prev[node], l.next[node]))

\* Mutant: the last node is not told of the new one.
list_append_OneWay(node, obj) ==
  /\ node \in Unused
  /\ list' = [Appended(list, node, obj) EXCEPT !.next[list.prev[TailNode]] = list.next[list.prev[TailNode]]]
  /\ line' = Append(line, node)
  /\ UNCHANGED inHand

list_append(node, obj) ==
  /\ node \in Unused
  /\ list' = Appended(list, node, obj)
  /\ line' = Append(line, node)
  /\ UNCHANGED inHand

list_append_left(node, obj) ==
  /\ node \in Unused
  /\ list' = AppendedLeft(list, node, obj)
  /\ line' = <<node>> \o line
  /\ UNCHANGED inHand

list_pop ==
  /\ ~list_is_empty
  /\ list' = Popped(list)
  /\ line' = SubSeq(line, 1, Len(line) - 1)
  /\ inHand' = inHand \cup {list.prev[TailNode]}

list_pop_left ==
  /\ ~list_is_empty
  /\ list' = PoppedLeft(list)
  /\ line' = Tail(line)
  /\ inHand' = inHand \cup {list.next[HeadNode]}

\* The caller passes a node of the list; it is freed.
Without(s, k) == [i \in 1..(Len(s) - 1) |-> IF i < k THEN s[i] ELSE s[i + 1]]

list_remove(k) ==
  /\ k \in DOMAIN line
  /\ list' = Freed(Removed(list, line[k]), line[k])
  /\ line' = Without(line, k)
  /\ UNCHANGED inHand

\* One iteration of list_clear.
list_clear_one ==
  /\ ~list_is_empty
  /\ list' = Freed(PoppedLeft(list), list.next[HeadNode])
  /\ line' = Tail(line)
  /\ UNCHANGED inHand

\* The caller frees a node it popped.
free(node) ==
  /\ node \in inHand
  /\ list' = Freed(list, node)
  /\ inHand' = inHand \ {node}
  /\ UNCHANGED line

ListNext ==
  \/ \E node \in Nodes, obj \in Data : list_append(node, obj) \/ list_append_left(node, obj)
  \/ list_pop \/ list_pop_left \/ list_clear_one
  \/ \E k \in DOMAIN line : list_remove(k)
  \/ \E node \in Nodes : free(node)

ListSpec == list_init /\ [][ListNext]_listVars

-----------------------------------------------------------------------------
(* Correctness *)

\* The nodes of s between the two sentinels.
At(s, i) ==
  CASE i = 0          -> HeadNode
    [] i = Len(s) + 1 -> TailNode
    [] OTHER          -> s[i]

\* The pointers of l link the nodes of s in order, both ways, and the count is right.
Represents(l, s) ==
  /\ l.count = Len(s)
  /\ \A i \in 0..Len(s) :
       l.next[At(s, i)] = At(s, i + 1) /\ l.prev[At(s, i + 1)] = At(s, i)

Distinct(s) == \A i, j \in DOMAIN s : i # j => s[i] # s[j]

ListRecords ==
  [count : Int, next : [Pointers -> Pointers], prev : [Pointers -> Pointers],
   data : [Pointers -> Data \cup {NoData}]]

ListType ==
  /\ list \in ListRecords
  /\ line \in Seq(Nodes)
  /\ inHand \in SUBSET Nodes

\* Whatever the calls so far, the list is a sequence of distinct nodes that can
\* be walked in either direction, with the right count, and no node that was
\* handed out is still in it (linked_list.c).
ListIsSequence ==
  /\ Represents(list, line)
  /\ Distinct(line)
  /\ Members \cap inHand = {}
=============================================================================

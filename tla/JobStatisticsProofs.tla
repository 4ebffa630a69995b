-------------------------- MODULE JobStatisticsProofs --------------------------
(***************************************************************************)
(* The pointers of linked_list.c represent a sequence of distinct nodes,   *)
(* for every amount of memory and every order of calls; and so the job     *)
(* queue of a run holds the jobs that wait, in order, whichever way it is  *)
(* walked, and the statistics add up the time they spend in it, for any    *)
(* number of jobs, printers and nodes.                                     *)
(***************************************************************************)
EXTENDS JobStatistics, SequenceTheorems, FiniteSetTheorems, WellFoundedInduction, TLAPS

ListInv == ListType /\ ListIsSequence

\* The sentinels and NULL are three addresses, none of them a node's
\* (linked_list.h:21-27).
LEMMA Addresses ==
  /\ HeadNode \in Pointers /\ TailNode \in Pointers /\ Null \in Pointers
  /\ HeadNode \notin Nodes /\ TailNode \notin Nodes /\ Null \notin Nodes
  /\ HeadNode # TailNode /\ HeadNode # Null /\ TailNode # Null
  /\ Nodes \subseteq Pointers
BY MemoryAssumption DEF Pointers, Nodes, HeadNode, TailNode, Null

\* The sentinels and the nodes of a sequence are distinct addresses.
LEMMA Places ==
  ASSUME NEW s \in Seq(Nodes), Distinct(s)
  PROVE  /\ \A i \in 0..(Len(s) + 1) : At(s, i) \in Pointers
         /\ \A i \in 1..Len(s) : At(s, i) = s[i] /\ s[i] \in Nodes
         /\ \A i, j \in 0..(Len(s) + 1) : i # j => At(s, i) # At(s, j)
<1>1. /\ At(s, 0) = HeadNode /\ At(s, Len(s) + 1) = TailNode
      /\ \A i \in 1..Len(s) : At(s, i) = s[i] /\ s[i] \in Nodes
  BY DEF At
<1>2. \A i, j \in 1..Len(s) : i # j => At(s, i) # At(s, j)
  BY <1>1 DEF Distinct
<1> QED BY <1>1, <1>2, Addresses

(* Storing data in a node changes no pointer of the list (linked_list.c:18-25). *)
LEMMA StorePointers ==
  ASSUME NEW l \in ListRecords,
         NEW node \in Pointers, NEW obj \in Data
  PROVE  /\ Store(l, node, obj) \in ListRecords
         /\ Store(l, node, obj).count = l.count
         /\ Store(l, node, obj).next = l.next /\ Store(l, node, obj).prev = l.prev
BY DEF Store, ListRecords

(* Freeing a node leaves the pointers of the other nodes alone (linked_list.c:73). *)
LEMMA FreedPointers ==
  ASSUME NEW l \in ListRecords,
         NEW node \in Nodes
  PROVE  /\ Freed(l, node) \in ListRecords
         /\ Freed(l, node).count = l.count
         /\ \A p \in Pointers : p # node =>
              Freed(l, node).next[p] = l.next[p] /\ Freed(l, node).prev[p] = l.prev[p]
BY Addresses DEF Freed, ListRecords

With(s, k, node) ==
  [i \in 1..(Len(s) + 1) |-> IF i < k THEN s[i] ELSE IF i = k THEN node ELSE s[i - 1]]

\* list_append and list_append_left: a node linked between the nodes at k - 1
\* and k is the k-th of the list (linked_list.c:13-43).
LEMMA InsertStep ==
  ASSUME NEW l \in ListRecords, NEW s \in Seq(Nodes), Represents(l, s), Distinct(s),
         NEW node \in Nodes, \A i \in 1..Len(s) : s[i] # node,
         NEW obj \in Data, NEW k \in 1..(Len(s) + 1)
  PROVE  LET m == OneMore(Link(Link(Store(l, node, obj), node, At(s, k)), At(s, k - 1), node))
         IN  /\ m \in ListRecords
             /\ With(s, k, node) \in Seq(Nodes) /\ Distinct(With(s, k, node))
             /\ Represents(m, With(s, k, node))
<1> DEFINE left == At(s, k - 1)
           right == At(s, k)
           a == Store(l, node, obj)
           b == Link(a, node, right)
           c == Link(b, left, node)
           m == OneMore(c)
           t == With(s, k, node)
<1>0. \A i \in 0..(Len(s) + 1) : At(s, i) # node
  <2> TAKE i \in 0..(Len(s) + 1)
  <2>1. CASE i \in 1..Len(s)
    BY <2>1, Places
  <2>2. CASE i = 0
    BY <2>2, Addresses DEF At
  <2>3. CASE i = Len(s) + 1
    BY <2>3, Addresses DEF At
  <2> QED BY <2>1, <2>2, <2>3
<1>1. left \in Pointers /\ right \in Pointers /\ node \in Pointers
      /\ left # right /\ left # node /\ right # node
  BY <1>0, Places, Addresses
<1>2. /\ m \in ListRecords /\ m.count = l.count + 1
      /\ \A p \in Pointers :
           /\ m.next[p] = IF p = left THEN node ELSE IF p = node THEN right ELSE l.next[p]
           /\ m.prev[p] = IF p = node THEN left ELSE IF p = right THEN node ELSE l.prev[p]
  <2> HIDE DEF left, right
  <2>1. a \in ListRecords /\ a.count = l.count /\ a.next = l.next /\ a.prev = l.prev
    BY <1>1, StorePointers
  <2> HIDE DEF a
  <2>2. /\ b \in ListRecords /\ b.count = a.count
        /\ b.next = [a.next EXCEPT ![node] = right] /\ b.prev = [a.prev EXCEPT ![right] = node]
    BY <1>1, <2>1 DEF Link, ListRecords
  <2> HIDE DEF b
  <2>3. /\ c \in ListRecords /\ c.count = b.count
        /\ c.next = [b.next EXCEPT ![left] = node] /\ c.prev = [b.prev EXCEPT ![node] = left]
    BY <1>1, <2>2 DEF Link, ListRecords
  <2> HIDE DEF c
  <2>4. /\ m \in ListRecords /\ m.count = c.count + 1 /\ m.next = c.next /\ m.prev = c.prev
    BY <2>3 DEF OneMore, ListRecords
  <2> HIDE DEF m
  <2>5. l.next \in [Pointers -> Pointers] /\ l.prev \in [Pointers -> Pointers]
    BY DEF ListRecords
  <2> QED BY <1>1, <2>1, <2>2, <2>3, <2>4, <2>5
<1> HIDE DEF m
<1>3. /\ t \in Seq(Nodes) /\ DOMAIN t = 1..Len(t) /\ Len(t) = Len(s) + 1
      /\ \A i \in 1..(Len(s) + 1) : t[i] = IF i < k THEN s[i] ELSE IF i = k THEN node ELSE s[i - 1]
  BY DEF With
<1>4. \A i \in 0..(Len(s) + 2) :
        At(t, i) = IF i < k THEN At(s, i) ELSE IF i = k THEN node ELSE At(s, i - 1)
  BY <1>3 DEF At
<1>5. Distinct(t)
  <2>1. \A i, j \in 1..Len(s) : i # j => s[i] # s[j]
    BY DEF Distinct
  <2> HIDE DEF t
  <2>2. \A i \in 1..Len(s) : s[i] # node
    OBVIOUS
  <2>3. SUFFICES ASSUME NEW i \in 1..(Len(s) + 1), NEW j \in 1..(Len(s) + 1), i < j
                 PROVE  t[i] # t[j]
    BY <1>3 DEF Distinct
  <2>4. CASE j < k
    <3>1. t[i] = s[i] /\ t[j] = s[j] /\ i # j /\ i \in 1..Len(s) /\ j \in 1..Len(s)
      BY <2>3, <2>4, <1>3
    <3> QED BY <3>1, <2>1
  <2>5. CASE i < k /\ j = k
    <3>1. t[i] = s[i] /\ t[j] = node /\ i \in 1..Len(s)
      BY <2>3, <2>5, <1>3
    <3> QED BY <3>1, <2>2
  <2>6. CASE i < k /\ k < j
    <3>1. t[i] = s[i] /\ t[j] = s[j - 1] /\ i # j - 1 /\ j - 1 \in 1..Len(s) /\ i \in 1..Len(s)
      BY <2>3, <2>6, <1>3
    <3> QED BY <3>1, <2>1
  <2>7. CASE i = k
    <3>1. t[i] = node /\ t[j] = s[j - 1] /\ j - 1 \in 1..Len(s)
      BY <2>3, <2>7, <1>3
    <3> QED BY <3>1, <2>2
  <2>8. CASE k < i
    <3>1. /\ t[i] = s[i - 1] /\ t[j] = s[j - 1] /\ i - 1 # j - 1
          /\ i - 1 \in 1..Len(s) /\ j - 1 \in 1..Len(s)
      BY <2>3, <2>8, <1>3
    <3> QED BY <3>1, <2>1
  <2> QED BY <2>3, <2>4, <2>5, <2>6, <2>7, <2>8
<1> HIDE DEF t
<1>6. m.count = Len(t)
  BY <1>2, <1>3 DEF Represents
<1>7. ASSUME NEW i \in 0..Len(t)
      PROVE  m.next[At(t, i)] = At(t, i + 1) /\ m.prev[At(t, i + 1)] = At(t, i)
  <2>1. CASE i < k - 1
    <3>1. /\ At(t, i) = At(s, i) /\ At(t, i + 1) = At(s, i + 1)
          /\ i \in 0..Len(s)
      BY <2>1, <1>3, <1>4
    <3>2. At(s, i) # left /\ At(s, i) # node /\ At(s, i + 1) # right /\ At(s, i + 1) # node
      BY <2>1, <3>1, <1>0, Places
    <3>3. l.next[At(s, i)] = At(s, i + 1) /\ l.prev[At(s, i + 1)] = At(s, i)
      BY <3>1 DEF Represents
    <3>4. At(s, i) \in Pointers /\ At(s, i + 1) \in Pointers
      BY <3>1, Places
    <3> QED BY <3>1, <3>2, <3>3, <3>4, <1>2
  <2>2. CASE i = k - 1
    <3>1. At(t, i) = left /\ At(t, i + 1) = node
      BY <2>2, <1>3, <1>4
    <3> QED BY <3>1, <1>1, <1>2
  <2>3. CASE i = k
    <3>1. At(t, i) = node /\ At(t, i + 1) = right
      BY <2>3, <1>3, <1>4
    <3> QED BY <3>1, <1>1, <1>2
  <2>4. CASE i > k
    <3>1. /\ At(t, i) = At(s, i - 1) /\ At(t, i + 1) = At(s, i)
          /\ i - 1 \in 0..Len(s) /\ (i - 1) + 1 = i
      BY <2>4, <1>3, <1>4
    <3>2. At(s, i - 1) # left /\ At(s, i - 1) # node /\ At(s, i) # right /\ At(s, i) # node
      BY <2>4, <3>1, <1>0, Places
    <3>3. l.next[At(s, i - 1)] = At(s, i) /\ l.prev[At(s, i)] = At(s, i - 1)
      BY <3>1 DEF Represents
    <3> QED BY <3>1, <3>2, <3>3, <1>2, Places
  <2> QED BY <2>1, <2>2, <2>3, <2>4, <1>3
<1> QED BY <1>2, <1>3, <1>5, <1>6, <1>7 DEF Represents, m, t

\* list_pop, list_pop_left and list_remove: linking the two neighbours of the
\* k-th node takes it out of the list (linked_list.c:44-74).
LEMMA UnlinkStep ==
  ASSUME NEW l \in ListRecords, NEW s \in Seq(Nodes), Represents(l, s), Distinct(s),
         NEW k \in 1..Len(s)
  PROVE  LET m == OneLess(Link(l, At(s, k - 1), At(s, k + 1)))
         IN  /\ m \in ListRecords
             /\ Without(s, k) \in Seq(Nodes) /\ Distinct(Without(s, k))
             /\ \A i \in 1..Len(Without(s, k)) : Without(s, k)[i] # s[k]
             /\ Represents(m, Without(s, k))
<1> DEFINE left == At(s, k - 1)
           right == At(s, k + 1)
           b == Link(l, left, right)
           m == OneLess(b)
           t == Without(s, k)
<1>1. left \in Pointers /\ right \in Pointers /\ left # right
  BY Places
<1>2. /\ m \in ListRecords /\ m.count = l.count - 1
      /\ \A p \in Pointers :
           /\ m.next[p] = IF p = left THEN right ELSE l.next[p]
           /\ m.prev[p] = IF p = right THEN left ELSE l.prev[p]
  <2> HIDE DEF left, right
  <2>1. /\ b \in ListRecords /\ b.count = l.count
        /\ b.next = [l.next EXCEPT ![left] = right] /\ b.prev = [l.prev EXCEPT ![right] = left]
    BY <1>1 DEF Link, ListRecords
  <2> HIDE DEF b
  <2>2. /\ m \in ListRecords /\ m.count = b.count - 1 /\ m.next = b.next /\ m.prev = b.prev
    <3>1. b.count - 1 \in Int
      BY <2>1 DEF ListRecords
    <3>2. m = [b EXCEPT !.count = b.count - 1]
      BY DEF OneLess
    <3> QED BY <2>1, <3>1, <3>2 DEF ListRecords
  <2> HIDE DEF m
  <2>3. l.next \in [Pointers -> Pointers] /\ l.prev \in [Pointers -> Pointers]
    BY DEF ListRecords
  <2> QED BY <1>1, <2>1, <2>2, <2>3
<1> HIDE DEF m
<1>3. /\ t \in Seq(Nodes) /\ DOMAIN t = 1..Len(t) /\ Len(t) = Len(s) - 1
      /\ \A i \in 1..(Len(s) - 1) : t[i] = IF i < k THEN s[i] ELSE s[i + 1]
  BY DEF Without
<1>4. \A i \in 0..Len(s) : At(t, i) = IF i < k THEN At(s, i) ELSE At(s, i + 1)
  BY <1>3 DEF At
<1>5. Distinct(t) /\ \A i \in 1..Len(t) : t[i] # s[k]
  <2>1. \A i, j \in 1..Len(s) : i # j => s[i] # s[j]
    BY DEF Distinct
  <2> HIDE DEF t
  <2>2. ASSUME NEW i \in 1..(Len(s) - 1), NEW j \in 1..(Len(s) - 1), i < j
        PROVE  t[i] # t[j]
    <3>1. CASE j < k
      BY <2>1, <2>2, <3>1, <1>3
    <3>2. CASE i < k /\ k <= j
      <4>1. t[i] = s[i] /\ t[j] = s[j + 1] /\ i # j + 1 /\ i \in 1..Len(s) /\ j + 1 \in 1..Len(s)
        BY <2>2, <3>2, <1>3
      <4> QED BY <4>1, <2>1
    <3>3. CASE k <= i
      BY <2>1, <2>2, <3>3, <1>3
    <3> QED BY <2>2, <3>1, <3>2, <3>3
  <2>3. ASSUME NEW i \in 1..(Len(s) - 1)
        PROVE  t[i] # s[k]
    BY <2>1, <1>3
  <2>4. Distinct(t)
    BY <2>2, <1>3 DEF Distinct
  <2> QED BY <2>3, <2>4, <1>3
<1> HIDE DEF t
<1>6. m.count = Len(t)
  BY <1>2, <1>3 DEF Represents
<1>7. ASSUME NEW i \in 0..Len(t)
      PROVE  m.next[At(t, i)] = At(t, i + 1) /\ m.prev[At(t, i + 1)] = At(t, i)
  <2>1. CASE i < k - 1
    <3>1. /\ At(t, i) = At(s, i) /\ At(t, i + 1) = At(s, i + 1)
          /\ i \in 0..Len(s)
      BY <2>1, <1>3, <1>4
    <3>2. At(s, i) # left /\ At(s, i + 1) # right
      BY <2>1, <3>1, Places
    <3>3. l.next[At(s, i)] = At(s, i + 1) /\ l.prev[At(s, i + 1)] = At(s, i)
      BY <3>1 DEF Represents
    <3>4. At(s, i) \in Pointers /\ At(s, i + 1) \in Pointers
      BY <3>1, Places
    <3> QED BY <3>1, <3>2, <3>3, <3>4, <1>2
  <2>2. CASE i = k - 1
    <3>1. At(t, i) = left /\ At(t, i + 1) = right
      BY <2>2, <1>3, <1>4
    <3> QED BY <3>1, <1>1, <1>2
  <2>3. CASE i > k - 1
    <3>1. /\ At(t, i) = At(s, i + 1) /\ At(t, i + 1) = At(s, (i + 1) + 1)
          /\ i + 1 \in 0..Len(s)
      BY <2>3, <1>3, <1>4
    <3>2. At(s, i + 1) # left /\ At(s, (i + 1) + 1) # right
      BY <2>3, <3>1, Places
    <3>3. l.next[At(s, i + 1)] = At(s, (i + 1) + 1) /\ l.prev[At(s, (i + 1) + 1)] = At(s, i + 1)
      BY <3>1 DEF Represents
    <3> QED BY <3>1, <3>2, <3>3, <1>2, Places
  <2> QED BY <2>1, <2>2, <2>3, <1>3
<1> QED BY <1>2, <1>3, <1>5, <1>6, <1>7 DEF Represents, m, t

\* Freeing a node that is not in the list leaves the list alone.
LEMMA FreeStep ==
  ASSUME NEW l \in ListRecords, NEW s \in Seq(Nodes), Represents(l, s), Distinct(s),
         NEW node \in Nodes, \A i \in 1..Len(s) : s[i] # node
  PROVE  Freed(l, node) \in ListRecords /\ Represents(Freed(l, node), s)
<1>1. \A i \in 0..(Len(s) + 1) : At(s, i) # node /\ At(s, i) \in Pointers
  <2> TAKE i \in 0..(Len(s) + 1)
  <2>1. CASE i \in 1..Len(s)
    BY <2>1, Places
  <2>2. CASE i = 0
    BY <2>2, Addresses DEF At
  <2>3. CASE i = Len(s) + 1
    BY <2>3, Addresses DEF At
  <2> QED BY <2>1, <2>2, <2>3
<1>2. \A i \in 0..Len(s) : i \in 0..(Len(s) + 1) /\ i + 1 \in 0..(Len(s) + 1)
  OBVIOUS
<1> QED BY <1>1, <1>2, FreedPointers DEF Represents

\* The four ways a sequence grows and shrinks at its ends.
LEMMA Ends ==
  ASSUME NEW s \in Seq(Nodes), NEW node \in Nodes
  PROVE  /\ Append(s, node) = With(s, Len(s) + 1, node)
         /\ <<node>> \o s = With(s, 1, node)
         /\ Len(s) > 0 => Tail(s) = Without(s, 1)
         /\ Len(s) > 0 => SubSeq(s, 1, Len(s) - 1) = Without(s, Len(s))
<1>1. Append(s, node) = With(s, Len(s) + 1, node)
  <2>1. With(s, Len(s) + 1, node) \in Seq(Nodes) /\ Len(With(s, Len(s) + 1, node)) = Len(s) + 1
    BY DEF With
  <2>2. \A i \in 1..(Len(s) + 1) : Append(s, node)[i] = With(s, Len(s) + 1, node)[i]
    BY DEF With
  <2> QED BY <2>1, <2>2, SeqEqual
<1>2. <<node>> \o s = With(s, 1, node)
  BY DEF With
<1>3. ASSUME Len(s) > 0
      PROVE  Tail(s) = Without(s, 1)
  <2>1. Without(s, 1) \in Seq(Nodes) /\ Len(Without(s, 1)) = Len(s) - 1
    BY <1>3 DEF Without
  <2>2. Tail(s) \in Seq(Nodes) /\ Len(Tail(s)) = Len(s) - 1
    BY <1>3
  <2>3. \A i \in 1..(Len(s) - 1) : Tail(s)[i] = Without(s, 1)[i]
    BY <1>3 DEF Without
  <2> QED BY <2>1, <2>2, <2>3, SeqEqual
<1>4. Len(s) > 0 => SubSeq(s, 1, Len(s) - 1) = Without(s, Len(s))
  BY DEF Without
<1> QED BY <1>1, <1>2, <1>3, <1>4

-----------------------------------------------------------------------------
(* The calls *)

\* What the nodes at the ends of the list are called in the code.
LEMMA EndNodes ==
  ASSUME ListInv
  PROVE  /\ list.prev[TailNode] = At(line, Len(line))
         /\ list.next[HeadNode] = At(line, 1)
         /\ TailNode = At(line, Len(line) + 1) /\ HeadNode = At(line, 0)
         /\ \A k \in 1..Len(line) :
              /\ At(line, k) = line[k] /\ line[k] \in Nodes
              /\ list.next[line[k]] = At(line, k + 1) /\ list.prev[line[k]] = At(line, k - 1)
         /\ list_is_empty <=> Len(line) = 0
<1>1. /\ line \in Seq(Nodes) /\ Len(line) \in Nat /\ list.count = Len(line)
      /\ At(line, 0) = HeadNode /\ At(line, Len(line) + 1) = TailNode
      /\ \A k \in 1..Len(line) : At(line, k) = line[k] /\ line[k] \in Nodes
  BY DEF ListInv, ListType, ListIsSequence, Represents, At
<1>2. \A i \in 0..Len(line) :
        list.next[At(line, i)] = At(line, i + 1) /\ list.prev[At(line, i + 1)] = At(line, i)
  BY DEF ListInv, ListIsSequence, Represents
<1>3. list.prev[TailNode] = At(line, Len(line)) /\ list.next[HeadNode] = At(line, 1)
  BY <1>1, <1>2
<1>4. ASSUME NEW k \in 1..Len(line)
      PROVE  list.next[line[k]] = At(line, k + 1) /\ list.prev[line[k]] = At(line, k - 1)
  <2>1. k \in 0..Len(line) /\ k - 1 \in 0..Len(line) /\ (k - 1) + 1 = k
    BY <1>1
  <2> QED BY <1>1, <1>2, <2>1
<1> QED BY <1>1, <1>3, <1>4 DEF list_is_empty

\* list_append (linked_list.c:13-27)
LEMMA AppendKeeps ==
  ASSUME ListInv, NEW node \in Nodes, NEW obj \in Data, list_append(node, obj)
  PROVE  ListInv'
<1>1. /\ line \in Seq(Nodes) /\ Len(line) + 1 \in 1..(Len(line) + 1) /\ (Len(line) + 1) - 1 = Len(line)
      /\ list \in ListRecords
  BY DEF ListInv, ListType
<1>2. list' = OneMore(Link(Link(Store(list, node, obj), node, At(line, Len(line) + 1)),
                           At(line, (Len(line) + 1) - 1), node))
  BY <1>1, EndNodes DEF list_append, Appended
<1>3. line' = With(line, Len(line) + 1, node) /\ inHand' = inHand /\ node \notin inHand
  BY <1>1, Ends DEF list_append, Unused
<1>4. \A i \in 1..Len(line) : line[i] # node
  BY <1>1 DEF list_append, Unused, Members
<1>5. list' \in ListRecords /\ line' \in Seq(Nodes) /\ Distinct(line') /\ Represents(list', line')
  BY <1>1, <1>2, <1>3, <1>4, InsertStep DEF ListInv, ListIsSequence
<1>6. Members' \subseteq Members \cup {node}
  BY <1>1, <1>3 DEF Members, With
<1> QED BY <1>3, <1>5, <1>6 DEF ListInv, ListType, ListIsSequence

\* list_append_left (linked_list.c:29-43)
LEMMA AppendLeftKeeps ==
  ASSUME ListInv, NEW node \in Nodes, NEW obj \in Data, list_append_left(node, obj)
  PROVE  ListInv'
<1>1. line \in Seq(Nodes) /\ 1 \in 1..(Len(line) + 1) /\ 1 - 1 = 0 /\ list \in ListRecords
  BY DEF ListInv, ListType
<1>2. list' = OneMore(Link(Link(Store(list, node, obj), node, At(line, 1)), At(line, 1 - 1), node))
  BY <1>1, EndNodes DEF list_append_left, AppendedLeft
<1>3. line' = With(line, 1, node) /\ inHand' = inHand /\ node \notin inHand
  BY <1>1, Ends DEF list_append_left, Unused
<1>4. \A i \in 1..Len(line) : line[i] # node
  BY <1>1 DEF list_append_left, Unused, Members
<1>5. list' \in ListRecords /\ line' \in Seq(Nodes) /\ Distinct(line') /\ Represents(list', line')
  BY <1>1, <1>2, <1>3, <1>4, InsertStep DEF ListInv, ListIsSequence
<1>6. Members' \subseteq Members \cup {node}
  BY <1>1, <1>3 DEF Members, With
<1> QED BY <1>3, <1>5, <1>6 DEF ListInv, ListType, ListIsSequence

\* list_pop (linked_list.c:44-53)
LEMMA PopKeeps ==
  ASSUME ListInv, list_pop
  PROVE  ListInv'
<1> DEFINE k == Len(line)
<1>1. line \in Seq(Nodes) /\ k \in 1..Len(line) /\ list \in ListRecords /\ Len(line) > 0
  BY EndNodes DEF ListInv, ListType, list_pop
<1>2. list' = OneLess(Link(list, At(line, k - 1), At(line, k + 1)))
  BY <1>1, EndNodes DEF list_pop, Popped
<1>3. line' = Without(line, k) /\ inHand' = inHand \cup {line[k]} /\ line[k] \in Nodes
  BY <1>1, EndNodes, Ends DEF list_pop
<1>4. /\ list' \in ListRecords /\ line' \in Seq(Nodes) /\ Distinct(line') /\ Represents(list', line')
      /\ \A i \in 1..Len(line') : line'[i] # line[k]
  BY <1>1, <1>2, <1>3, UnlinkStep DEF ListInv, ListIsSequence
<1>5. Members' \subseteq Members \ {line[k]}
  BY <1>1, <1>3, <1>4 DEF Members, Without
<1> QED BY <1>3, <1>4, <1>5 DEF ListInv, ListType, ListIsSequence

\* list_pop_left (linked_list.c:55-64)
LEMMA PopLeftKeeps ==
  ASSUME ListInv, list_pop_left
  PROVE  ListInv'
<1>1. line \in Seq(Nodes) /\ 1 \in 1..Len(line) /\ list \in ListRecords /\ Len(line) > 0
  BY EndNodes DEF ListInv, ListType, list_pop_left
<1>2. list' = OneLess(Link(list, At(line, 1 - 1), At(line, 1 + 1)))
  BY <1>1, EndNodes DEF list_pop_left, PoppedLeft
<1>3. line' = Without(line, 1) /\ inHand' = inHand \cup {line[1]} /\ line[1] \in Nodes
  BY <1>1, EndNodes, Ends DEF list_pop_left
<1>4. /\ list' \in ListRecords /\ line' \in Seq(Nodes) /\ Distinct(line') /\ Represents(list', line')
      /\ \A i \in 1..Len(line') : line'[i] # line[1]
  BY <1>1, <1>2, <1>3, UnlinkStep DEF ListInv, ListIsSequence
<1>5. Members' \subseteq Members \ {line[1]}
  BY <1>1, <1>3, <1>4 DEF Members, Without
<1> QED BY <1>3, <1>4, <1>5 DEF ListInv, ListType, ListIsSequence

\* list_remove and list_clear free the node they unlink (linked_list.c:66-81).
LEMMA UnlinkAndFree ==
  ASSUME ListInv, NEW k \in 1..Len(line),
         list' = Freed(OneLess(Link(list, At(line, k - 1), At(line, k + 1))), line[k]),
         line' = Without(line, k), inHand' = inHand
  PROVE  ListInv'
<1> DEFINE m == OneLess(Link(list, At(line, k - 1), At(line, k + 1)))
<1>1. line \in Seq(Nodes) /\ list \in ListRecords /\ line[k] \in Nodes
  BY EndNodes DEF ListInv, ListType
<1>2. /\ m \in ListRecords /\ line' \in Seq(Nodes) /\ Distinct(line') /\ Represents(m, line')
      /\ \A i \in 1..Len(line') : line'[i] # line[k]
  BY <1>1, UnlinkStep DEF ListInv, ListIsSequence
<1> HIDE DEF m
<1>3. list' \in ListRecords /\ Represents(list', line')
  BY <1>1, <1>2, FreeStep DEF m
<1>4. Members' \subseteq Members
  BY <1>1 DEF Members, Without
<1> QED BY <1>2, <1>3, <1>4 DEF ListInv, ListType, ListIsSequence

\* An iteration of list_clear (linked_list.c:76-81).
LEMMA ClearOneKeeps ==
  ASSUME ListInv, list_clear_one
  PROVE  ListInv'
<1>1. line \in Seq(Nodes) /\ 1 \in 1..Len(line) /\ Len(line) > 0
  BY EndNodes DEF ListInv, ListType, list_clear_one
<1>2. list' = Freed(OneLess(Link(list, At(line, 1 - 1), At(line, 1 + 1))), line[1])
  BY <1>1, EndNodes DEF list_clear_one, PoppedLeft
<1>3. line' = Without(line, 1) /\ inHand' = inHand /\ line[1] \in Nodes
  BY <1>1, EndNodes, Ends DEF list_clear_one
<1> QED BY <1>1, <1>2, <1>3, UnlinkAndFree

\* The caller frees a node in its hand.
LEMMA FreeKeeps ==
  ASSUME ListInv, NEW node \in Nodes, free(node)
  PROVE  ListInv'
<1>1. /\ line \in Seq(Nodes) /\ list \in ListRecords /\ line' = line
      /\ inHand' = inHand \ {node} /\ list' = Freed(list, node) /\ node \in inHand
  BY DEF ListInv, ListType, free
<1>2. \A i \in 1..Len(line) : line[i] # node
  BY <1>1 DEF ListInv, ListIsSequence, Members
<1>3. list' \in ListRecords /\ Represents(list', line')
  BY <1>1, <1>2, FreeStep DEF ListInv, ListIsSequence
<1>4. Members' = Members
  BY <1>1 DEF Members
<1> QED BY <1>1, <1>3, <1>4 DEF ListInv, ListType, ListIsSequence

\* An empty list: the sentinels point at each other (linked_list.c:129-143).
LEMMA InitKeeps ==
  ASSUME list_init
  PROVE  ListInv
<1>1. list \in ListRecords /\ line \in Seq(Nodes) /\ inHand \in SUBSET Nodes
  BY Addresses DEF list_init, ListRecords
<1>2. Represents(list, line)
  BY Addresses DEF list_init, Represents, At
<1>3. Distinct(line) /\ Members \cap inHand = {}
  BY DEF list_init, Distinct
<1> QED BY <1>1, <1>2, <1>3 DEF ListInv, ListType, ListIsSequence

\* Whatever the calls, the pointers represent the sequence linked_list.h
\* promises, whose nodes are distinct and none of them in a caller's hand.
THEOREM LinkedListIsSequence == ListSpec => []ListIsSequence
<1>1. list_init => ListInv
  BY InitKeeps
<1>2. ListInv /\ [ListNext]_listVars => ListInv'
  <2> SUFFICES ASSUME ListInv, [ListNext]_listVars
               PROVE  ListInv'
    OBVIOUS
  <2>1. ASSUME NEW node \in Nodes, NEW obj \in Data, list_append(node, obj)
        PROVE  ListInv'
    BY <2>1, AppendKeeps
  <2>2. ASSUME NEW node \in Nodes, NEW obj \in Data, list_append_left(node, obj)
        PROVE  ListInv'
    BY <2>2, AppendLeftKeeps
  <2>3. CASE list_pop
    BY <2>3, PopKeeps
  <2>4. CASE list_pop_left
    BY <2>4, PopLeftKeeps
  <2>5. CASE list_clear_one
    BY <2>5, ClearOneKeeps
  <2>6. ASSUME NEW k \in DOMAIN line, list_remove(k)
        PROVE  ListInv'
    <3>1. k \in 1..Len(line)
      BY <2>6 DEF ListInv, ListType
    <3>2. /\ list' = Freed(OneLess(Link(list, At(line, k - 1), At(line, k + 1))), line[k])
          /\ line' = Without(line, k) /\ inHand' = inHand
      BY <2>6, <3>1, EndNodes DEF list_remove, Removed
    <3> QED BY <3>1, <3>2, UnlinkAndFree
  <2>7. ASSUME NEW node \in Nodes, free(node)
        PROVE  ListInv'
    BY <2>7, FreeKeeps
  <2>8. CASE UNCHANGED listVars
    BY <2>8 DEF listVars, ListInv, ListType, ListIsSequence, Members, Represents, Distinct
  <2> QED BY <2>1, <2>2, <2>3, <2>4, <2>5, <2>6, <2>7, <2>8 DEF ListNext
<1>3. ListInv => ListIsSequence
  BY DEF ListInv
<1> QED BY <1>1, <1>2, <1>3, PTL DEF ListSpec

-----------------------------------------------------------------------------
(* The calls that the threads of a run make *)

\* The job the receiver offers is a job, so it may be put in the list; one that
\* is about to arrive is not the last.
ReceiverInv ==
  /\ latest \in 0..NumJobs
  /\ rpc = "offer" => latest \in Jobs
  /\ rpc = "arrive" => latest < NumJobs

QueueInv == ListInv /\ ReceiverInv

\* Steps that leave the list alone.
LEMMA ListUntouched ==
  ASSUME ListInv, UNCHANGED listVars
  PROVE  ListInv'
BY DEF listVars, ListInv, ListType, ListIsSequence, Members, Represents, Distinct

\* The receiver and the list keep their invariant, whoever steps.
THEOREM QueueInvariant == Spec => []QueueInv
<1>1. Init => QueueInv
  <2> SUFFICES ASSUME Init PROVE QueueInv
    OBVIOUS
  <2>1. ListInv
    BY InitKeeps DEF Init
  <2>2. ReceiverInv
    BY StatisticsAssumption DEF Init, ReceiverInv
  <2> QED BY <2>1, <2>2 DEF QueueInv
<1>2. QueueInv /\ [Next]_vars => QueueInv'
  <2> SUFFICES ASSUME QueueInv, [Next]_vars PROVE QueueInv'
    OBVIOUS
  <2> USE DEF QueueInv, ReceiverInv
  <2>1. CASE Tick
    BY <2>1, ListUntouched DEF Tick, queueVars, receiverVars
  <2>2. CASE Arrive
    BY <2>2, ListUntouched, StatisticsAssumption DEF Arrive, queueVars, Jobs
  <2>3. CASE CheckTermination \/ StopReceiving
    BY <2>3, ListUntouched DEF CheckTermination, StopReceiving, queueVars
  <2>4. CASE Drop
    BY <2>4, ListUntouched DEF Drop, queueVars
  <2>5. CASE Enqueue
    <3>1. PICK node \in Nodes : list_append(node, latest)
      BY <2>5 DEF Enqueue
    <3>2. latest \in Data
      BY <2>5, StatisticsAssumption DEF Enqueue
    <3>3. ListInv'
      BY <3>1, <3>2, AppendKeeps
    <3> QED BY <2>5, <3>3 DEF Enqueue
  <2>6. ASSUME NEW p \in Printers, Dequeue(p)
        PROVE  QueueInv'
    BY <2>6, PopLeftKeeps DEF Dequeue, receiverVars
  <2>7. ASSUME NEW p \in Printers, BeginService(p) \/ EndService(p)
        PROVE  QueueInv'
    BY <2>7, ListUntouched DEF BeginService, EndService, queueVars, receiverVars
  <2>8. ASSUME NEW p \in Printers, Depart(p)
        PROVE  QueueInv'
    <3>1. elem[p] \in Nodes
      BY <2>8 DEF Depart, free, ListInv, ListType
    <3>2. ListInv'
      BY <2>8, <3>1, FreeKeeps DEF Depart
    <3> QED BY <2>8, <3>2 DEF Depart, receiverVars
  <2>9. CASE Stop \/ Drained \/ End
    BY <2>9, ListUntouched DEF Stop, Drained, End, queueVars, receiverVars
  <2>10. CASE DrainOne
    BY <2>10, ClearOneKeeps DEF DrainOne, receiverVars
  <2>11. CASE Reported \/ UNCHANGED vars
    BY <2>11, ListUntouched DEF Reported, vars, queueVars, receiverVars
  <2> QED BY <2>1, <2>2, <2>3, <2>4, <2>5, <2>6, <2>7, <2>8, <2>9, <2>10, <2>11 DEF Next
<1> QED BY <1>1, <1>2, PTL DEF Spec

\* The list and the node a printer holds satisfy ListIsSequence at every moment
\* of a run: what the receiver appends and the printers and the catcher take out
\* keeps the queue a queue (job_receiver.c:145, printer.c:111 and 152,
\* signalcatcher.c:20-24).
THEOREM JobQueueIsSequence == Spec => []ListIsSequence
<1>1. QueueInv => ListIsSequence
  BY DEF QueueInv, ListInv
<1> QED BY <1>1, QueueInvariant, PTL

-----------------------------------------------------------------------------
(* The longest the queue has been *)

LEMMA MaxOfTwo ==
  ASSUME NEW a \in Int, NEW b \in Int
  PROVE  Max({a, b}) = IF a >= b THEN a ELSE b
<1>1. \E x \in {a, b} : \A y \in {a, b} : x >= y
  OBVIOUS
<1>2. Max({a, b}) \in {a, b} /\ \A y \in {a, b} : Max({a, b}) >= y
  BY <1>1 DEF Max
<1> QED BY <1>2

\* The peak is at least the length the queue has.
LongestInv == peak \in Nat /\ Len(line) <= peak

\* Steps that make the queue no longer.
LEMMA NoLonger ==
  ASSUME LongestInv, peak' = peak, Len(line) \in Nat, Len(line') \in Nat, Len(line') <= Len(line)
  PROVE  LongestInv'
BY DEF LongestInv

\* The peak grows with the queue.
THEOREM LongestInvariant == Spec => []LongestInv
<1>1. Init => LongestInv
  BY DEF Init, list_init, LongestInv
<1>2. QueueInv /\ QueueInv' /\ LongestInv /\ [Next]_vars => LongestInv'
  <2> SUFFICES ASSUME QueueInv, QueueInv', LongestInv, [Next]_vars PROVE LongestInv'
    OBVIOUS
  <2>0. /\ line \in Seq(Nodes) /\ line' \in Seq(Nodes)
        /\ Len(line) \in Nat /\ Len(line') \in Nat
        /\ (list_is_empty <=> Len(line) = 0)
    BY EndNodes DEF QueueInv, ListInv, ListType, ListIsSequence, Represents, list_length
  <2>1. CASE Enqueue
    <3>1. Len(line') = Len(line) + 1
      BY <2>0, <2>1 DEF Enqueue, list_append
    <3>2. PICK n \in Nat : n = Len(line')
      BY <2>0
    <3>3. peak' = Max({peak, n}) /\ peak \in Nat
      BY <2>1, <3>2 DEF Enqueue, LongestInv
    <3>4. peak' = IF peak >= n THEN peak ELSE n
      BY <3>2, <3>3, MaxOfTwo
    <3> QED BY <3>2, <3>3, <3>4 DEF LongestInv
  <2>2. ASSUME NEW p \in Printers, Dequeue(p) PROVE LongestInv'
    <3>1. Len(line') <= Len(line) /\ peak' = peak
      BY <2>0, <2>2 DEF Dequeue, list_pop_left
    <3> QED BY <2>0, <3>1, NoLonger
  <2>3. CASE DrainOne
    <3>1. Len(line') <= Len(line) /\ peak' = peak
      BY <2>0, <2>3 DEF DrainOne, list_clear_one
    <3> QED BY <2>0, <3>1, NoLonger
  <2>4. CASE ~Enqueue /\ ~DrainOne /\ \A p \in Printers : ~Dequeue(p)
    <3>1. line' = line /\ peak' = peak
      BY <2>4 DEF Next, vars, Tick, CheckTermination, Arrive, StopReceiving, Drop, BeginService,
                  EndService, Depart, free, Stop, Drained, End, Reported, queueVars, listVars
    <3> QED BY <2>0, <3>1, NoLonger
  <2> QED BY <2>1, <2>2, <2>3, <2>4
<1> QED BY <1>1, <1>2, QueueInvariant, PTL DEF Spec

-----------------------------------------------------------------------------
(* What the nodes hold *)

\* list_append stores the job in a node of its own (linked_list.c:13-27).
LEMMA AppendData ==
  ASSUME ListInv, NEW node \in Nodes, NEW obj \in Data, list_append(node, obj)
  PROVE  /\ list'.data = [list.data EXCEPT ![node] = obj]
         /\ line' = Append(line, node) /\ inHand' = inHand
         /\ node \notin inHand /\ \A i \in 1..Len(line) : line[i] # node
<1> DEFINE a == Store(list, node, obj)
           b == Link(a, node, TailNode)
           c == Link(b, list.prev[TailNode], node)
<1>1. list \in ListRecords /\ line \in Seq(Nodes)
  BY DEF ListInv, ListType
<1>2. a.data = [list.data EXCEPT ![node] = obj]
  BY <1>1 DEF Store, ListRecords
<1>3. OneMore(c).data = c.data /\ c.data = b.data /\ b.data = a.data
  BY DEF Link, OneMore, Store
<1>4. list' = OneMore(c)
  BY DEF list_append, Appended
<1> QED BY <1>1, <1>2, <1>3, <1>4 DEF list_append, Unused, Members

\* list_pop_left takes the first node (linked_list.c:55-64).
LEMMA PopLeftData ==
  ASSUME ListInv, list_pop_left
  PROVE  /\ list'.data = list.data
         /\ Len(line) > 0 /\ list_first = line[1]
         /\ line' = Tail(line) /\ inHand' = inHand \cup {line[1]}
<1>1. list \in ListRecords /\ line \in Seq(Nodes) /\ Len(line) > 0 /\ ~list_is_empty
  BY EndNodes DEF ListInv, ListType, list_pop_left
<1>2. list.next[HeadNode] = line[1]
  BY <1>1, EndNodes
<1>3. PoppedLeft(list).data = list.data
  BY DEF PoppedLeft, Link, OneLess
<1> QED BY <1>1, <1>2, <1>3 DEF list_pop_left, list_first

\* So does an iteration of list_clear, which frees it (linked_list.c:76-81).
LEMMA ClearOneData ==
  ASSUME ListInv, list_clear_one
  PROVE  /\ list'.data = [list.data EXCEPT ![line[1]] = NoData]
         /\ Len(line) > 0 /\ list_first = line[1]
         /\ line' = Tail(line) /\ inHand' = inHand
<1>1. list \in ListRecords /\ line \in Seq(Nodes) /\ Len(line) > 0 /\ ~list_is_empty
  BY EndNodes DEF ListInv, ListType, list_clear_one
<1>2. list.next[HeadNode] = line[1]
  BY <1>1, EndNodes
<1>3. Freed(PoppedLeft(list), line[1]).data = [list.data EXCEPT ![line[1]] = NoData]
  BY DEF PoppedLeft, Link, OneLess, Freed
<1> QED BY <1>1, <1>2, <1>3 DEF list_clear_one, list_first

\* What was in a freed node is gone (printer.c:152).
LEMMA FreeData ==
  ASSUME ListInv, NEW node \in Nodes, free(node)
  PROVE  /\ list'.data = [list.data EXCEPT ![node] = NoData]
         /\ line' = line /\ inHand' = inHand \ {node} /\ node \in inHand
         /\ \A i \in 1..Len(line) : line[i] # node
<1>1. list'.data = [list.data EXCEPT ![node] = NoData]
  BY DEF free, Freed
<1>2. \A i \in 1..Len(line) : line[i] # node
  BY DEF free, ListInv, ListType, ListIsSequence, Members
<1> QED BY <1>1, <1>2 DEF free

-----------------------------------------------------------------------------
(* The jobs in the queue and in the printers' hands *)

\* The job the i-th node holds, the jobs in the list, and whether job j has been
\* through the receiver.
JobAt(i) == list.data[line[i]]
InLine   == {JobAt(i) : i \in 1..Len(line)}
Entered(j) == j \in 1..latest /\ (rpc = "offer" => j # latest)

\* A printer's node is in its hand, and holds a job no other printer holds.
HoldInv ==
  /\ ppc \in [Printers -> {"ready", "holding", "printing", "printed"}]
  /\ elem \in [Printers -> Nodes \cup {NoNode}]
  /\ \A p \in Printers : ppc[p] = "ready" <=> elem[p] = NoNode
  /\ \A p \in Printers : elem[p] # NoNode => elem[p] \in inHand
  /\ \A p, q \in Printers :
       elem[p] # NoNode /\ elem[q] # NoNode /\ JobOf(p) = JobOf(q) => p = q

\* The jobs in the list and in hand are those that entered and have no outcome.
OutcomeInv ==
  /\ outcome \in [Jobs -> {"none", "served", "dropped", "removed"}]
  /\ \A j \in InLine \cup InHands : Entered(j) /\ outcome[j] = "none"
  /\ \A j \in Jobs : Entered(j) /\ outcome[j] = "none" => j \in InLine \cup InHands
  /\ \A j \in Jobs : outcome[j] # "none" => Entered(j)

\* The list is in the order of arrival, after everything that left it.
OrderInv ==
  /\ \A i, k \in 1..Len(line) : i < k => JobAt(i) < JobAt(k)
  /\ \A j \in LeftQueue, k \in InLine : j < k

WaitInv == HoldInv /\ OutcomeInv /\ OrderInv

-----------------------------------------------------------------------------
(* Walks through the list *)

\* A walk that starts at s[1] and goes from each s[i - 1] to s[i] is s.
LEMMA WalkIsSequence ==
  ASSUME NEW s \in Seq(Nodes), NEW f,
         Len(s) > 0 => f[1] = s[1],
         \A i \in 2..Len(s) : f[i - 1] = s[i - 1] => f[i] = s[i]
  PROVE  \A i \in 1..Len(s) : f[i] = s[i]
<1> DEFINE Below == {e \in Nat \X Nat : e[1] < e[2]}
           Wrong == {i \in 1..Len(s) : f[i] # s[i]}
<1>1. IsWellFoundedOn(Below, Nat)
  BY NatLessThanWellFounded, Zenon DEF OpToRel
<1> SUFFICES ASSUME Wrong # {} PROVE FALSE
  OBVIOUS
<1>2. Wrong \subseteq Nat
  OBVIOUS
<1>3. PICK i \in Wrong : \A k \in Wrong : <<k, i>> \notin Below
  BY <1>1, <1>2, WFMin
<1>4. i \in 1..Len(s) /\ f[i] # s[i] /\ i # 1
  BY <1>3
<1>5. i - 1 \in 1..Len(s) /\ i \in 2..Len(s) /\ <<i - 1, i>> \in Below
  BY <1>4
<1>6. f[i - 1] = s[i - 1]
  BY <1>3, <1>5
<1> QED BY <1>4, <1>5, <1>6

\* list_first and list_next meet the nodes of the sequence in order
\* (linked_list.c:83-117).
LEMMA ForwardIsLine ==
  ASSUME ListInv
  PROVE  Forward = [i \in 1..Len(line) |-> JobAt(i)]
<1> DEFINE n == Len(line)
           Step(f) == [i \in 1..n |-> IF i = 1 THEN list_first ELSE list_next(f[i - 1])]
           walk == CHOOSE f : f = Step(f)
<1>1. line \in Seq(Nodes) /\ n \in Nat /\ list_length = n /\ \A i \in 1..n : line[i] \in Nodes
  BY DEF ListInv, ListType, ListIsSequence, Represents, list_length
<1>2. n > 0 => list_first = line[1]
  BY <1>1, EndNodes DEF list_first
<1>3. \A i \in 2..n : list_next(line[i - 1]) = line[i]
  <2> TAKE i \in 2..n
  <2>1. i - 1 \in 1..n /\ i \in 1..n /\ (i - 1) + 1 = i
    BY <1>1
  <2>2. list.next[line[i - 1]] = line[i]
    BY <2>1, EndNodes
  <2> QED BY <1>1, <2>1, <2>2, Addresses DEF list_next
<1>4. line = Step(line)
  <2>1. \A i \in 1..n : line[i] = IF i = 1 THEN list_first ELSE list_next(line[i - 1])
    BY <1>1, <1>2, <1>3
  <2>2. line = [i \in 1..n |-> line[i]]
    BY <1>1
  <2> QED BY <2>1, <2>2
<1>5. walk = Step(walk)
  BY <1>4, Zenon
<1> HIDE DEF walk
<1>6. \A i \in 1..n : walk[i] = IF i = 1 THEN list_first ELSE list_next(walk[i - 1])
  BY <1>1, <1>5
<1>7. \A i \in 1..n : walk[i] = line[i]
  <2>1. n > 0 => walk[1] = line[1]
    BY <1>1, <1>2, <1>6
  <2>2. ASSUME NEW i \in 2..n, walk[i - 1] = line[i - 1]
        PROVE  walk[i] = line[i]
    <3>1. i \in 1..n /\ i # 1
      BY <1>1
    <3> QED BY <1>3, <1>6, <2>2, <3>1
  <2> QED BY <1>1, <2>1, <2>2, WalkIsSequence
<1>8. Forward = [i \in 1..n |-> list.data[walk[i]]]
  BY <1>1 DEF Forward, walk
<1> QED BY <1>7, <1>8 DEF JobAt

\* list_last and list_prev meet them the other way round.
LEMMA BackwardIsReversed ==
  ASSUME ListInv
  PROVE  Backward = [i \in 1..Len(line) |-> JobAt(Len(line) + 1 - i)]
<1> DEFINE n == Len(line)
           Step(f) == [i \in 1..n |-> IF i = 1 THEN list_last ELSE list_prev(f[i - 1])]
           walk == CHOOSE f : f = Step(f)
           s == [i \in 1..n |-> line[n + 1 - i]]
<1>1. line \in Seq(Nodes) /\ n \in Nat /\ list_length = n /\ \A i \in 1..n : line[i] \in Nodes
  BY DEF ListInv, ListType, ListIsSequence, Represents, list_length
<1>0. s \in Seq(Nodes) /\ Len(s) = n /\ \A i \in 1..n : s[i] = line[n + 1 - i]
  BY <1>1
<1>2. n > 0 => list_last = s[1]
  <2> HAVE n > 0
  <2>1. n \in 1..n /\ s[1] = line[n]
    BY <1>1
  <2> QED BY <1>1, <2>1, EndNodes DEF list_last
<1> HIDE DEF s
<1>3. \A i \in 2..n : list_prev(s[i - 1]) = s[i]
  <2> TAKE i \in 2..n
  <2> DEFINE k == n + 1 - i
  <2>1. /\ k \in 1..n /\ k + 1 \in 1..n /\ k # 0 /\ (k + 1) - 1 = k
        /\ s[i] = line[k] /\ s[i - 1] = line[k + 1]
    <3>1. i \in 1..n /\ i - 1 \in 1..n /\ n + 1 - (i - 1) = k + 1
      BY <1>1
    <3>2. s[i] = line[n + 1 - i] /\ s[i - 1] = line[n + 1 - (i - 1)]
      BY <1>0, <3>1
    <3>3. k \in 1..n /\ k + 1 \in 1..n /\ k # 0 /\ (k + 1) - 1 = k
      BY <1>1
    <3> QED BY <3>1, <3>2, <3>3
  <2> HIDE DEF k
  <2>2. list.prev[line[k + 1]] = line[k]
    BY <2>1, EndNodes
  <2> QED BY <1>1, <2>1, <2>2, Addresses DEF list_prev
<1>4. s = Step(s)
  <2>1. \A i \in 1..n : s[i] = IF i = 1 THEN list_last ELSE list_prev(s[i - 1])
    BY <1>1, <1>2, <1>3
  <2>2. s = [i \in 1..n |-> s[i]]
    BY <1>0
  <2> QED BY <2>1, <2>2
<1>5. walk = Step(walk)
  BY <1>4, Zenon
<1> HIDE DEF walk
<1>6. \A i \in 1..n : walk[i] = IF i = 1 THEN list_last ELSE list_prev(walk[i - 1])
  BY <1>1, <1>5
<1>7. \A i \in 1..n : walk[i] = s[i]
  <2>1. n > 0 => walk[1] = s[1]
    BY <1>1, <1>2, <1>6
  <2>2. ASSUME NEW i \in 2..n, walk[i - 1] = s[i - 1]
        PROVE  walk[i] = s[i]
    <3>1. i \in 1..n /\ i # 1
      BY <1>1
    <3> QED BY <1>3, <1>6, <2>2, <3>1
  <2>3. /\ Len(s) > 0 => walk[1] = s[1]
        /\ \A i \in 2..Len(s) : walk[i - 1] = s[i - 1] => walk[i] = s[i]
    BY <1>0, <2>1, <2>2
  <2>4. \A i \in 1..Len(s) : walk[i] = s[i]
    BY <1>0, <2>3, WalkIsSequence
  <2> QED BY <1>0, <2>4
<1>8. Backward = [i \in 1..n |-> list.data[walk[i]]]
  BY <1>1 DEF Backward, walk
<1> QED BY <1>0, <1>7, <1>8 DEF JobAt

\* The jobs that wait are those in the list.
LEMMA LineIsWaiting ==
  ASSUME QueueInv, WaitInv
  PROVE  InLine = Waiting
<1>1. latest \in 0..NumJobs
  BY DEF QueueInv, ReceiverInv
<1>2. ASSUME NEW j \in InLine PROVE j \in Waiting
  <2>1. j \in 1..latest /\ outcome[j] = "none" /\ j \notin Offered
    BY DEF WaitInv, OutcomeInv, Entered, Offered
  <2>2. j \notin InHands
    BY <1>1, <2>1 DEF WaitInv, OrderInv, LeftQueue
  <2> QED BY <2>1, <2>2 DEF Waiting
<1>3. ASSUME NEW j \in Waiting PROVE j \in InLine
  <2>1. j \in Jobs /\ Entered(j) /\ outcome[j] = "none" /\ j \notin InHands
    BY <1>1, StatisticsAssumption DEF Waiting, Offered, Entered, Jobs
  <2> QED BY <2>1 DEF WaitInv, OutcomeInv
<1> QED BY <1>2, <1>3

\* The walks meet them in order.
LEMMA WalksMeetWaiting ==
  ASSUME QueueInv, WaitInv
  PROVE  QueueHoldsWaitingJobs
<1>1. ListInv /\ Len(line) \in Nat
  BY DEF QueueInv, ListInv, ListType
<1>2. /\ Forward = [i \in 1..Len(line) |-> JobAt(i)]
      /\ Backward = [i \in 1..Len(line) |-> JobAt(Len(line) + 1 - i)]
  BY <1>1, ForwardIsLine, BackwardIsReversed
<1>3. DOMAIN Forward = 1..Len(line) /\ Len(Forward) = Len(line)
  BY <1>1, <1>2
<1>4. {Forward[i] : i \in DOMAIN Forward} = InLine
  BY <1>2, <1>3 DEF InLine
<1>5. \A i, k \in DOMAIN Forward : i < k => Forward[i] < Forward[k]
  BY <1>2, <1>3 DEF WaitInv, OrderInv
<1>6. Backward = [i \in DOMAIN Forward |-> Forward[Len(Forward) + 1 - i]]
  <2>1. \A i \in 1..Len(line) : Len(line) + 1 - i \in 1..Len(line)
    BY <1>1
  <2> QED BY <1>2, <1>3, <2>1
<1> QED BY <1>4, <1>5, <1>6, LineIsWaiting DEF QueueHoldsWaitingJobs, WaitInv, OrderInv

-----------------------------------------------------------------------------
(* The steps of a run keep the jobs that wait in the list *)

\* The jobs that left the queue earlier are jobs of the run.
LEMMA Known ==
  ASSUME QueueInv, WaitInv
  PROVE  /\ InLine \subseteq Jobs /\ InHands \subseteq Jobs /\ LeftQueue \subseteq Jobs
         /\ InLine \cap LeftQueue = {} /\ Jobs \subseteq Int
         /\ \A j : Entered(j) => j \in Jobs
         /\ line \in Seq(Nodes) /\ Len(line) \in Nat /\ NoNode \notin Nodes
         /\ list.data \in [Pointers -> Data \cup {NoData}] /\ Nodes \subseteq Pointers
         /\ \A i \in 1..Len(line) : line[i] \in Nodes /\ line[i] \notin inHand
         /\ \A i, k \in 1..Len(line) : i # k => line[i] # line[k]
<1>1. /\ line \in Seq(Nodes) /\ list \in ListRecords /\ latest \in 0..NumJobs /\ NumJobs \in Nat
      /\ Distinct(line) /\ Members \cap inHand = {} /\ NoNode \notin Nodes /\ Nodes \subseteq Pointers
  BY Addresses, StatisticsAssumption
  DEF QueueInv, ListInv, ListType, ListIsSequence, ReceiverInv, NoNode
<1>2. \A j : Entered(j) => j \in Jobs
  BY <1>1 DEF Entered, Jobs
<1>3. InLine \subseteq Jobs /\ InHands \subseteq Jobs
  BY <1>2 DEF WaitInv, OutcomeInv
<1>4. LeftQueue \subseteq Jobs /\ Jobs \subseteq Int
  <2>1. Jobs \subseteq Int
    BY <1>1 DEF Jobs
  <2> QED BY <1>3, <2>1 DEF LeftQueue
<1>5. InLine \cap LeftQueue = {}
  BY <1>3, <1>4 DEF WaitInv, OrderInv
<1>6. list.data \in [Pointers -> Data \cup {NoData}]
  BY <1>1 DEF ListRecords
<1>7. \A i \in 1..Len(line) : line[i] \in Nodes /\ line[i] \notin inHand
  BY <1>1 DEF Members
<1>8. \A i, k \in 1..Len(line) : i # k => line[i] # line[k]
  BY <1>1 DEF Distinct
<1> QED BY <1>1, <1>2, <1>3, <1>4, <1>5, <1>6, <1>7, <1>8

\* Steps that move no job.
LEMMA NothingMoves ==
  ASSUME QueueInv, WaitInv, UNCHANGED <<list, line, inHand, elem, outcome>>,
         \A j \in Jobs : Entered(j)' <=> Entered(j),
         ppc' \in [Printers -> {"ready", "holding", "printing", "printed"}],
         \A p \in Printers : ppc'[p] = "ready" <=> elem[p] = NoNode
  PROVE  WaitInv' /\ InLine' = InLine /\ InHands' = InHands /\ LeftQueue' = LeftQueue
<1>1. InLine' = InLine /\ InHands' = InHands /\ LeftQueue' = LeftQueue
  BY DEF InLine, JobAt, InHands, JobOf, LeftQueue
<1>2. InLine \subseteq Jobs /\ InHands \subseteq Jobs
  BY Known
<1>3. HoldInv'
  BY DEF WaitInv, HoldInv, JobOf
<1>4. OutcomeInv'
  BY <1>1, <1>2 DEF WaitInv, OutcomeInv
<1>5. OrderInv'
  BY <1>1 DEF WaitInv, OrderInv, JobAt
<1> QED BY <1>1, <1>3, <1>4, <1>5 DEF WaitInv

\* The job that came last has no outcome while it is offered.
LEMMA OfferedIsNew ==
  ASSUME QueueInv, WaitInv, rpc = "offer"
  PROVE  /\ latest \in Jobs /\ outcome[latest] = "none" /\ ~Entered(latest)
         /\ latest \notin InLine /\ latest \notin LeftQueue
         /\ \A j \in Jobs : Entered(j) => j < latest
<1>1. latest \in Jobs /\ ~Entered(latest) /\ latest \in Int
  BY StatisticsAssumption DEF QueueInv, ReceiverInv, Entered, Jobs
<1>2. outcome[latest] = "none"
  BY <1>1 DEF WaitInv, OutcomeInv
<1>3. latest \notin InLine /\ latest \notin InHands
  BY <1>1 DEF WaitInv, OutcomeInv
<1>4. \A j \in Jobs : Entered(j) => j < latest
  BY <1>1 DEF Entered, Jobs
<1> QED BY <1>1, <1>2, <1>3, <1>4 DEF LeftQueue

\* A full queue drops the job (job_receiver.c:127-140).
LEMMA DropKeepsWaiting ==
  ASSUME QueueInv, WaitInv, Drop
  PROVE  WaitInv' /\ InLine' = InLine /\ LeftQueue' = LeftQueue
<1>1. /\ UNCHANGED <<list, line, inHand, elem, ppc, latest>> /\ rpc = "offer" /\ rpc' = "sleep"
      /\ outcome' = [outcome EXCEPT ![latest] = "dropped"]
  BY DEF Drop, queueVars, listVars, printerVars
<1>2. \A j \in Jobs : outcome'[j] = IF j = latest THEN "dropped" ELSE outcome[j]
  BY <1>1 DEF WaitInv, OutcomeInv
<1>3. \A j \in Jobs : Entered(j)' <=> Entered(j) \/ j = latest
  BY <1>1, OfferedIsNew DEF Entered, Jobs
<1>4. InLine' = InLine /\ InHands' = InHands
  BY <1>1 DEF InLine, JobAt, InHands, JobOf
<1>5. LeftQueue' = LeftQueue
  BY <1>1, <1>2, <1>4, OfferedIsNew DEF LeftQueue
<1>6. HoldInv'
  BY <1>1 DEF WaitInv, HoldInv, JobOf
<1>7. OutcomeInv'
  <2>1. outcome' \in [Jobs -> {"none", "served", "dropped", "removed"}]
    BY <1>1 DEF WaitInv, OutcomeInv
  <2>2. latest \notin InLine \cup InHands /\ InLine \cup InHands \subseteq Jobs
    BY <1>1, OfferedIsNew, Known DEF LeftQueue
  <2> QED BY <1>2, <1>3, <1>4, <2>1, <2>2 DEF WaitInv, OutcomeInv
<1>8. OrderInv'
  BY <1>1, <1>4, <1>5 DEF WaitInv, OrderInv, JobAt
<1> QED BY <1>4, <1>5, <1>6, <1>7, <1>8 DEF WaitInv

\* The job joins the queue at its end (job_receiver.c:143-151).
LEMMA EnqueueKeepsWaiting ==
  ASSUME QueueInv, WaitInv, Enqueue
  PROVE  /\ WaitInv' /\ InLine' = InLine \cup {latest} /\ LeftQueue' = LeftQueue
         /\ \A p \in Printers : elem[p] # NoNode => JobOf(p)' = JobOf(p)
<1>0. rpc = "offer" /\ latest \in Data /\ ListInv
  BY OfferedIsNew, StatisticsAssumption DEF Enqueue, QueueInv
<1>1. PICK node \in Nodes : list_append(node, latest)
  BY DEF Enqueue
<1>2. /\ list'.data = [list.data EXCEPT ![node] = latest]
      /\ line' = Append(line, node) /\ inHand' = inHand
      /\ node \notin inHand /\ \A i \in 1..Len(line) : line[i] # node
  BY <1>0, <1>1, AppendData
<1>3. UNCHANGED <<elem, ppc, latest, outcome>> /\ rpc' = "sleep"
  BY DEF Enqueue, printerVars
<1>4. Len(line') = Len(line) + 1
  BY <1>2, Known
<1>5. \A i \in 1..(Len(line) + 1) :
        JobAt(i)' = IF i = Len(line) + 1 THEN latest ELSE JobAt(i)
  <2> TAKE i \in 1..(Len(line) + 1)
  <2>1. CASE i = Len(line) + 1
    <3>1. line'[i] = node
      BY <1>2, <2>1, Known
    <3> QED BY <1>2, <2>1, <3>1, Known DEF JobAt
  <2>2. CASE i # Len(line) + 1
    <3>1. i \in 1..Len(line) /\ line'[i] = line[i]
      BY <1>2, <2>2, Known
    <3> QED BY <1>2, <2>2, <3>1, Known DEF JobAt
  <2> QED BY <2>1, <2>2
<1>6. InLine' = InLine \cup {latest}
  BY <1>4, <1>5, Known DEF InLine
<1>7. \A p \in Printers : elem[p] # NoNode => JobOf(p)' = JobOf(p)
  BY <1>2, <1>3, Known DEF JobOf, WaitInv, HoldInv
<1>8. InHands' = InHands /\ LeftQueue' = LeftQueue
  BY <1>3, <1>7 DEF InHands, LeftQueue
<1>9. \A j \in Jobs : Entered(j)' <=> Entered(j) \/ j = latest
  BY <1>0, <1>3, OfferedIsNew DEF Entered, Jobs
<1>10. HoldInv'
  BY <1>2, <1>3, <1>7 DEF WaitInv, HoldInv
<1>11. OutcomeInv'
  BY <1>0, <1>3, <1>6, <1>8, <1>9, OfferedIsNew, Known DEF WaitInv, OutcomeInv
<1>12. OrderInv'
  <2>1. \A j \in InLine \cup LeftQueue : j < latest
    <3>1. \A j \in Jobs : outcome[j] # "none" => Entered(j)
      BY DEF WaitInv, OutcomeInv
    <3>2. \A j \in InLine \cup LeftQueue : Entered(j)
      BY <3>1 DEF WaitInv, OutcomeInv, LeftQueue
    <3> QED BY <1>0, <3>2, OfferedIsNew, Known
  <2>2. ASSUME NEW i \in 1..Len(line'), NEW k \in 1..Len(line'), i < k
        PROVE  JobAt(i)' < JobAt(k)'
    <3>1. i \in 1..Len(line) /\ JobAt(i)' = JobAt(i) /\ JobAt(i) \in InLine
      BY <1>4, <1>5, <2>2, Known DEF InLine
    <3>2. CASE k = Len(line) + 1
      <4>1. JobAt(k)' = latest
        BY <1>4, <1>5, <3>2
      <4> QED BY <2>1, <3>1, <4>1
    <3>3. CASE k # Len(line) + 1
      <4>1. k \in 1..Len(line) /\ JobAt(k)' = JobAt(k)
        BY <1>4, <1>5, <3>3, Known
      <4> QED BY <2>2, <3>1, <4>1 DEF WaitInv, OrderInv
    <3> QED BY <3>2, <3>3
  <2> QED BY <1>6, <1>8, <2>1, <2>2 DEF WaitInv, OrderInv
<1> QED BY <1>6, <1>7, <1>8, <1>10, <1>11, <1>12 DEF WaitInv

\* What is left of the queue without its first job.
LEMMA RestOfLine ==
  ASSUME QueueInv, WaitInv, Len(line) > 0, line' = Tail(line),
         \A i \in 1..Len(line) : i # 1 => list'.data[line[i]] = JobAt(i)
  PROVE  /\ \A i \in 1..(Len(line) - 1) : JobAt(i)' = JobAt(i + 1)
         /\ InLine' = InLine \ {JobAt(1)} /\ JobAt(1) \in InLine
         /\ \A j \in InLine' : JobAt(1) < j
         /\ \A i, k \in 1..Len(line') : i < k => JobAt(i)' < JobAt(k)'
<1>1. /\ line \in Seq(Nodes) /\ Len(line) \in Nat /\ Len(line') = Len(line) - 1
      /\ \A i \in 1..(Len(line) - 1) : line'[i] = line[i + 1] /\ i + 1 \in 1..Len(line) /\ i + 1 # 1
  BY Known
<1>2. \A i \in 1..(Len(line) - 1) : JobAt(i)' = JobAt(i + 1)
  BY <1>1 DEF JobAt
<1>3. \A i, k \in 1..Len(line) : i < k => JobAt(i) < JobAt(k)
  BY DEF WaitInv, OrderInv
<1>4. \A i \in 1..Len(line) : JobAt(i) \in Jobs
  BY Known DEF InLine
<1>5. 1 \in 1..Len(line) /\ JobAt(1) \in InLine
  BY <1>1 DEF InLine
<1>6. InLine' = {JobAt(i + 1) : i \in 1..(Len(line) - 1)}
  BY <1>1, <1>2 DEF InLine
<1>7. \A i \in 2..Len(line) : JobAt(1) < JobAt(i)
  <2>1. \A i \in 2..Len(line) : i \in 1..Len(line) /\ 1 < i
    BY <1>1
  <2> QED BY <1>3, <1>5, <2>1
<1>8. \A j \in InLine' : JobAt(1) < j
  <2>1. \A i \in 1..(Len(line) - 1) : i + 1 \in 2..Len(line)
    BY <1>1
  <2> QED BY <1>6, <1>7, <2>1
<1>9. InLine' = InLine \ {JobAt(1)}
  <2>1. InLine' \subseteq InLine
    BY <1>1, <1>6 DEF InLine
  <2>2. JobAt(1) \notin InLine'
    BY <1>4, <1>5, <1>8, Known
  <2>3. ASSUME NEW j \in InLine, j # JobAt(1) PROVE j \in InLine'
    <3>1. PICK i \in 1..Len(line) : j = JobAt(i)
      BY DEF InLine
    <3>2. i # 1
      BY <2>3, <3>1
    <3>3. i - 1 \in 1..(Len(line) - 1) /\ (i - 1) + 1 = i
      BY <1>1, <3>2
    <3> QED BY <1>6, <3>1, <3>3
  <2> QED BY <2>1, <2>2, <2>3
<1>10. ASSUME NEW i \in 1..Len(line'), NEW k \in 1..Len(line'), i < k
       PROVE  JobAt(i)' < JobAt(k)'
  <2>1. i \in 1..(Len(line) - 1) /\ k \in 1..(Len(line) - 1) /\ i + 1 < k + 1
    BY <1>1, <1>10
  <2> QED BY <1>1, <1>2, <1>3, <2>1
<1> QED BY <1>2, <1>5, <1>8, <1>9, <1>10

\* A printer takes the first job (printer.c:104-116).
LEMMA DequeueKeepsWaiting ==
  ASSUME QueueInv, WaitInv, NEW p \in Printers, Dequeue(p)
  PROVE  /\ WaitInv' /\ JobAt(1) \in InLine
         /\ InLine' = InLine \ {JobAt(1)} /\ LeftQueue' = LeftQueue \cup {JobAt(1)}
         /\ \A q \in Printers : JobOf(q)' = IF q = p THEN JobAt(1) ELSE JobOf(q)
<1>0. ListInv /\ list_pop_left
  BY DEF QueueInv, Dequeue
<1>1. /\ list'.data = list.data
      /\ Len(line) > 0 /\ list_first = line[1]
      /\ line' = Tail(line) /\ inHand' = inHand \cup {line[1]}
  BY <1>0, PopLeftData
<1>2. /\ ppc[p] = "ready" /\ ppc' = [ppc EXCEPT ![p] = "holding"]
      /\ elem' = [elem EXCEPT ![p] = line[1]]
      /\ UNCHANGED <<outcome, rpc, latest>>
  BY <1>1 DEF Dequeue, PrinterAt, receiverVars
<1>3. /\ InLine' = InLine \ {JobAt(1)} /\ JobAt(1) \in InLine
      /\ \A j \in InLine' : JobAt(1) < j
      /\ \A i, k \in 1..Len(line') : i < k => JobAt(i)' < JobAt(k)'
  BY <1>1, RestOfLine DEF JobAt
<1>4. line[1] \in Nodes /\ line[1] \notin inHand /\ NoNode \notin Nodes
  BY <1>1, Known
<1>5. /\ elem \in [Printers -> Nodes \cup {NoNode}] /\ elem[p] = NoNode
      /\ ppc \in [Printers -> {"ready", "holding", "printing", "printed"}]
  BY <1>2 DEF WaitInv, HoldInv
<1>6. \A q \in Printers : elem'[q] = IF q = p THEN line[1] ELSE elem[q]
  BY <1>2, <1>5
<1>7. \A q \in Printers : JobOf(q)' = IF q = p THEN JobAt(1) ELSE JobOf(q)
  BY <1>1, <1>6 DEF JobOf, JobAt
<1>8. InHands' = InHands \cup {JobAt(1)}
  BY <1>4, <1>5, <1>6, <1>7 DEF InHands
<1>9. LeftQueue' = LeftQueue \cup {JobAt(1)}
  BY <1>2, <1>8 DEF LeftQueue
<1>10. JobAt(1) \notin InHands
  BY <1>3, Known DEF LeftQueue
<1>11. HoldInv'
  <2>1. /\ elem' \in [Printers -> Nodes \cup {NoNode}]
        /\ ppc' \in [Printers -> {"ready", "holding", "printing", "printed"}]
    BY <1>2, <1>4, <1>5
  <2>2. ASSUME NEW q \in Printers
        PROVE  /\ ppc'[q] = "ready" <=> elem'[q] = NoNode
               /\ elem'[q] # NoNode => elem'[q] \in inHand'
    <3>1. CASE q = p
      <4>1. ppc'[q] # "ready"
        BY <1>2, <1>5, <3>1
      <4> QED BY <1>1, <1>4, <1>6, <3>1, <4>1
    <3>2. CASE q # p
      <4>1. ppc'[q] = ppc[q] /\ elem'[q] = elem[q]
        BY <1>2, <1>5, <1>6, <3>2
      <4> QED BY <1>1, <4>1 DEF WaitInv, HoldInv
    <3> QED BY <3>1, <3>2
  <2>3. ASSUME NEW q \in Printers, NEW r \in Printers,
               elem'[q] # NoNode, elem'[r] # NoNode, JobOf(q)' = JobOf(r)'
        PROVE  q = r
    <3>1. \A o \in Printers : elem[o] # NoNode => JobOf(o) # JobAt(1)
      BY <1>10 DEF InHands
    <3> QED BY <1>6, <1>7, <2>3, <3>1 DEF WaitInv, HoldInv
  <2> QED BY <2>1, <2>2, <2>3 DEF HoldInv
<1>12. OutcomeInv'
  BY <1>2, <1>3, <1>8 DEF WaitInv, OutcomeInv, Entered
<1>13. OrderInv'
  BY <1>3, <1>9 DEF WaitInv, OrderInv
<1> QED BY <1>3, <1>7, <1>9, <1>11, <1>12, <1>13 DEF WaitInv

\* The job is printed, counted and freed (printer.c:139-152).
LEMMA DepartKeepsWaiting ==
  ASSUME QueueInv, WaitInv, NEW p \in Printers, Depart(p)
  PROVE  /\ WaitInv' /\ InLine' = InLine /\ LeftQueue' = LeftQueue
         /\ JobOf(p) \in InHands /\ outcome[JobOf(p)] = "none"
         /\ \A q \in Printers : elem'[q] # NoNode => JobOf(q)' = JobOf(q)
<1>0. ListInv /\ elem[p] \in Nodes /\ NoNode \notin Nodes
  BY Known DEF QueueInv, ListInv, ListType, Depart, free
<1>1. /\ list'.data = [list.data EXCEPT ![elem[p]] = NoData]
      /\ line' = line /\ inHand' = inHand \ {elem[p]}
      /\ \A i \in 1..Len(line) : line[i] # elem[p]
  BY <1>0, FreeData DEF Depart
<1>2. /\ ppc' = [ppc EXCEPT ![p] = "ready"] /\ elem' = [elem EXCEPT ![p] = NoNode]
      /\ outcome' = [outcome EXCEPT ![JobOf(p)] = "served"]
      /\ UNCHANGED <<rpc, latest>>
  BY DEF Depart, PrinterAt, receiverVars
<1>3. /\ ppc \in [Printers -> {"ready", "holding", "printing", "printed"}]
      /\ elem \in [Printers -> Nodes \cup {NoNode}]
      /\ outcome \in [Jobs -> {"none", "served", "dropped", "removed"}]
  BY DEF WaitInv, HoldInv, OutcomeInv
<1>4. \A q \in Printers : /\ elem'[q] = IF q = p THEN NoNode ELSE elem[q]
                        /\ ppc'[q] = IF q = p THEN "ready" ELSE ppc[q]
  BY <1>2, <1>3
<1>5. \A q, r \in Printers :
        elem[q] # NoNode /\ elem[r] # NoNode /\ JobOf(q) = JobOf(r) => q = r
  BY DEF WaitInv, HoldInv
<1>6. \A q \in Printers : q # p /\ elem[q] # NoNode => elem[q] # elem[p]
  BY <1>0, <1>5 DEF JobOf
<1>7. \A q \in Printers : elem'[q] # NoNode => JobOf(q)' = JobOf(q)
  BY <1>1, <1>3, <1>4, <1>6, Known DEF JobOf
<1>8. InHands' = InHands \ {JobOf(p)} /\ JobOf(p) \in InHands
  BY <1>0, <1>4, <1>5, <1>7 DEF InHands
<1>9. JobOf(p) \in Jobs /\ JobOf(p) \notin InLine /\ outcome[JobOf(p)] = "none"
  BY <1>8, Known DEF LeftQueue, WaitInv, OutcomeInv
<1>10. \A j \in Jobs : outcome'[j] = IF j = JobOf(p) THEN "served" ELSE outcome[j]
  BY <1>2, <1>3
<1>11. LeftQueue' = LeftQueue
  BY <1>8, <1>9, <1>10, Known DEF LeftQueue
<1>12. \A i \in 1..Len(line) : JobAt(i)' = JobAt(i)
  BY <1>1, Known DEF JobAt
<1>13. InLine' = InLine
  BY <1>1, <1>12 DEF InLine
<1>14. HoldInv'
  <2>1. /\ ppc' \in [Printers -> {"ready", "holding", "printing", "printed"}]
        /\ elem' \in [Printers -> Nodes \cup {NoNode}]
    BY <1>2, <1>3
  <2>2. \A q \in Printers : ppc'[q] = "ready" <=> elem'[q] = NoNode
    BY <1>4 DEF WaitInv, HoldInv
  <2>3. \A q \in Printers : elem'[q] # NoNode => elem'[q] \in inHand'
    BY <1>1, <1>4, <1>6 DEF WaitInv, HoldInv
  <2>4. \A q, r \in Printers :
          elem'[q] # NoNode /\ elem'[r] # NoNode /\ JobOf(q)' = JobOf(r)' => q = r
    BY <1>4, <1>5, <1>7
  <2> QED BY <2>1, <2>2, <2>3, <2>4 DEF HoldInv
<1>15. OutcomeInv'
  <2>1. outcome' \in [Jobs -> {"none", "served", "dropped", "removed"}]
    BY <1>2, <1>3
  <2>2. \A j : Entered(j)' <=> Entered(j)
    BY <1>2 DEF Entered
  <2>3. Entered(JobOf(p)) /\ InLine \cup InHands \subseteq Jobs
    BY <1>8, Known DEF WaitInv, OutcomeInv
  <2> QED BY <1>8, <1>9, <1>10, <1>13, <2>1, <2>2, <2>3 DEF WaitInv, OutcomeInv
<1>16. OrderInv'
  BY <1>1, <1>11, <1>12, <1>13 DEF WaitInv, OrderInv
<1> QED BY <1>7, <1>8, <1>9, <1>11, <1>13, <1>14, <1>15, <1>16 DEF WaitInv

\* The catcher removes the first job (signalcatcher.c:18-28).
LEMMA DrainKeepsWaiting ==
  ASSUME QueueInv, WaitInv, DrainOne
  PROVE  /\ WaitInv' /\ JobAt(1) \in InLine
         /\ InLine' = InLine \ {JobAt(1)} /\ LeftQueue' = LeftQueue
         /\ \A p \in Printers : elem[p] # NoNode => JobOf(p)' = JobOf(p)
<1>0. ListInv /\ list_clear_one
  BY DEF QueueInv, DrainOne
<1>1. /\ list'.data = [list.data EXCEPT ![line[1]] = NoData]
      /\ Len(line) > 0 /\ list_first = line[1]
      /\ line' = Tail(line) /\ inHand' = inHand
  BY <1>0, ClearOneData
<1>2. /\ UNCHANGED <<ppc, elem, rpc, latest>>
      /\ outcome' = [outcome EXCEPT ![JobAt(1)] = "removed"]
  BY <1>1 DEF DrainOne, printerVars, receiverVars, JobAt
<1>3. 1 \in 1..Len(line) /\ line[1] \in Nodes /\ line[1] \notin inHand
  BY <1>1, Known
<1>4. \A i \in 1..Len(line) : i # 1 => list'.data[line[i]] = JobAt(i)
  BY <1>1, <1>3, Known DEF JobAt
<1>5. /\ InLine' = InLine \ {JobAt(1)} /\ JobAt(1) \in InLine
      /\ \A i, k \in 1..Len(line') : i < k => JobAt(i)' < JobAt(k)'
  BY <1>1, <1>4, RestOfLine
<1>6. \A p \in Printers : elem[p] # NoNode => JobOf(p)' = JobOf(p)
  BY <1>1, <1>2, <1>3, Known DEF JobOf, WaitInv, HoldInv
<1>7. InHands' = InHands
  BY <1>2, <1>6 DEF InHands
<1>8. JobAt(1) \in Jobs /\ JobAt(1) \notin LeftQueue /\ outcome[JobAt(1)] = "none"
      /\ Entered(JobAt(1))
  BY <1>5, Known DEF WaitInv, OutcomeInv
<1>9. \A j \in Jobs : outcome'[j] = IF j = JobAt(1) THEN "removed" ELSE outcome[j]
  BY <1>2 DEF WaitInv, OutcomeInv
<1>10. LeftQueue' = LeftQueue
  BY <1>7, <1>8, <1>9 DEF LeftQueue
<1>11. HoldInv'
  BY <1>1, <1>2, <1>6 DEF WaitInv, HoldInv
<1>12. OutcomeInv'
  <2>1. outcome' \in [Jobs -> {"none", "served", "dropped", "removed"}]
    BY <1>2 DEF WaitInv, OutcomeInv
  <2>2. \A j : Entered(j)' <=> Entered(j)
    BY <1>2 DEF Entered
  <2>3. JobAt(1) \notin InHands /\ InLine \cup InHands \subseteq Jobs
    BY <1>8, Known DEF LeftQueue
  <2> QED BY <1>5, <1>7, <1>8, <1>9, <2>1, <2>2, <2>3 DEF WaitInv, OutcomeInv
<1>13. OrderInv'
  BY <1>5, <1>10 DEF WaitInv, OrderInv
<1> QED BY <1>5, <1>6, <1>10, <1>11, <1>12, <1>13 DEF WaitInv

\* The nodes hold the jobs they should, whoever steps.
THEOREM WaitInvariant == Spec => []WaitInv
<1>1. Init => WaitInv
  <2> SUFFICES ASSUME Init PROVE WaitInv
    OBVIOUS
  <2>1. InLine = {} /\ InHands = {} /\ LeftQueue = {} /\ Len(line) = 0
    BY DEF Init, list_init, InLine, InHands, LeftQueue
  <2>2. HoldInv
    BY DEF Init, HoldInv
  <2>3. OutcomeInv
    BY <2>1 DEF Init, OutcomeInv, Entered
  <2> QED BY <2>1, <2>2, <2>3 DEF WaitInv, OrderInv
<1>2. QueueInv /\ WaitInv /\ [Next]_vars => WaitInv'
  <2> SUFFICES ASSUME QueueInv, WaitInv, [Next]_vars PROVE WaitInv'
    OBVIOUS
  <2>0. /\ ppc \in [Printers -> {"ready", "holding", "printing", "printed"}]
        /\ \A p \in Printers : ppc[p] = "ready" <=> elem[p] = NoNode
    BY DEF WaitInv, HoldInv
  <2>1. CASE Tick \/ CheckTermination \/ StopReceiving \/ Stop \/ Drained \/ End \/ Reported
             \/ UNCHANGED vars
    <3>1. UNCHANGED <<list, line, inHand, elem, ppc, outcome, latest>>
      BY <2>1 DEF Tick, CheckTermination, StopReceiving, Stop, Drained, End, Reported, vars,
          queueVars, listVars,
                  printerVars, receiverVars
    <3>2. rpc' = rpc \/ (rpc = "sleep" /\ rpc' \in {"arrive", "done"})
      BY <2>1 DEF Tick, CheckTermination, StopReceiving, Stop, Drained, End, Reported, vars,
          receiverVars
    <3>3. \A j \in Jobs : Entered(j)' <=> Entered(j)
      BY <3>1, <3>2 DEF Entered
    <3> QED BY <2>0, <3>1, <3>3, NothingMoves
  <2>2. CASE Arrive
    <3>1. UNCHANGED <<list, line, inHand, elem, ppc, outcome>>
      BY <2>2 DEF Arrive, queueVars, listVars, printerVars
    <3>2. \A j \in Jobs : Entered(j)' <=> Entered(j)
      <4>1. latest \in Nat /\ Jobs \subseteq Int
        BY Known, StatisticsAssumption DEF QueueInv, ReceiverInv
      <4>2. rpc = "arrive" /\ rpc' = "offer" /\ latest' = latest + 1
        BY <2>2 DEF Arrive
      <4> QED BY <4>1, <4>2 DEF Entered
    <3> QED BY <2>0, <3>1, <3>2, NothingMoves
  <2>3. CASE Drop
    BY <2>3, DropKeepsWaiting
  <2>4. CASE Enqueue
    BY <2>4, EnqueueKeepsWaiting
  <2>5. ASSUME NEW p \in Printers, BeginService(p) \/ EndService(p)
        PROVE  WaitInv'
    <3>1. UNCHANGED <<list, line, inHand, elem, outcome, rpc, latest>>
      BY <2>5 DEF BeginService, EndService, queueVars, listVars, receiverVars
    <3>2. PICK to \in {"printing", "printed"} : ppc[p] # "ready" /\ ppc' = [ppc EXCEPT ![p] = to]
      BY <2>5 DEF BeginService, EndService, PrinterAt
    <3>3. /\ ppc' \in [Printers -> {"ready", "holding", "printing", "printed"}]
          /\ \A q \in Printers : ppc'[q] = "ready" <=> ppc[q] = "ready"
      BY <2>0, <3>2
    <3>4. \A j \in Jobs : Entered(j)' <=> Entered(j)
      BY <3>1 DEF Entered
    <3> QED BY <2>0, <3>1, <3>3, <3>4, NothingMoves
  <2>6. ASSUME NEW p \in Printers, Dequeue(p) \/ Depart(p)
        PROVE  WaitInv'
    BY <2>6, DequeueKeepsWaiting, DepartKeepsWaiting
  <2>7. CASE DrainOne
    BY <2>7, DrainKeepsWaiting
  <2> QED BY <2>1, <2>2, <2>3, <2>4, <2>5, <2>6, <2>7 DEF Next
<1> QED BY <1>1, <1>2, QueueInvariant, PTL DEF Spec

\* Walking the queue from its front meets the jobs that wait, oldest first, and
\* from its back the same the other way round; printers and the catcher only ever
\* take older ones (websocket_handler.c:155-181, linked_list.c:83-117,
\* printer.c:111, signalcatcher.c:20-24).
THEOREM WaitingJobsAreQueued == Spec => []QueueHoldsWaitingJobs
BY QueueInvariant, WaitInvariant, WalksMeetWaiting, PTL

-----------------------------------------------------------------------------
(* Sums over sets of jobs *)

\* F maps each set of numbers up to n to the sum of g over it.
IsSum(F, g, n) ==
  /\ F \in [SUBSET (1..n) -> Int]
  /\ F[{}] = 0
  /\ \A s \in SUBSET (1..n) : \A x \in (1..n) \ s : F[s \cup {x}] = F[s] + g[x]

\* The sum of g over S.
SumTo(g, n, S) == (CHOOSE F : IsSum(F, g, n))[S]

\* Every function has its sums: add g[1], g[2], ... in turn.
LEMMA SumExists ==
  ASSUME NEW n \in Nat, NEW g \in [1..n -> Int]
  PROVE  \E F : IsSum(F, g, n)
<1> DEFINE Upto(m) == [x \in 1..n |-> IF x <= m THEN g[x] ELSE 0]
           Below == {e \in Nat \X Nat : e[1] < e[2]}
           Wrong == {m \in 0..n : ~ \E F : IsSum(F, Upto(m), n)}
<1>1. IsWellFoundedOn(Below, Nat)
  BY NatLessThanWellFounded, Zenon DEF OpToRel
<1>2. Wrong \subseteq Nat
  OBVIOUS
<1>3. Wrong = {}
  <2> SUFFICES ASSUME Wrong # {} PROVE FALSE
    OBVIOUS
  <2>1. PICK m \in Wrong : \A k \in Wrong : <<k, m>> \notin Below
    <3> HIDE DEF Wrong
    <3> QED BY <1>1, <1>2, WFMin
  <2>2. m \in 0..n
    OBVIOUS
  <2>3. CASE m = 0
    <3>1. IsSum([s \in SUBSET (1..n) |-> 0], Upto(0), n)
      BY DEF IsSum
    <3> QED BY <2>3, <3>1
  <2>4. CASE m # 0
    <3>1. m - 1 \in 0..n /\ m - 1 \in Nat /\ m \in 1..n /\ <<m - 1, m>> \in Below
      BY <2>2, <2>4
    <3>2. PICK F : IsSum(F, Upto(m - 1), n)
      BY <2>1, <3>1
    <3> DEFINE G == [s \in SUBSET (1..n) |-> F[s] + IF m \in s THEN g[m] ELSE 0]
    <3>3. G \in [SUBSET (1..n) -> Int] /\ G[{}] = 0
      <4>1. F \in [SUBSET (1..n) -> Int] /\ F[{}] = 0 /\ g[m] \in Int
        BY <3>1, <3>2 DEF IsSum
      <4>2. \A s \in SUBSET (1..n) : F[s] + (IF m \in s THEN g[m] ELSE 0) \in Int
        BY <4>1
      <4>3. {} \in SUBSET (1..n) /\ G[{}] = F[{}] + 0
        OBVIOUS
      <4> QED BY <4>1, <4>2, <4>3
    <3>4. ASSUME NEW s \in SUBSET (1..n), NEW x \in (1..n) \ s
          PROVE  G[s \cup {x}] = G[s] + Upto(m)[x]
      <4>1. F[s \cup {x}] = F[s] + Upto(m - 1)[x] /\ F[s] \in Int
        BY <3>2 DEF IsSum
      <4>2. CASE x = m
        <5>1. Upto(m - 1)[x] = 0 /\ Upto(m)[x] = g[m] /\ g[m] \in Int
          BY <3>1, <4>2
        <5>2. G[s \cup {x}] = F[s \cup {x}] + g[m] /\ G[s] = F[s] + 0
          BY <4>2
        <5> QED BY <4>1, <5>1, <5>2
      <4>3. CASE x # m
        <5>1. Upto(m - 1)[x] = Upto(m)[x] /\ Upto(m)[x] \in Int /\ g[m] \in Int
          BY <3>1, <4>3
        <5>2. m \in s \cup {x} <=> m \in s
          BY <4>3
        <5>3. /\ G[s \cup {x}] = F[s \cup {x}] + IF m \in s THEN g[m] ELSE 0
              /\ G[s] = F[s] + IF m \in s THEN g[m] ELSE 0
          BY <5>2
        <5> HIDE DEF G, Upto
        <5> QED BY <4>1, <5>1, <5>3
      <4> QED BY <4>2, <4>3
    <3>5. IsSum(G, Upto(m), n)
      <4> HIDE DEF G, Upto
      <4> QED BY <3>3, <3>4 DEF IsSum
    <3> QED BY <3>5
  <2> QED BY <2>3, <2>4
<1>4. PICK F : IsSum(F, Upto(n), n)
  <2>1. n \in 0..n
    OBVIOUS
  <2>2. n \notin Wrong
    <3> HIDE DEF Wrong
    <3> QED BY <1>3
  <2> HIDE DEF Upto
  <2> QED BY <2>1, <2>2
<1>5. Upto(n) = g
  OBVIOUS
<1> QED BY <1>4, <1>5

\* How a sum changes with its set.
LEMMA SumFacts ==
  ASSUME NEW n \in Nat, NEW g \in [1..n -> Int]
  PROVE  /\ SumTo(g, n, {}) = 0
         /\ \A S \in SUBSET (1..n) : SumTo(g, n, S) \in Int
         /\ \A S \in SUBSET (1..n) : \A x \in (1..n) \ S :
              SumTo(g, n, S \cup {x}) = SumTo(g, n, S) + g[x]
         /\ \A S \in SUBSET (1..n) : \A x \in S :
              SumTo(g, n, S \ {x}) = SumTo(g, n, S) - g[x]
<1> DEFINE F == CHOOSE F : IsSum(F, g, n)
<1>1. IsSum(F, g, n)
  BY SumExists, Zenon
<1>2. \A S : SumTo(g, n, S) = F[S]
  BY DEF SumTo
<1> HIDE DEF F
<1>3. ASSUME NEW S \in SUBSET (1..n), NEW x \in S
      PROVE  F[S \ {x}] = F[S] - g[x]
  <2>1. S \ {x} \in SUBSET (1..n) /\ x \in (1..n) \ (S \ {x}) /\ (S \ {x}) \cup {x} = S
    OBVIOUS
  <2>2. F[S] = F[S \ {x}] + g[x]
    BY <1>1, <2>1 DEF IsSum
  <2>3. F[S \ {x}] \in Int /\ g[x] \in Int
    BY <1>1, <2>1 DEF IsSum
  <2> QED BY <2>2, <2>3
<1>4. /\ F[{}] = 0 /\ \A S \in SUBSET (1..n) : F[S] \in Int
      /\ \A S \in SUBSET (1..n) : \A x \in (1..n) \ S : F[S \cup {x}] = F[S] + g[x]
  BY <1>1 DEF IsSum
<1> QED BY <1>3, <1>4 DEF SumTo, F

\* A set of numbers up to n is finite.
LEMMA SubsetsOf ==
  ASSUME NEW n \in Nat, NEW S \in SUBSET (1..n)
  PROVE  IsFiniteSet(S) /\ Cardinality(S) \in Nat
<1>1. IsFiniteSet(1..n)
  BY FS_Interval
<1>2. IsFiniteSet(S)
  BY <1>1, FS_Subset
<1>3. Cardinality(S) \in Nat
  BY <1>2, FS_CardinalityType
<1> QED BY <1>2, <1>3

\* The sets an induction over the subsets of S could fail for include a smallest one.
LEMMA Smallest ==
  ASSUME NEW S, IsFiniteSet(S), NEW W, W \subseteq SUBSET S, W # {}
  PROVE  \E s \in W : \A r \in W : <<r, s>> \notin StrictSubsetOrdering(S)
<1>1. IsWellFoundedOn(StrictSubsetOrdering(S), SUBSET S)
  BY FS_StrictSubsetOrderingWellFounded, FS_FiniteSubsetsOfFinite
<1> QED BY <1>1, WFMin

\* If h exceeds g by d on S, then its sum does so by d for every member of S.
LEMMA SumShift ==
  ASSUME NEW n \in Nat, NEW S \in SUBSET (1..n), NEW d \in Int,
         NEW g \in [1..n -> Int], NEW h \in [1..n -> Int]
  PROVE  (\A x \in S : h[x] = g[x] + d) =>
           SumTo(h, n, S) = SumTo(g, n, S) + d * Cardinality(S)
<1> DEFINE Wrong == {s \in SUBSET S : SumTo(h, n, s) # SumTo(g, n, s) + d * Cardinality(s)}
<1>0. Wrong # {} => \E s \in Wrong : \A r \in Wrong : <<r, s>> \notin StrictSubsetOrdering(S)
  <2> HIDE DEF Wrong
  <2>1. Wrong \subseteq SUBSET S
    BY DEF Wrong
  <2>2. IsFiniteSet(S)
    BY SubsetsOf
  <2> QED BY <2>1, <2>2, Smallest
<1> SUFFICES ASSUME \A x \in S : h[x] = g[x] + d, Wrong # {} PROVE FALSE
  OBVIOUS
<1>1. PICK s \in Wrong : \A r \in Wrong : <<r, s>> \notin StrictSubsetOrdering(S)
  BY <1>0
<1>2. s \in SUBSET S /\ s \in SUBSET (1..n) /\ IsFiniteSet(s) /\ Cardinality(s) \in Nat
  BY SubsetsOf
<1>3. CASE s = {}
  <2>1. Cardinality(s) = 0
    BY <1>3, FS_EmptySet
  <2>2. d * 0 = 0
    OBVIOUS
  <2> QED BY <1>3, <2>1, <2>2, SumFacts
<1>4. CASE s # {}
  <2>1. PICK x \in s : TRUE
    BY <1>4
  <2> DEFINE r == s \ {x}
  <2>2. r \in SUBSET S /\ r \in SUBSET (1..n) /\ <<r, s>> \in StrictSubsetOrdering(S)
    BY <1>2 DEF StrictSubsetOrdering
  <2>3. SumTo(h, n, r) = SumTo(g, n, r) + d * Cardinality(r)
    BY <1>1, <2>2
  <2>4. Cardinality(r) = Cardinality(s) - 1
    BY <1>2, FS_RemoveElement
  <2>5. SumTo(h, n, r) = SumTo(h, n, s) - h[x] /\ SumTo(g, n, r) = SumTo(g, n, s) - g[x]
    BY <1>2, SumFacts
  <2>6. h[x] = g[x] + d /\ g[x] \in Int /\ SumTo(g, n, s) \in Int /\ SumTo(h, n, s) \in Int
    BY <1>2, SumFacts
  <2>7. d * (Cardinality(s) - 1) = d * Cardinality(s) - d
    BY <1>2
  <2>8. d * Cardinality(s) \in Int
    BY <1>2
  <2>9. SumTo(h, n, s) = SumTo(g, n, s) + d * Cardinality(s)
    <3> HIDE DEF r, Wrong
    <3>1. SumTo(h, n, r) = SumTo(g, n, r) + (d * Cardinality(s) - d)
      BY <2>3, <2>4, <2>7
    <3> DEFINE product == d * Cardinality(s)
    <3> HIDE DEF product
    <3>2. SumTo(h, n, r) = SumTo(g, n, r) + (product - d) /\ product \in Int
      BY <3>1, <2>8 DEF product
    <3>3. SumTo(h, n, s) - h[x] = (SumTo(g, n, s) - g[x]) + (product - d)
      BY <3>2, <2>5
    <3>4. SumTo(h, n, s) = SumTo(g, n, s) + product
      <4> DEFINE a == SumTo(h, n, s)
                 b == SumTo(g, n, s)
                 c == g[x]
                 e == h[x]
      <4>1. a \in Int /\ b \in Int /\ c \in Int /\ e = c + d /\ a - e = (b - c) + (product - d)
        BY <2>6, <3>3
      <4> HIDE DEF a, b, c, e
      <4>2. a = b + product
        BY <3>2, <4>1
      <4> QED BY <4>2 DEF a, b
    <3> QED BY <3>4 DEF product
  <2> QED BY <2>9
<1> QED BY <1>3, <1>4

\* Equal terms, equal sums.
LEMMA SumSame ==
  ASSUME NEW n \in Nat, NEW g \in [1..n -> Int], NEW h \in [1..n -> Int],
         NEW S \in SUBSET (1..n), \A x \in S : h[x] = g[x]
  PROVE  SumTo(h, n, S) = SumTo(g, n, S)
<1>1. \A x \in S : h[x] = g[x] + 0
  <2>1. \A x \in S : g[x] \in Int
    OBVIOUS
  <2> QED BY <2>1
<1>2. Cardinality(S) \in Nat
  BY SubsetsOf
<1>3. SumTo(h, n, S) = SumTo(g, n, S) + 0 * Cardinality(S)
  <2>1. PICK d \in Int : d = 0
    OBVIOUS
  <2>2. \A x \in S : h[x] = g[x] + d
    BY <1>1, <2>1
  <2>3. SumTo(h, n, S) = SumTo(g, n, S) + d * Cardinality(S)
    BY <2>2, SumShift
  <2> QED BY <2>1, <2>3
<1>4. 0 * Cardinality(S) = 0 /\ SumTo(g, n, S) \in Int
  BY <1>2, SumFacts
<1> QED BY <1>3, <1>4

\* What a fold of FiniteSetsExt computes is the sum.
LEMMA IterIsSum ==
  ASSUME NEW n \in Nat, NEW g \in [1..n -> Int], NEW S \in SUBSET (1..n), NEW it,
         \A s \in SUBSET S :
           it[s] = IF s = {} THEN 0
                   ELSE g[CHOOSE x \in s : TRUE] + it[s \ {CHOOSE x \in s : TRUE}]
  PROVE  it[S] = SumTo(g, n, S)
<1> DEFINE Wrong == {s \in SUBSET S : it[s] # SumTo(g, n, s)}
<1> SUFFICES ASSUME Wrong # {} PROVE FALSE
  OBVIOUS
<1>1. PICK s \in Wrong : \A r \in Wrong : <<r, s>> \notin StrictSubsetOrdering(S)
  <2> HIDE DEF Wrong
  <2>1. Wrong \subseteq SUBSET S
    BY DEF Wrong
  <2>2. IsFiniteSet(S)
    BY SubsetsOf
  <2> QED BY <2>1, <2>2, Smallest
<1>2. CASE s = {}
  BY <1>2, SumFacts
<1>3. CASE s # {}
  <2> DEFINE x == CHOOSE x \in s : TRUE
             r == s \ {x}
  <2>1. x \in s
    BY <1>3
  <2>2. it[s] = g[x] + it[r]
    BY <1>3
  <2> HIDE DEF x
  <2>3. r \in SUBSET S /\ <<r, s>> \in StrictSubsetOrdering(S)
    BY <2>1 DEF StrictSubsetOrdering
  <2>4. it[r] = SumTo(g, n, r)
    BY <1>1, <2>3
  <2>5. /\ s \in SUBSET (1..n) /\ x \in s /\ g[x] \in Int
        /\ SumTo(g, n, r) = SumTo(g, n, s) - g[x] /\ SumTo(g, n, s) \in Int
    <3>1. s \in SUBSET (1..n) /\ x \in s /\ x \in 1..n
      BY <2>1
    <3> QED BY <3>1, SumFacts
  <2>6. it[s] = SumTo(g, n, s)
    <3> HIDE DEF r
    <3> QED BY <2>2, <2>4, <2>5
  <2> QED BY <2>6
<1> QED BY <1>2, <1>3

\* A sum is the chosen term and the sum of the rest, as a fold computes it.
LEMMA SumIterates ==
  ASSUME NEW n \in Nat, NEW g \in [1..n -> Int], NEW s \in SUBSET (1..n)
  PROVE  SumTo(g, n, s) = IF s = {} THEN 0
                          ELSE g[CHOOSE x \in s : TRUE] + SumTo(g, n, s \ {CHOOSE x \in s : TRUE})
<1>1. CASE s = {}
  BY <1>1, SumFacts
<1>2. CASE s # {}
  <2> DEFINE x == CHOOSE x \in s : TRUE
  <2>1. x \in s
    BY <1>2
  <2> HIDE DEF x
  <2>2. SumTo(g, n, s \ {x}) = SumTo(g, n, s) - g[x] /\ SumTo(g, n, s) \in Int /\ g[x] \in Int
    <3>1. x \in 1..n
      BY <2>1
    <3> QED BY <2>1, <3>1, SumFacts
  <2>3. SumTo(g, n, s) = g[x] + SumTo(g, n, s \ {x})
    BY <2>2
  <2> QED BY <1>2, <2>3 DEF x
<1> QED BY <1>1, <1>2

\* The times of JobStatistics as functions: what a job spent in the queue, and has spent.
InQueue == [j \in Jobs |-> TimeInQueue(j)]
SoFar   == [j \in Jobs |-> TimeSoFar(j)]

\* The folds that AreaIsIntegral states are these sums.
LEMMA InQueueFold ==
  ASSUME InQueue \in [Jobs -> Int], NEW S \in SUBSET Jobs
  PROVE  MapThenSumSet(TimeInQueue, S) = SumTo(InQueue, NumJobs, S)
<1> DEFINE Step(it) == [s \in SUBSET S |->
              IF s = {} THEN 0
              ELSE LET x == CHOOSE x \in s : TRUE IN TimeInQueue(x) + it[s \ {x}]]
           it == CHOOSE it : it = Step(it)
           sums == [s \in SUBSET S |-> SumTo(InQueue, NumJobs, s)]
<1>1. NumJobs \in Nat /\ Jobs = 1..NumJobs /\ \A j \in Jobs : TimeInQueue(j) = InQueue[j]
  BY StatisticsAssumption DEF Jobs, InQueue
<1>2. \A s \in SUBSET S : s # {} => (CHOOSE x \in s : TRUE) \in s
  OBVIOUS
<1>3. sums = Step(sums)
  <2> HIDE DEF InQueue
  <2> SUFFICES ASSUME NEW s \in SUBSET S PROVE sums[s] = Step(sums)[s]
    BY Zenon
  <2>1. CASE s = {}
    BY <2>1, <1>1, SumIterates
  <2>2. CASE s # {}
    <3> DEFINE x == CHOOSE x \in s : TRUE
    <3>1. x \in Jobs /\ s \in SUBSET (1..NumJobs) /\ s \ {x} \in SUBSET S
      BY <1>1, <1>2, <2>2
    <3>2. sums[s] = InQueue[x] + sums[s \ {x}]
      BY <1>1, <2>2, <3>1, SumIterates
    <3> QED BY <1>1, <2>2, <3>1, <3>2
  <2> QED BY <2>1, <2>2
<1>4. it = Step(it)
  <2> HIDE DEF sums
  <2> QED BY <1>3, Zenon
<1>5. MapThenSumSet(TimeInQueue, S) = it[S]
  BY DEF MapThenSumSet, MapThenFoldSet
<1> HIDE DEF it, sums
<1>6. \A s \in SUBSET S :
        it[s] = IF s = {} THEN 0
                ELSE InQueue[CHOOSE x \in s : TRUE] + it[s \ {CHOOSE x \in s : TRUE}]
  <2> SUFFICES ASSUME NEW s \in SUBSET S
               PROVE  it[s] = IF s = {} THEN 0
                              ELSE InQueue[CHOOSE x \in s : TRUE] + it[s \ {CHOOSE x \in s : TRUE}]
    OBVIOUS
  <2>1. it[s] = IF s = {} THEN 0
                ELSE TimeInQueue(CHOOSE x \in s : TRUE) + it[s \ {CHOOSE x \in s : TRUE}]
    BY <1>4
  <2>2. s # {} => (CHOOSE x \in s : TRUE) \in Jobs
    BY <1>2
  <2> QED BY <1>1, <2>1, <2>2
<1>7. S \in SUBSET (1..NumJobs)
  BY <1>1
<1>8. it[S] = SumTo(InQueue, NumJobs, S)
  <2> HIDE DEF InQueue
  <2> QED BY <1>1, <1>6, <1>7, IterIsSum
<1> QED BY <1>5, <1>8

\* The same for the jobs that still wait.
LEMMA SoFarFold ==
  ASSUME SoFar \in [Jobs -> Int], NEW S \in SUBSET Jobs
  PROVE  MapThenSumSet(TimeSoFar, S) = SumTo(SoFar, NumJobs, S)
<1> DEFINE Step(it) == [s \in SUBSET S |->
              IF s = {} THEN 0
              ELSE LET x == CHOOSE x \in s : TRUE IN TimeSoFar(x) + it[s \ {x}]]
           it == CHOOSE it : it = Step(it)
           sums == [s \in SUBSET S |-> SumTo(SoFar, NumJobs, s)]
<1>1. NumJobs \in Nat /\ Jobs = 1..NumJobs /\ \A j \in Jobs : TimeSoFar(j) = SoFar[j]
  BY StatisticsAssumption DEF Jobs, SoFar
<1>2. \A s \in SUBSET S : s # {} => (CHOOSE x \in s : TRUE) \in s
  OBVIOUS
<1>3. sums = Step(sums)
  <2> HIDE DEF SoFar
  <2> SUFFICES ASSUME NEW s \in SUBSET S PROVE sums[s] = Step(sums)[s]
    BY Zenon
  <2>1. CASE s = {}
    BY <2>1, <1>1, SumIterates
  <2>2. CASE s # {}
    <3> DEFINE x == CHOOSE x \in s : TRUE
    <3>1. x \in Jobs /\ s \in SUBSET (1..NumJobs) /\ s \ {x} \in SUBSET S
      BY <1>1, <1>2, <2>2
    <3>2. sums[s] = SoFar[x] + sums[s \ {x}]
      BY <1>1, <2>2, <3>1, SumIterates
    <3> QED BY <1>1, <2>2, <3>1, <3>2
  <2> QED BY <2>1, <2>2
<1>4. it = Step(it)
  <2> HIDE DEF sums
  <2> QED BY <1>3, Zenon
<1>5. MapThenSumSet(TimeSoFar, S) = it[S]
  BY DEF MapThenSumSet, MapThenFoldSet
<1> HIDE DEF it, sums
<1>6. \A s \in SUBSET S :
        it[s] = IF s = {} THEN 0
                ELSE SoFar[CHOOSE x \in s : TRUE] + it[s \ {CHOOSE x \in s : TRUE}]
  <2> SUFFICES ASSUME NEW s \in SUBSET S
               PROVE  it[s] = IF s = {} THEN 0
                              ELSE SoFar[CHOOSE x \in s : TRUE] + it[s \ {CHOOSE x \in s : TRUE}]
    OBVIOUS
  <2>1. it[s] = IF s = {} THEN 0
                ELSE TimeSoFar(CHOOSE x \in s : TRUE) + it[s \ {CHOOSE x \in s : TRUE}]
    BY <1>4
  <2>2. s # {} => (CHOOSE x \in s : TRUE) \in Jobs
    BY <1>2
  <2> QED BY <1>1, <2>1, <2>2
<1>7. S \in SUBSET (1..NumJobs)
  BY <1>1
<1>8. it[S] = SumTo(SoFar, NumJobs, S)
  <2> HIDE DEF SoFar
  <2> QED BY <1>1, <1>6, <1>7, IterIsSum
<1> QED BY <1>5, <1>8

-----------------------------------------------------------------------------
(* The time the jobs spend in the queue *)

\* The jobs a stop removed.
Cleared == {j \in Jobs : outcome[j] = "removed"}

\* No change of the queue is in the future.
TimesOK ==
  /\ clock \in Nat /\ lastInteraction \in Nat /\ lastInteraction <= clock
  /\ stamp \in [Jobs -> [Stamps -> Nat]]

\* What the jobs spent in the queue, those in it up to its last change.
Spent == SumTo(InQueue, NumJobs, LeftQueue) + SumTo(SoFar, NumJobs, InLine)

\* What AreaIsIntegral says, of the sums.
AreaInv ==
  /\ TimesOK
  /\ "area" \in DOMAIN stats /\ stats.area \in Int
  /\ Cleared = {} => stats.area = Spent
  /\ stats.area <= Spent + SumTo(InQueue, NumJobs, Cleared)

\* A time stamp changes one time of one job.
LEMMA StampStep ==
  ASSUME TimesOK, NEW j \in Jobs, NEW t \in Stamps, Stamped(j, t)
  PROVE  /\ stamp' \in [Jobs -> [Stamps -> Nat]]
         /\ \A k \in Jobs : \A u \in Stamps :
              stamp'[k][u] = IF k = j /\ u = t THEN clock ELSE stamp[k][u]
<1>1. stamp \in [Jobs -> [Stamps -> Nat]] /\ clock \in Nat
  BY DEF TimesOK
<1>2. stamp' = [stamp EXCEPT ![j] = [stamp[j] EXCEPT ![t] = clock]]
  BY DEF Stamped
<1>3. [stamp[j] EXCEPT ![t] = clock] \in [Stamps -> Nat]
  BY <1>1
<1> QED BY <1>1, <1>2, <1>3

\* The two times of a job.
LEMMA TimeFunctions ==
  ASSUME TimesOK
  PROVE  /\ InQueue \in [Jobs -> Int] /\ SoFar \in [Jobs -> Int]
         /\ \A j \in Jobs :
              /\ InQueue[j] = stamp[j]["queueDeparture"] - stamp[j]["queueArrival"]
              /\ SoFar[j] = lastInteraction - stamp[j]["queueArrival"]
              /\ stamp[j]["queueDeparture"] \in Nat /\ stamp[j]["queueArrival"] \in Nat
BY DEF TimesOK, InQueue, SoFar, TimeInQueue, TimeSoFar, Stamps

\* There are as many jobs in the list as nodes.
LEMMA LineLength ==
  ASSUME QueueInv, WaitInv
  PROVE  Cardinality(InLine) = Len(line)
<1> DEFINE f == [i \in 1..Len(line) |-> JobAt(i)]
<1>1. Len(line) \in Nat
  BY Known
<1>2. \A i, k \in 1..Len(line) : f[i] = f[k] => i = k
  <2> SUFFICES ASSUME NEW i \in 1..Len(line), NEW k \in 1..Len(line), JobAt(i) = JobAt(k), i # k
               PROVE  FALSE
    OBVIOUS
  <2>1. i < k \/ k < i
    BY <1>1
  <2>2. JobAt(i) \in Int /\ JobAt(k) \in Int
    BY Known DEF InLine
  <2> QED BY <2>1, <2>2 DEF WaitInv, OrderInv
<1>3. f \in Bijection(1..Len(line), InLine)
  BY <1>2 DEF Bijection, Injection, Surjection, IsInjective, InLine
<1>4. IsFiniteSet(1..Len(line)) /\ Cardinality(1..Len(line)) = Len(line)
  <2>1. PICK n \in Nat : n = Len(line)
    BY <1>1
  <2>2. IsFiniteSet(1..n) /\ Cardinality(1..n) = n
    <3>1. n \in Int /\ 1 \in Int /\ (IF 1 > n THEN 0 ELSE (n - 1) + 1) = n
      OBVIOUS
    <3> QED BY <3>1, FS_Interval
  <2> QED BY <2>1, <2>2
<1> HIDE DEF f
<1> QED BY <1>3, <1>4, FS_Bijection DEF ExistsBijection

\* Up to the next change of the queue, each job in it waits as long as it passes.
LEMMA QueueWaits ==
  ASSUME QueueInv, WaitInv, TimesOK, TimesOK', lastInteraction' = clock,
         \A j \in InLine : stamp'[j]["queueArrival"] = stamp[j]["queueArrival"]
  PROVE  SumTo(SoFar', NumJobs, InLine)
           = SumTo(SoFar, NumJobs, InLine) + (clock - lastInteraction) * Len(line)
<1>1. /\ SoFar \in [Jobs -> Int] /\ \A j \in Jobs :
           SoFar[j] = lastInteraction - stamp[j]["queueArrival"] /\ stamp[j]["queueArrival"] \in Nat
  BY TimeFunctions
<1>2. /\ SoFar' \in [Jobs -> Int] /\ \A j \in Jobs :
           SoFar'[j] = lastInteraction' - stamp'[j]["queueArrival"]
  BY DEF TimesOK, SoFar, TimeSoFar, Stamps
<1>3. clock - lastInteraction \in Int /\ clock \in Int /\ lastInteraction \in Int
  BY DEF TimesOK
<1>4. InLine \in SUBSET Jobs /\ Jobs = 1..NumJobs /\ NumJobs \in Nat
  BY Known, StatisticsAssumption DEF Jobs
<1>5. \A j \in InLine : SoFar'[j] = SoFar[j] + (clock - lastInteraction)
  <2> TAKE j \in InLine
  <2>1. j \in Jobs /\ stamp'[j]["queueArrival"] = stamp[j]["queueArrival"]
    BY <1>4
  <2>2. stamp[j]["queueArrival"] \in Nat /\ SoFar[j] = lastInteraction - stamp[j]["queueArrival"]
    BY <1>1, <2>1
  <2>3. SoFar'[j] = clock - stamp[j]["queueArrival"]
    BY <1>2, <2>1
  <2> QED BY <1>3, <2>2, <2>3
<1> HIDE DEF SoFar
<1>6. SumTo(SoFar', NumJobs, InLine)
        = SumTo(SoFar, NumJobs, InLine) + (clock - lastInteraction) * Cardinality(InLine)
  <2>1. PICK d \in Int : d = clock - lastInteraction
    BY <1>3
  <2>2. \A j \in InLine : SoFar'[j] = SoFar[j] + d
    BY <1>5, <2>1
  <2>3. PICK g \in [1..NumJobs -> Int], h \in [1..NumJobs -> Int] : g = SoFar /\ h = SoFar'
    BY <1>1, <1>2, <1>4
  <2>4. SumTo(h, NumJobs, InLine) = SumTo(g, NumJobs, InLine) + d * Cardinality(InLine)
    <3>1. InLine \in SUBSET (1..NumJobs) /\ \A j \in InLine : h[j] = g[j] + d
      BY <1>4, <2>2, <2>3
    <3> QED BY <1>4, <3>1, SumShift
  <2> QED BY <2>1, <2>3, <2>4
<1> QED BY <1>6, LineLength

\* Steps that move no job in or out of the queue, or out of a printer.
LEMMA AreaStays ==
  ASSUME QueueInv, WaitInv, AreaInv, TimesOK', lastInteraction' = lastInteraction,
         InLine' = InLine, LeftQueue' = LeftQueue, Cleared' = Cleared,
         "area" \in DOMAIN stats', stats'.area = stats.area,
         \A j \in LeftQueue \cup Cleared \cup InLine :
           /\ stamp'[j]["queueArrival"] = stamp[j]["queueArrival"]
           /\ stamp'[j]["queueDeparture"] = stamp[j]["queueDeparture"]
  PROVE  AreaInv'
<1> DEFINE S == LeftQueue \cup Cleared \cup InLine
<1>1. /\ InQueue \in [Jobs -> Int] /\ SoFar \in [Jobs -> Int]
      /\ \A j \in Jobs :
           /\ InQueue[j] = stamp[j]["queueDeparture"] - stamp[j]["queueArrival"]
           /\ SoFar[j] = lastInteraction - stamp[j]["queueArrival"]
  BY TimeFunctions DEF AreaInv
<1>2. /\ InQueue' \in [Jobs -> Int] /\ SoFar' \in [Jobs -> Int]
      /\ \A j \in Jobs :
           /\ InQueue'[j] = stamp'[j]["queueDeparture"] - stamp'[j]["queueArrival"]
           /\ SoFar'[j] = lastInteraction' - stamp'[j]["queueArrival"]
  BY DEF TimesOK, InQueue, SoFar, TimeInQueue, TimeSoFar, Stamps
<1>3. S \subseteq Jobs /\ Jobs = 1..NumJobs /\ NumJobs \in Nat
  BY Known, StatisticsAssumption DEF Jobs, Cleared
<1>4. \A j \in S : InQueue'[j] = InQueue[j] /\ SoFar'[j] = SoFar[j]
  <2> TAKE j \in S
  <2>1. j \in Jobs /\ stamp'[j]["queueArrival"] = stamp[j]["queueArrival"]
        /\ stamp'[j]["queueDeparture"] = stamp[j]["queueDeparture"]
    BY <1>3
  <2> QED BY <1>1, <1>2, <2>1
<1> HIDE DEF InQueue, SoFar
<1>5. PICK g \in [1..NumJobs -> Int], h \in [1..NumJobs -> Int],
           a \in [1..NumJobs -> Int], b \in [1..NumJobs -> Int] :
           g = InQueue /\ h = InQueue' /\ a = SoFar /\ b = SoFar'
  BY <1>1, <1>2, <1>3
<1>6. ASSUME NEW T \in SUBSET S
      PROVE  /\ SumTo(h, NumJobs, T) = SumTo(g, NumJobs, T)
             /\ SumTo(b, NumJobs, T) = SumTo(a, NumJobs, T)
  <2>1. T \in SUBSET (1..NumJobs)
    BY <1>3
  <2>2. \A j \in T : h[j] = g[j] /\ b[j] = a[j]
    BY <1>4, <1>5
  <2> HIDE DEF S
  <2> QED BY <1>3, <2>1, <2>2, SumSame
<1>7. /\ SumTo(InQueue', NumJobs, LeftQueue) = SumTo(InQueue, NumJobs, LeftQueue)
      /\ SumTo(InQueue', NumJobs, Cleared) = SumTo(InQueue, NumJobs, Cleared)
      /\ SumTo(SoFar', NumJobs, InLine) = SumTo(SoFar, NumJobs, InLine)
  <2>1. LeftQueue \in SUBSET S /\ Cleared \in SUBSET S /\ InLine \in SUBSET S
    OBVIOUS
  <2> HIDE DEF S
  <2> QED BY <1>5, <1>6, <2>1
<1> QED BY <1>7 DEF AreaInv, Spent

\* What jobs outside the queue waited does not change while their times do not.
LEMMA InQueueStays ==
  ASSUME TimesOK, TimesOK', NEW T \in SUBSET Jobs,
         \A j \in T : /\ stamp'[j]["queueArrival"] = stamp[j]["queueArrival"]
                      /\ stamp'[j]["queueDeparture"] = stamp[j]["queueDeparture"]
  PROVE  SumTo(InQueue', NumJobs, T) = SumTo(InQueue, NumJobs, T)
<1>1. /\ InQueue \in [Jobs -> Int] /\ \A j \in Jobs :
           InQueue[j] = stamp[j]["queueDeparture"] - stamp[j]["queueArrival"]
  BY TimeFunctions
<1>2. /\ InQueue' \in [Jobs -> Int] /\ \A j \in Jobs :
           InQueue'[j] = stamp'[j]["queueDeparture"] - stamp'[j]["queueArrival"]
  BY DEF TimesOK, InQueue, TimeInQueue, Stamps
<1>3. Jobs = 1..NumJobs /\ NumJobs \in Nat
  BY StatisticsAssumption DEF Jobs
<1>4. \A j \in T : InQueue'[j] = InQueue[j]
  BY <1>1, <1>2
<1> HIDE DEF InQueue
<1>5. PICK g \in [1..NumJobs -> Int], h \in [1..NumJobs -> Int] : g = InQueue /\ h = InQueue'
  BY <1>1, <1>2, <1>3
<1>6. SumTo(h, NumJobs, T) = SumTo(g, NumJobs, T)
  BY <1>3, <1>4, <1>5, SumSame
<1> QED BY <1>5, <1>6

\* Adding a job to a sum, or taking one out, after a step.
LEMMA LaterSums ==
  ASSUME TimesOK', NEW T \in SUBSET Jobs, NEW j \in Jobs
  PROVE  /\ SumTo(InQueue', NumJobs, T) \in Int /\ SumTo(SoFar', NumJobs, T) \in Int
         /\ j \notin T => SumTo(InQueue', NumJobs, T \cup {j}) =
              SumTo(InQueue', NumJobs,
              T) + (stamp'[j]["queueDeparture"] - stamp'[j]["queueArrival"])
         /\ j \notin T => SumTo(SoFar', NumJobs, T \cup {j}) =
              SumTo(SoFar', NumJobs, T) + (lastInteraction' - stamp'[j]["queueArrival"])
         /\ j \in T => SumTo(SoFar', NumJobs, T \ {j}) =
              SumTo(SoFar', NumJobs, T) - (lastInteraction' - stamp'[j]["queueArrival"])
<1>1. /\ InQueue' \in [Jobs -> Int] /\ SoFar' \in [Jobs -> Int]
      /\ InQueue'[j] = stamp'[j]["queueDeparture"] - stamp'[j]["queueArrival"]
      /\ SoFar'[j] = lastInteraction' - stamp'[j]["queueArrival"]
  BY DEF TimesOK, InQueue, SoFar, TimeInQueue, TimeSoFar, Stamps
<1>2. Jobs = 1..NumJobs /\ NumJobs \in Nat
  BY StatisticsAssumption DEF Jobs
<1> HIDE DEF InQueue, SoFar
<1>3. PICK g \in [1..NumJobs -> Int], h \in [1..NumJobs -> Int] : g = InQueue' /\ h = SoFar'
  BY <1>1, <1>2
<1>4. /\ SumTo(g, NumJobs, T) \in Int /\ SumTo(h, NumJobs, T) \in Int
      /\ j \notin T => SumTo(g, NumJobs, T \cup {j}) = SumTo(g, NumJobs, T) + g[j]
      /\ j \notin T => SumTo(h, NumJobs, T \cup {j}) = SumTo(h, NumJobs, T) + h[j]
      /\ j \in T => SumTo(h, NumJobs, T \ {j}) = SumTo(h, NumJobs, T) - h[j]
  <2>1. T \in SUBSET (1..NumJobs) /\ j \in 1..NumJobs
    BY <1>2
  <2> QED BY <1>2, <2>1, SumFacts
<1> QED BY <1>1, <1>3, <1>4

\* The sums before a step are integers.
LEMMA EarlierSums ==
  ASSUME TimesOK, NEW T \in SUBSET Jobs
  PROVE  SumTo(InQueue, NumJobs, T) \in Int /\ SumTo(SoFar, NumJobs, T) \in Int
<1>1. InQueue \in [1..NumJobs -> Int] /\ SoFar \in [1..NumJobs -> Int] /\ NumJobs \in Nat
      /\ T \in SUBSET (1..NumJobs)
  BY TimeFunctions, StatisticsAssumption DEF Jobs
<1> HIDE DEF InQueue, SoFar
<1> QED BY <1>1, SumFacts

\* The list is as long as list_length says, and the time since the queue last
\* changed is not negative.
LEMMA Elapsed ==
  ASSUME QueueInv, AreaInv
  PROVE  /\ list_length = Len(line) /\ Len(line) \in Nat
         /\ clock \in Nat /\ lastInteraction \in Nat /\ lastInteraction <= clock
         /\ (clock - lastInteraction) * Len(line) \in Nat
<1>1. list_length = Len(line) /\ Len(line) \in Nat
  BY DEF QueueInv, ListInv, ListType, ListIsSequence, Represents, list_length
<1>2. clock - lastInteraction \in Nat /\ clock \in Nat /\ lastInteraction \in Nat
      /\ lastInteraction <= clock
  BY DEF AreaInv, TimesOK
<1>3. \A a, b \in Nat : a * b \in Nat
  OBVIOUS
<1> QED BY <1>1, <1>2, <1>3

\* The receiver adds the time the jobs before the new one waited
\* (console_handler.c:120-129).
LEMMA EnqueueAddsArea ==
  ASSUME QueueInv, QueueInv', WaitInv, AreaInv, Enqueue
  PROVE  AreaInv'
<1>0. /\ rpc = "offer" /\ Stamped(latest, "queueArrival") /\ "queueArrival" \in Stamps
      /\ lastInteraction' = clock /\ clock' = clock /\ outcome' = outcome
  BY DEF Enqueue, worldVars, Stamps
<1>1. latest \in Jobs /\ latest \notin InLine /\ latest \notin LeftQueue /\ outcome[latest] = "none"
  BY <1>0, OfferedIsNew
<1>2. InLine' = InLine \cup {latest} /\ LeftQueue' = LeftQueue /\ Cleared' = Cleared
  BY <1>0, EnqueueKeepsWaiting DEF Cleared
<1>3. /\ InLine \in SUBSET Jobs /\ LeftQueue \in SUBSET Jobs /\ Cleared \in SUBSET Jobs
      /\ latest \notin Cleared
  BY <1>1, Known DEF Cleared
<1>4. /\ stamp' \in [Jobs -> [Stamps -> Nat]]
      /\ \A k \in Jobs : \A u \in Stamps :
           stamp'[k][u] = IF k = latest /\ u = "queueArrival" THEN clock ELSE stamp[k][u]
  BY <1>0, <1>1, StampStep DEF AreaInv
<1>5. TimesOK'
  BY <1>0, <1>4 DEF AreaInv, TimesOK
<1>6. \A j \in Jobs : j # latest =>
        /\ stamp'[j]["queueArrival"] = stamp[j]["queueArrival"]
        /\ stamp'[j]["queueDeparture"] = stamp[j]["queueDeparture"]
  BY <1>4 DEF Stamps
<1>7. /\ SumTo(InQueue', NumJobs, LeftQueue) = SumTo(InQueue, NumJobs, LeftQueue)
      /\ SumTo(InQueue', NumJobs, Cleared) = SumTo(InQueue, NumJobs, Cleared)
  BY <1>1, <1>3, <1>5, <1>6, InQueueStays DEF AreaInv
<1>8. SumTo(SoFar', NumJobs, InLine)
        = SumTo(SoFar, NumJobs, InLine) + (clock - lastInteraction) * Len(line)
  BY <1>0, <1>1, <1>3, <1>5, <1>6, QueueWaits DEF AreaInv
<1>9. SumTo(SoFar', NumJobs, InLine \cup {latest}) = SumTo(SoFar', NumJobs, InLine)
  <2>1. SumTo(SoFar', NumJobs, InLine) \in Int
    BY <1>1, <1>3, <1>5, LaterSums
  <2>2. stamp'[latest]["queueArrival"] = clock /\ clock \in Int
    BY <1>0, <1>1, <1>4 DEF AreaInv, TimesOK
  <2>3. SumTo(SoFar', NumJobs, InLine \cup {latest})
          = SumTo(SoFar', NumJobs, InLine) + (clock - clock)
    BY <1>0, <1>1, <1>3, <1>5, <2>2, LaterSums
  <2> QED BY <2>1, <2>2, <2>3
<1>10. Spent' = Spent + (clock - lastInteraction) * Len(line)
  <2>1. /\ SumTo(InQueue, NumJobs, LeftQueue) \in Int /\ SumTo(SoFar, NumJobs, InLine) \in Int
        /\ (clock - lastInteraction) * Len(line) \in Int
    BY <1>3, EarlierSums, Elapsed DEF AreaInv
  <2>2. Spent' = SumTo(InQueue, NumJobs, LeftQueue)
                   + (SumTo(SoFar, NumJobs, InLine) + (clock - lastInteraction) * Len(line))
    BY <1>2, <1>7, <1>8, <1>9 DEF Spent
  <2> QED BY <2>1, <2>2 DEF Spent
<1>11. /\ "area" \in DOMAIN stats'
       /\ stats'.area = stats.area + (clock - lastInteraction) * Len(line)
  <2>1. "area" \in DOMAIN stats' /\ stats'.area = AreaAtArrival(list_length')
    BY DEF Enqueue, AreaInv
  <2>2. PICK node \in Nodes : list_append(node, latest)
    BY DEF Enqueue
  <2>3. list_length' = Len(line') /\ Len(line') = Len(line) + 1
    BY <2>2, Known DEF QueueInv, ListInv, ListIsSequence, Represents, list_length, list_append
  <2>4. list_length' - 1 = Len(line)
    BY <2>3, Elapsed
  <2> QED BY <2>1, <2>4 DEF AreaAtArrival
<1>12. /\ stats.area \in Int /\ Spent \in Int /\ SumTo(InQueue, NumJobs, Cleared) \in Int
       /\ (clock - lastInteraction) * Len(line) \in Int
  <2>1. TimesOK /\ stats.area \in Int /\ (clock - lastInteraction) * Len(line) \in Int
    BY Elapsed DEF AreaInv
  <2>2. /\ SumTo(InQueue, NumJobs, Cleared) \in Int /\ SumTo(InQueue, NumJobs, LeftQueue) \in Int
        /\ SumTo(SoFar, NumJobs, InLine) \in Int
    BY <1>3, <2>1, EarlierSums
  <2> QED BY <2>1, <2>2 DEF Spent
<1>13. /\ Cleared = {} => stats.area = Spent
       /\ stats.area <= Spent + SumTo(InQueue, NumJobs, Cleared)
  BY DEF AreaInv
<1> DEFINE grown == (clock - lastInteraction) * Len(line)
           cleared == SumTo(InQueue, NumJobs, Cleared)
<1>14. /\ grown \in Int /\ Spent' = Spent + grown /\ stats'.area = stats.area + grown
       /\ SumTo(InQueue', NumJobs, Cleared') = cleared /\ cleared \in Int
       /\ stats.area <= Spent + cleared
  BY <1>2, <1>7, <1>10, <1>11, <1>12, <1>13
<1> HIDE DEF grown, cleared
<1>15. Cleared' = {} => stats'.area = Spent'
  BY <1>2, <1>13, <1>14
<1>16. stats'.area <= Spent' + cleared
  BY <1>12, <1>14
<1>17. stats'.area \in Int
  BY <1>12, <1>14
<1> QED BY <1>5, <1>11, <1>14, <1>15, <1>16, <1>17 DEF AreaInv

\* A printer adds the time the jobs up to the one it took waited
\* (console_handler.c:131-141).
LEMMA DequeueAddsArea ==
  ASSUME QueueInv, QueueInv', WaitInv, AreaInv, NEW p \in Printers, Dequeue(p)
  PROVE  AreaInv'
<1> DEFINE first == JobAt(1)
<1>0. /\ lastInteraction' = clock /\ clock' = clock /\ outcome' = outcome
      /\ Stamped(first, "queueDeparture") /\ "queueDeparture" \in Stamps
      /\ Len(line) > 0 /\ line' = Tail(line)
  BY PopLeftData DEF Dequeue, worldVars, Stamps, QueueInv, JobAt
<1>1. /\ first \in InLine /\ InLine' = InLine \ {first} /\ LeftQueue' = LeftQueue \cup {first}
  BY DequeueKeepsWaiting
<1> HIDE DEF first
<1>2. /\ InLine \in SUBSET Jobs /\ LeftQueue \in SUBSET Jobs /\ Cleared \in SUBSET Jobs
      /\ first \in Jobs /\ first \notin LeftQueue /\ first \notin Cleared /\ Cleared' = Cleared
  <2>1. outcome[first] = "none"
    BY <1>1 DEF WaitInv, OutcomeInv
  <2> QED BY <1>0, <1>1, <2>1, Known DEF Cleared
<1>3. /\ stamp' \in [Jobs -> [Stamps -> Nat]]
      /\ \A k \in Jobs : \A u \in Stamps :
           stamp'[k][u] = IF k = first /\ u = "queueDeparture" THEN clock ELSE stamp[k][u]
  BY <1>0, <1>2, StampStep DEF AreaInv
<1>4. TimesOK'
  BY <1>0, <1>3 DEF AreaInv, TimesOK
<1>5. \A j \in Jobs :
        /\ stamp'[j]["queueArrival"] = stamp[j]["queueArrival"]
        /\ j # first => stamp'[j]["queueDeparture"] = stamp[j]["queueDeparture"]
  BY <1>3 DEF Stamps
<1>6. /\ SumTo(InQueue', NumJobs, LeftQueue) = SumTo(InQueue, NumJobs, LeftQueue)
      /\ SumTo(InQueue', NumJobs, Cleared) = SumTo(InQueue, NumJobs, Cleared)
  BY <1>2, <1>4, <1>5, InQueueStays DEF AreaInv
<1>7. SumTo(SoFar', NumJobs, InLine)
        = SumTo(SoFar, NumJobs, InLine) + (clock - lastInteraction) * Len(line)
  BY <1>0, <1>2, <1>4, <1>5, QueueWaits DEF AreaInv
<1>8. PICK t \in Int : t = clock - stamp'[first]["queueArrival"]
  BY <1>2, <1>3 DEF AreaInv, TimesOK, Stamps
<1>9. /\ SumTo(InQueue', NumJobs, LeftQueue \cup {first}) = SumTo(InQueue', NumJobs, LeftQueue) + t
       /\ SumTo(SoFar', NumJobs, InLine \ {first}) = SumTo(SoFar', NumJobs, InLine) - t
  <2>1. stamp'[first]["queueDeparture"] = clock
    BY <1>2, <1>3 DEF Stamps
  <2> QED BY <1>0, <1>1, <1>2, <1>4, <1>8, <2>1, LaterSums
<1>10. Spent' = Spent + (clock - lastInteraction) * Len(line)
  <2>1. /\ SumTo(InQueue, NumJobs, LeftQueue) \in Int /\ SumTo(SoFar, NumJobs, InLine) \in Int
        /\ (clock - lastInteraction) * Len(line) \in Int
    BY <1>2, EarlierSums, Elapsed DEF AreaInv
  <2>2. Spent' = (SumTo(InQueue, NumJobs, LeftQueue) + t)
                   + ((SumTo(SoFar, NumJobs, InLine) + (clock - lastInteraction) * Len(line)) - t)
    BY <1>1, <1>6, <1>7, <1>9 DEF Spent
  <2> QED BY <2>1, <2>2 DEF Spent
<1>11. /\ "area" \in DOMAIN stats'
       /\ stats'.area = stats.area + (clock - lastInteraction) * Len(line)
  <2>1. "area" \in DOMAIN stats' /\ stats'.area = AreaAtDeparture(list_length')
    BY DEF Dequeue, AreaInv
  <2>2. list_length' = Len(line') /\ Len(line') = Len(line) - 1
    BY <1>0, Known DEF QueueInv, ListInv, ListIsSequence, Represents, list_length
  <2>3. list_length' + 1 = Len(line)
    BY <2>2, Elapsed
  <2> QED BY <2>1, <2>3 DEF AreaAtDeparture
<1>12. /\ stats.area \in Int /\ Spent \in Int /\ SumTo(InQueue, NumJobs, Cleared) \in Int
       /\ (clock - lastInteraction) * Len(line) \in Int
  <2>1. TimesOK /\ stats.area \in Int /\ (clock - lastInteraction) * Len(line) \in Int
    BY Elapsed DEF AreaInv
  <2>2. /\ SumTo(InQueue, NumJobs, Cleared) \in Int /\ SumTo(InQueue, NumJobs, LeftQueue) \in Int
        /\ SumTo(SoFar, NumJobs, InLine) \in Int
    BY <1>2, <2>1, EarlierSums
  <2> QED BY <2>1, <2>2 DEF Spent
<1>13. /\ Cleared = {} => stats.area = Spent
       /\ stats.area <= Spent + SumTo(InQueue, NumJobs, Cleared)
  BY DEF AreaInv
<1> DEFINE grown == (clock - lastInteraction) * Len(line)
           cleared == SumTo(InQueue, NumJobs, Cleared)
<1>14. /\ grown \in Int /\ Spent' = Spent + grown /\ stats'.area = stats.area + grown
       /\ SumTo(InQueue', NumJobs, Cleared') = cleared /\ cleared \in Int
       /\ stats.area <= Spent + cleared
  BY <1>2, <1>6, <1>10, <1>11, <1>12, <1>13
<1> HIDE DEF grown, cleared
<1>15. Cleared' = {} => stats'.area = Spent'
  BY <1>2, <1>13, <1>14
<1>16. stats'.area <= Spent' + cleared
  BY <1>12, <1>14
<1>17. stats'.area \in Int
  BY <1>12, <1>14
<1> QED BY <1>4, <1>11, <1>14, <1>15, <1>16, <1>17 DEF AreaInv

\* The catcher notes the time and adds nothing (signalcatcher.c:18-28).
LEMMA DrainAddsNothing ==
  ASSUME QueueInv, WaitInv, AreaInv, DrainOne
  PROVE  AreaInv'
<1> DEFINE first == JobAt(1)
<1>0. /\ lastInteraction' = clock /\ clock' = clock
      /\ outcome' = [outcome EXCEPT ![first] = "removed"]
      /\ Stamped(first, "queueDeparture") /\ "queueDeparture" \in Stamps
  BY ClearOneData DEF DrainOne, worldVars, Stamps, QueueInv, JobAt
<1>1. first \in InLine /\ InLine' = InLine \ {first} /\ LeftQueue' = LeftQueue
  BY DrainKeepsWaiting
<1> HIDE DEF first
<1>2. /\ InLine \in SUBSET Jobs /\ LeftQueue \in SUBSET Jobs /\ Cleared \in SUBSET Jobs
      /\ first \in Jobs /\ first \notin LeftQueue
      /\ first \notin Cleared /\ Cleared' = Cleared \cup {first}
  <2>1. outcome[first] = "none" /\ first \in Jobs
    BY <1>1, Known DEF WaitInv, OutcomeInv
  <2>2. \A j \in Jobs : outcome'[j] = IF j = first THEN "removed" ELSE outcome[j]
    BY <1>0 DEF WaitInv, OutcomeInv
  <2> QED BY <1>1, <2>1, <2>2, Known DEF Cleared
<1>3. /\ stamp' \in [Jobs -> [Stamps -> Nat]]
      /\ \A k \in Jobs : \A u \in Stamps :
           stamp'[k][u] = IF k = first /\ u = "queueDeparture" THEN clock ELSE stamp[k][u]
  BY <1>0, <1>2, StampStep DEF AreaInv
<1>4. TimesOK'
  BY <1>0, <1>3 DEF AreaInv, TimesOK
<1>5. \A j \in Jobs :
        /\ stamp'[j]["queueArrival"] = stamp[j]["queueArrival"]
        /\ j # first => stamp'[j]["queueDeparture"] = stamp[j]["queueDeparture"]
  BY <1>3 DEF Stamps
<1>6. /\ SumTo(InQueue', NumJobs, LeftQueue) = SumTo(InQueue, NumJobs, LeftQueue)
      /\ SumTo(InQueue', NumJobs, Cleared) = SumTo(InQueue, NumJobs, Cleared)
  BY <1>2, <1>4, <1>5, InQueueStays DEF AreaInv
<1>7. SumTo(SoFar', NumJobs, InLine)
        = SumTo(SoFar, NumJobs, InLine) + (clock - lastInteraction) * Len(line)
  BY <1>0, <1>2, <1>4, <1>5, QueueWaits DEF AreaInv
<1>8. PICK t \in Int : t = clock - stamp'[first]["queueArrival"]
  BY <1>2, <1>3 DEF AreaInv, TimesOK, Stamps
<1>9. /\ SumTo(InQueue', NumJobs, Cleared \cup {first}) = SumTo(InQueue', NumJobs, Cleared) + t
       /\ SumTo(SoFar', NumJobs, InLine \ {first}) = SumTo(SoFar', NumJobs, InLine) - t
  <2>1. stamp'[first]["queueDeparture"] = clock
    BY <1>2, <1>3 DEF Stamps
  <2> QED BY <1>0, <1>1, <1>2, <1>4, <1>8, <2>1, LaterSums
<1>10. /\ stats.area \in Int /\ SumTo(InQueue, NumJobs, Cleared) \in Int
       /\ SumTo(InQueue, NumJobs, LeftQueue) \in Int /\ SumTo(SoFar, NumJobs, InLine) \in Int
       /\ (clock - lastInteraction) * Len(line) \in Nat
  BY <1>2, EarlierSums, Elapsed DEF AreaInv
<1>11. stats.area <= (SumTo(InQueue, NumJobs, LeftQueue) + SumTo(SoFar, NumJobs, InLine))
                       + SumTo(InQueue, NumJobs, Cleared)
  BY DEF AreaInv, Spent
<1> DEFINE grown == (clock - lastInteraction) * Len(line)
           left == SumTo(InQueue, NumJobs, LeftQueue)
           waited == SumTo(SoFar, NumJobs, InLine)
           cleared == SumTo(InQueue, NumJobs, Cleared)
<1>12. /\ Spent' = left + ((waited + grown) - t)
       /\ SumTo(InQueue', NumJobs, Cleared') = cleared + t
  BY <1>1, <1>2, <1>6, <1>7, <1>9 DEF Spent
<1>13. "area" \in DOMAIN stats' /\ stats'.area = stats.area
  BY DEF DrainOne, AreaInv
<1>14. stats'.area <= Spent' + SumTo(InQueue', NumJobs, Cleared')
  <2>1. /\ grown \in Nat /\ left \in Int /\ waited \in Int /\ cleared \in Int
        /\ stats.area <= (left + waited) + cleared
    BY <1>10, <1>11
  <2> HIDE DEF grown, left, waited, cleared
  <2>2. stats.area <= (left + ((waited + grown) - t)) + (cleared + t)
    BY <1>10, <2>1
  <2> QED BY <1>12, <1>13, <2>2
<1> QED BY <1>2, <1>4, <1>10, <1>13, <1>14 DEF AreaInv

\* The other points a job passes are stamped without touching its times in the queue.
LEMMA OtherStamp ==
  ASSUME AreaInv, NEW j \in Jobs, NEW t \in {"systemArrival", "serviceArrival", "serviceDeparture"},
         Stamped(j, t), clock' = clock, lastInteraction' = lastInteraction
  PROVE  /\ TimesOK'
         /\ \A k \in Jobs : /\ stamp'[k]["queueArrival"] = stamp[k]["queueArrival"]
                            /\ stamp'[k]["queueDeparture"] = stamp[k]["queueDeparture"]
<1>1. t \in Stamps /\ {"queueArrival", "queueDeparture"} \subseteq Stamps
      /\ t # "queueArrival" /\ t # "queueDeparture"
  BY DEF Stamps
<1>2. /\ stamp' \in [Jobs -> [Stamps -> Nat]]
      /\ \A k \in Jobs : \A u \in Stamps :
           stamp'[k][u] = IF k = j /\ u = t THEN clock ELSE stamp[k][u]
  BY <1>1, StampStep DEF AreaInv
<1>3. TimesOK'
  BY <1>2 DEF AreaInv, TimesOK
<1> QED BY <1>1, <1>2, <1>3

\* A printer at work holds a job that entered and has no outcome yet.
LEMMA HeldJob ==
  ASSUME QueueInv, WaitInv, NEW p \in Printers, elem[p] # NoNode
  PROVE  JobOf(p) \in Jobs /\ JobOf(p) \in InHands
BY Known DEF InHands

\* Whatever the step, the area stays what the jobs waited.
LEMMA AreaStep ==
  ASSUME QueueInv, QueueInv', WaitInv, AreaInv, [Next]_vars
  PROVE  AreaInv'
<1>0. /\ InLine \subseteq Jobs /\ LeftQueue \subseteq Jobs /\ Cleared \subseteq Jobs
      /\ ppc \in [Printers -> {"ready", "holding", "printing", "printed"}]
      /\ \A p \in Printers : ppc[p] = "ready" <=> elem[p] = NoNode
      /\ outcome \in [Jobs -> {"none", "served", "dropped", "removed"}]
      /\ clock \in Nat /\ lastInteraction \in Nat /\ lastInteraction <= clock
      /\ stamp \in [Jobs -> [Stamps -> Nat]] /\ "area" \in DOMAIN stats /\ latest \in 0..NumJobs
  BY Known DEF WaitInv, HoldInv, OutcomeInv, Cleared, AreaInv, TimesOK, QueueInv, ReceiverInv
<1>1. CASE Tick \/ CheckTermination \/ StopReceiving \/ Stop \/ Drained \/ End \/ Reported
           \/ UNCHANGED vars
  <2>1. UNCHANGED <<list, line, inHand, elem, outcome, lastInteraction, stamp>>
    BY <1>1 DEF Tick, CheckTermination, StopReceiving, Stop, Drained, End, Reported, vars,
        queueVars, listVars,
                printerVars
  <2>2. "area" \in DOMAIN stats' /\ stats'.area = stats.area
    BY <1>0, <1>1 DEF Tick, CheckTermination, StopReceiving, Stop, Drained, End, Reported, vars
  <2>3. clock' = clock \/ clock' = clock + 1
    BY <1>1 DEF Tick, CheckTermination, StopReceiving, Stop, Drained, End, Reported, vars, worldVars
  <2>4. TimesOK'
    BY <1>0, <2>1, <2>3 DEF TimesOK
  <2>5. InLine' = InLine /\ LeftQueue' = LeftQueue /\ Cleared' = Cleared
    BY <2>1 DEF InLine, JobAt, LeftQueue, InHands, JobOf, Cleared
  <2> QED BY <2>1, <2>2, <2>4, <2>5, AreaStays
<1>2. CASE Arrive
  <2>1. UNCHANGED <<list, line, inHand, elem, outcome, lastInteraction, clock>>
        /\ Stamped(latest + 1, "systemArrival") /\ latest < NumJobs
    BY <1>0, <1>2 DEF Arrive, queueVars, listVars, printerVars, worldVars, QueueInv, ReceiverInv
  <2>2. "area" \in DOMAIN stats' /\ stats'.area = stats.area
    BY <1>0, <1>2 DEF Arrive
  <2>3. latest + 1 \in Jobs
    BY <1>0, <2>1, StatisticsAssumption DEF Jobs
  <2>4. /\ TimesOK'
        /\ \A k \in Jobs : /\ stamp'[k]["queueArrival"] = stamp[k]["queueArrival"]
                           /\ stamp'[k]["queueDeparture"] = stamp[k]["queueDeparture"]
    BY <2>1, <2>3, OtherStamp
  <2>5. InLine' = InLine /\ LeftQueue' = LeftQueue /\ Cleared' = Cleared
    BY <2>1 DEF InLine, JobAt, LeftQueue, InHands, JobOf, Cleared
  <2> QED BY <1>0, <2>1, <2>2, <2>4, <2>5, AreaStays
<1>3. CASE Drop
  <2>1. /\ UNCHANGED <<lastInteraction, stamp, clock>> /\ rpc = "offer"
        /\ outcome' = [outcome EXCEPT ![latest] = "dropped"]
    BY <1>3 DEF Drop, queueVars, worldVars
  <2>2. "area" \in DOMAIN stats' /\ stats'.area = stats.area
    BY <1>0, <1>3 DEF Drop
  <2>3. TimesOK'
    BY <1>0, <2>1 DEF TimesOK
  <2>4. InLine' = InLine /\ LeftQueue' = LeftQueue
    BY <1>3, DropKeepsWaiting
  <2>5. Cleared' = Cleared
    <3>1. outcome[latest] = "none"
      BY <2>1, OfferedIsNew
    <3>2. \A j \in Jobs : outcome'[j] = IF j = latest THEN "dropped" ELSE outcome[j]
      BY <1>0, <2>1
    <3> QED BY <3>1, <3>2 DEF Cleared
  <2> QED BY <2>1, <2>2, <2>3, <2>4, <2>5, AreaStays
<1>4. CASE Enqueue
  BY <1>4, EnqueueAddsArea
<1>5. ASSUME NEW p \in Printers, Dequeue(p)
      PROVE  AreaInv'
  BY <1>5, DequeueAddsArea
<1>6. ASSUME NEW p \in Printers, BeginService(p) \/ EndService(p)
      PROVE  AreaInv'
  <2>1. UNCHANGED <<list, line, inHand, elem, outcome, lastInteraction, clock, stats>>
    BY <1>6 DEF BeginService, EndService, queueVars, listVars, worldVars
  <2>2. PICK t \in {"serviceArrival", "serviceDeparture"} : Stamped(JobOf(p), t)
    BY <1>6 DEF BeginService, EndService
  <2>3. JobOf(p) \in Jobs
    <3>1. elem[p] # NoNode
      BY <1>0, <1>6 DEF BeginService, EndService, PrinterAt
    <3> QED BY <3>1, HeldJob
  <2>4. /\ TimesOK'
        /\ \A k \in Jobs : /\ stamp'[k]["queueArrival"] = stamp[k]["queueArrival"]
                           /\ stamp'[k]["queueDeparture"] = stamp[k]["queueDeparture"]
    BY <2>1, <2>2, <2>3, OtherStamp
  <2>5. InLine' = InLine /\ LeftQueue' = LeftQueue /\ Cleared' = Cleared
    BY <2>1 DEF InLine, JobAt, LeftQueue, InHands, JobOf, Cleared
  <2> QED BY <1>0, <2>1, <2>4, <2>5, AreaStays
<1>7. ASSUME NEW p \in Printers, Depart(p)
      PROVE  AreaInv'
  <2>1. /\ UNCHANGED <<lastInteraction, stamp, clock>>
        /\ outcome' = [outcome EXCEPT ![JobOf(p)] = "served"]
    BY <1>7 DEF Depart, worldVars
  <2>2. "area" \in DOMAIN stats' /\ stats'.area = stats.area
    BY <1>0, <1>7 DEF Depart, Departed
  <2>3. TimesOK'
    BY <1>0, <2>1 DEF TimesOK
  <2>4. InLine' = InLine /\ LeftQueue' = LeftQueue /\ outcome[JobOf(p)] = "none"
    BY <1>7, DepartKeepsWaiting
  <2>5. Cleared' = Cleared
    <3>1. \A j \in Jobs : outcome'[j] = IF j = JobOf(p) THEN "served" ELSE outcome[j]
      BY <1>0, <2>1
    <3> QED BY <2>4, <3>1 DEF Cleared
  <2> QED BY <2>1, <2>2, <2>3, <2>4, <2>5, AreaStays
<1>8. CASE DrainOne
  BY <1>8, DrainAddsNothing
<1> QED BY <1>1, <1>2, <1>3, <1>4, <1>5, <1>6, <1>7, <1>8 DEF Next

\* The area is what the jobs waited at every moment of a run.
THEOREM AreaInvariant == Spec => []AreaInv
<1>1. Init => AreaInv
  <2> SUFFICES ASSUME Init PROVE AreaInv
    OBVIOUS
  <2>1. InLine = {} /\ LeftQueue = {} /\ Cleared = {}
    BY DEF Init, list_init, InLine, InHands, LeftQueue, Cleared
  <2>2. TimesOK /\ "area" \in DOMAIN stats /\ stats.area = 0
    BY DEF Init, TimesOK
  <2>3. /\ InQueue \in [1..NumJobs -> Int] /\ SoFar \in [1..NumJobs -> Int] /\ NumJobs \in Nat
    BY <2>2, TimeFunctions, StatisticsAssumption DEF Jobs
  <2>4. SumTo(InQueue, NumJobs, {}) = 0 /\ SumTo(SoFar, NumJobs, {}) = 0
    <3> HIDE DEF InQueue, SoFar
    <3> QED BY <2>3, SumFacts
  <2> QED BY <2>1, <2>2, <2>4 DEF AreaInv, Spent
<1>2. QueueInv /\ QueueInv' /\ WaitInv /\ AreaInv /\ [Next]_vars => AreaInv'
  BY AreaStep
<1> QED BY <1>1, <1>2, QueueInvariant, WaitInvariant, PTL DEF Spec

\* The area under the length of the queue is the time the jobs spent in it, for
\* any number of jobs and printers and any course of the clock; jobs removed by a
\* stop can only be missing from it (console_handler.c:120-141,
\* signalcatcher.c:18-28).
THEOREM AreaUnderQueue == Spec => []AreaIsIntegral
<1>1. QueueInv /\ WaitInv /\ AreaInv => AreaIsIntegral
  <2> SUFFICES ASSUME QueueInv, WaitInv, AreaInv PROVE AreaIsIntegral
    OBVIOUS
  <2>1. InQueue \in [Jobs -> Int] /\ SoFar \in [Jobs -> Int]
    BY TimeFunctions DEF AreaInv
  <2>2. InLine \in SUBSET Jobs /\ LeftQueue \in SUBSET Jobs /\ Cleared \in SUBSET Jobs
    BY Known DEF Cleared
  <2>3. /\ MapThenSumSet(TimeInQueue, LeftQueue) = SumTo(InQueue, NumJobs, LeftQueue)
        /\ MapThenSumSet(TimeInQueue, Cleared) = SumTo(InQueue, NumJobs, Cleared)
        /\ MapThenSumSet(TimeSoFar, Waiting) = SumTo(SoFar, NumJobs, InLine)
    BY <2>1, <2>2, InQueueFold, SoFarFold, LineIsWaiting
  <2>4. /\ Cleared = {} => stats.area = Spent
        /\ stats.area <= Spent + SumTo(InQueue, NumJobs, Cleared)
    BY DEF AreaInv
  <2> QED BY <2>3, <2>4 DEF AreaIsIntegral, Cleared, Spent
<1> QED BY <1>1, QueueInvariant, WaitInvariant, AreaInvariant, PTL

-----------------------------------------------------------------------------
(* The report *)

\* A sum in which one term grows.
LEMMA SumBump ==
  ASSUME NEW n \in Nat, NEW g \in [1..n -> Int], NEW h \in [1..n -> Int],
         NEW S \in SUBSET (1..n), NEW x \in S, NEW d \in Int,
         h[x] = g[x] + d, \A y \in S : y # x => h[y] = g[y]
  PROVE  SumTo(h, n, S) = SumTo(g, n, S) + d
<1>1. S \ {x} \in SUBSET (1..n) /\ \A y \in S \ {x} : h[y] = g[y]
  OBVIOUS
<1>2. SumTo(h, n, S \ {x}) = SumTo(g, n, S \ {x})
  BY <1>1, SumSame
<1>3. /\ SumTo(h, n, S \ {x}) = SumTo(h, n, S) - h[x]
      /\ SumTo(g, n, S \ {x}) = SumTo(g, n, S) - g[x]
      /\ SumTo(h, n, S) \in Int /\ SumTo(g, n, S) \in Int
  BY SumFacts
<1>4. g[x] \in Int /\ h[x] \in Int
  OBVIOUS
<1> DEFINE a == SumTo(h, n, S)
           b == SumTo(g, n, S)
<1>5. a - (g[x] + d) = b - g[x] /\ a \in Int /\ b \in Int
  BY <1>2, <1>3
<1> HIDE DEF a, b
<1>6. a = b + d
  BY <1>4, <1>5
<1> QED BY <1>6 DEF a, b

\* Terms that are zero may be left out.
LEMMA SumSupport ==
  ASSUME NEW n \in Nat, NEW g \in [1..n -> Int], NEW S \in SUBSET (1..n), NEW T \in SUBSET S,
         \A x \in S \ T : g[x] = 0
  PROVE  SumTo(g, n, S) = SumTo(g, n, T)
<1> DEFINE R == S \ T
           Wrong == {r \in SUBSET R : SumTo(g, n, T \cup r) # SumTo(g, n, T)}
<1>1. Wrong # {} => \E r \in Wrong : \A q \in Wrong : <<q, r>> \notin StrictSubsetOrdering(R)
  <2> HIDE DEF Wrong
  <2>1. Wrong \subseteq SUBSET R
    BY DEF Wrong
  <2>2. IsFiniteSet(R)
    <3>1. R \in SUBSET (1..n)
      OBVIOUS
    <3> QED BY <3>1, SubsetsOf
  <2> QED BY <2>1, <2>2, Smallest
<1>2. Wrong = {}
  <2> SUFFICES ASSUME Wrong # {} PROVE FALSE
    OBVIOUS
  <2>1. PICK r \in Wrong : \A q \in Wrong : <<q, r>> \notin StrictSubsetOrdering(R)
    BY <1>1
  <2>2. r # {}
    OBVIOUS
  <2>3. PICK x \in r : TRUE
    BY <2>2
  <2>4. r \ {x} \in SUBSET R /\ <<r \ {x}, r>> \in StrictSubsetOrdering(R)
    BY DEF StrictSubsetOrdering
  <2>5. SumTo(g, n, T \cup (r \ {x})) = SumTo(g, n, T)
    BY <2>1, <2>4
  <2>6. /\ T \cup r \in SUBSET (1..n) /\ x \in T \cup r /\ g[x] = 0
        /\ (T \cup r) \ {x} = T \cup (r \ {x})
    BY <2>3
  <2>7. SumTo(g, n, (T \cup r) \ {x}) = SumTo(g, n, T \cup r) - g[x]
        /\ SumTo(g, n, T \cup r) \in Int
    BY <2>6, SumFacts
  <2>8. SumTo(g, n, T \cup r) = SumTo(g, n, T)
    <3>1. SumTo(g, n, T \cup r) - 0 = SumTo(g, n, T)
      BY <2>5, <2>6, <2>7, Zenon
    <3> HIDE DEF R, Wrong
    <3> QED BY <2>7, <3>1
  <2> QED BY <2>8
<1>3. R \notin Wrong
  <2> HIDE DEF Wrong
  <2> QED BY <1>2
<1>4. T \cup R = S
  OBVIOUS
<1> QED BY <1>3, <1>4

\* What Total computes, for any function.
LEMMA SumFold ==
  ASSUME NEW n \in Nat, NEW f \in [1..n -> Int], NEW S \in SUBSET (1..n)
  PROVE  MapThenSumSet(LAMBDA p : f[p], S) = SumTo(f, n, S)
<1> DEFINE Step(it) == [s \in SUBSET S |->
              IF s = {} THEN 0
              ELSE LET x == CHOOSE x \in s : TRUE IN f[x] + it[s \ {x}]]
           it == CHOOSE it : it = Step(it)
           sums == [s \in SUBSET S |-> SumTo(f, n, s)]
<1>1. sums = Step(sums)
  <2> SUFFICES ASSUME NEW s \in SUBSET S PROVE sums[s] = Step(sums)[s]
    BY Zenon
  <2>1. CASE s = {}
    BY <2>1, SumIterates
  <2>2. CASE s # {}
    <3> DEFINE x == CHOOSE x \in s : TRUE
    <3>1. s \in SUBSET (1..n) /\ s \ {x} \in SUBSET S
      OBVIOUS
    <3>2. sums[s] = f[x] + sums[s \ {x}]
      BY <2>2, <3>1, SumIterates
    <3> QED BY <2>2, <3>2
  <2> QED BY <2>1, <2>2
<1>2. it = Step(it)
  <2> HIDE DEF sums
  <2> QED BY <1>1, Zenon
<1>3. MapThenSumSet(LAMBDA p : f[p], S) = it[S]
  BY DEF MapThenSumSet, MapThenFoldSet
<1> HIDE DEF it, sums
<1>4. \A s \in SUBSET S :
        it[s] = IF s = {} THEN 0
                ELSE f[CHOOSE x \in s : TRUE] + it[s \ {CHOOSE x \in s : TRUE}]
  BY <1>2
<1>5. it[S] = SumTo(f, n, S)
  BY <1>4, IterIsSum
<1> QED BY <1>3, <1>5

\* The record of statistics.
StatRecords ==
  [arrived : Nat, served : Nat, dropped : Nat, removed : Nat,
   interArrival : Int, systemTime : Int, squares : Int, queueWait : Int,
   area : Int, maxQueue : Nat, jobsServed : [Printers -> Nat],
   serviceTime : [Printers -> Int], printersUsed : 0..NumPrinters, duration : Nat]

\* Times are not in the future.
StatsType ==
  /\ stats \in StatRecords /\ previous \in Nat
  /\ clock \in 0..MaxTime
  /\ stamp \in [Jobs -> [Stamps -> Nat]]
  /\ \A j \in Jobs : \A t \in Stamps : stamp[j][t] <= clock
  /\ mpc \in {"join", "report"} /\ spc \in {"sigwait", "drain", "done"}

\* What the departures count.
SameServed ==
  /\ stats'.served = stats.served /\ stats'.systemTime = stats.systemTime
  /\ stats'.squares = stats.squares /\ stats'.queueWait = stats.queueWait
  /\ stats'.jobsServed = stats.jobsServed /\ stats'.serviceTime = stats.serviceTime
  /\ stats'.printersUsed = stats.printersUsed

\* What the receiver counts.
SameArrived ==
  /\ stats'.arrived = stats.arrived /\ stats'.dropped = stats.dropped
  /\ stats'.interArrival = stats.interArrival

\* The receiver counts an arrival, and its gap (console_handler.c:97-99).
LEMMA ArriveCounts ==
  ASSUME StatsType, Arrive
  PROVE  /\ stats' \in StatRecords /\ SameServed
         /\ stats'.arrived = stats.arrived + 1 /\ stats'.dropped = stats.dropped
         /\ stats'.interArrival = stats.interArrival + (clock - previous)
         /\ stats'.area = stats.area /\ stats'.duration = stats.duration
<1>1. PICK d \in Int : d = clock - previous
  BY DEF StatsType
<1>2. stats' = [stats EXCEPT !.arrived = @ + 1, !.interArrival = @ + d]
  BY <1>1 DEF Arrive
<1>3. /\ stats' \in StatRecords /\ SameServed
      /\ stats'.arrived = stats.arrived + 1 /\ stats'.dropped = stats.dropped
      /\ stats'.interArrival = stats.interArrival + d
      /\ stats'.area = stats.area /\ stats'.duration = stats.duration
  <2>1. stats \in StatRecords
    BY DEF StatsType
  <2>2. stats.arrived \in Nat /\ stats.interArrival \in Int
    BY <2>1 DEF StatRecords
  <2>3. PICK a \in Nat, i \in Int : a = stats.arrived + 1 /\ i = stats.interArrival + d
    BY <2>2
  <2>4. stats' = [stats EXCEPT !.arrived = a, !.interArrival = i]
    BY <1>2, <2>1, <2>3 DEF StatRecords
  <2> QED BY <2>1, <2>3, <2>4 DEF StatRecords, SameServed
<1> QED BY <1>1, <1>3

\* The receiver counts a dropped job (console_handler.c:105-107).
LEMMA DropCounts ==
  ASSUME StatsType, Drop
  PROVE  /\ stats' \in StatRecords /\ SameServed
         /\ stats'.arrived = stats.arrived /\ stats'.dropped = stats.dropped + 1
         /\ stats'.interArrival = stats.interArrival
         /\ stats'.area = stats.area /\ stats'.duration = stats.duration
BY DEF StatsType, StatRecords, Drop, SameServed

\* The queue was so long since it last changed, whether a job enters it or leaves
\* it (console_handler.c:120-141).
LEMMA EnqueueCounts ==
  ASSUME QueueInv, QueueInv', StatsType, Enqueue, lastInteraction \in Nat
  PROVE  /\ stats' \in StatRecords /\ SameServed /\ SameArrived
         /\ stats'.area = stats.area + (clock - lastInteraction) * Len(line)
         /\ stats'.duration = stats.duration
<1>1. PICK node \in Nodes : list_append(node, latest)
  BY DEF Enqueue
<1>2. /\ list_length = Len(line) /\ Len(line) \in Nat /\ list_length' = Len(line) + 1
  BY <1>1 DEF QueueInv, ListInv, ListType, ListIsSequence, Represents, list_length, list_append
<1>3. stats.maxQueue \in Nat /\ stats.area \in Int /\ clock \in Nat
  BY DEF StatsType, StatRecords
<1>4. NewPeak(list_length) \in Nat
  <2>1. NewPeak(list_length) = IF Len(line) >= stats.maxQueue THEN Len(line) ELSE stats.maxQueue
    BY <1>2, <1>3, MaxOfTwo DEF NewPeak
  <2> QED BY <1>2, <1>3, <2>1
<1>5. AreaAtArrival(list_length') = stats.area + (clock - lastInteraction) * Len(line)
  BY <1>2 DEF AreaAtArrival
<1>6. AreaAtArrival(list_length') \in Int
  BY <1>2, <1>3, <1>5
<1>7. PICK m \in Nat, a \in Int : m = NewPeak(list_length) /\ a = AreaAtArrival(list_length')
  BY <1>4, <1>6
<1>8. stats' = [stats EXCEPT !.maxQueue = m, !.area = a]
  BY <1>7 DEF Enqueue
<1>9. stats' \in StatRecords /\ SameServed /\ SameArrived /\ stats'.area = a
      /\ stats'.duration = stats.duration
  BY <1>8 DEF StatsType, StatRecords, SameServed, SameArrived
<1> QED BY <1>5, <1>7, <1>9

\* The same area is added when a printer takes a job.
LEMMA DequeueCounts ==
  ASSUME QueueInv, QueueInv', StatsType, NEW p \in Printers, Dequeue(p), lastInteraction \in Nat
  PROVE  /\ stats' \in StatRecords /\ SameServed /\ SameArrived
         /\ stats'.area = stats.area + (clock - lastInteraction) * Len(line)
         /\ stats'.duration = stats.duration
<1>1. Len(line) > 0 /\ line' = Tail(line)
  BY PopLeftData DEF Dequeue, QueueInv
<1>2. Len(line) \in Nat /\ list_length' = Len(line) - 1
  BY <1>1 DEF QueueInv, ListInv, ListType, ListIsSequence, Represents, list_length
<1>3. stats.area \in Int /\ clock \in Nat
  BY DEF StatsType, StatRecords
<1>4. list_length' + 1 = Len(line)
  BY <1>2
<1>5. AreaAtDeparture(list_length') = stats.area + (clock - lastInteraction) * Len(line)
  BY <1>4 DEF AreaAtDeparture
<1>6. AreaAtDeparture(list_length') \in Int
  BY <1>2, <1>3, <1>5
<1>7. PICK a \in Int : a = AreaAtDeparture(list_length')
  BY <1>6
<1>8. stats' = [stats EXCEPT !.area = a]
  BY <1>7 DEF Dequeue
<1>9. stats' \in StatRecords /\ SameServed /\ SameArrived /\ stats'.area = a
      /\ stats'.duration = stats.duration
  BY <1>8 DEF StatsType, StatRecords, SameServed, SameArrived
<1> QED BY <1>5, <1>7, <1>9

\* A printer counts a job with the differences of its times t
\* (console_handler.c:163-189).
LEMMA DepartCounts ==
  ASSUME StatsType, NEW p \in Printers, Depart(p), NEW t \in [Stamps -> Nat], t = stamp[JobOf(p)]
  PROVE  /\ stats' \in StatRecords /\ SameArrived
         /\ stats'.area = stats.area /\ stats'.duration = stats.duration
         /\ stats'.served = stats.served + 1
         /\ stats'.systemTime = stats.systemTime + (t["serviceDeparture"] - t["systemArrival"])
         /\ stats'.squares = stats.squares + AsInt((t["serviceDeparture"] - t["systemArrival"])
                                                   * (t["serviceDeparture"] - t["systemArrival"]))
         /\ stats'.jobsServed = [stats.jobsServed EXCEPT ![p] = stats.jobsServed[p] + 1]
         /\ stats'.serviceTime = [stats.serviceTime EXCEPT ![p] = stats.serviceTime[p]
                                    + (t["serviceDeparture"] - t["serviceArrival"])]
         /\ stats'.printersUsed = IF p >= stats.printersUsed THEN p ELSE stats.printersUsed
         /\ stats'.queueWait = stats.queueWait + (t["queueDeparture"] - t["queueArrival"])
<1>1. /\ t["serviceDeparture"] \in Nat /\ t["systemArrival"] \in Nat /\ t["serviceArrival"] \in Nat
      /\ t["queueDeparture"] \in Nat /\ t["queueArrival"] \in Nat
  BY DEF Stamps
<1>2. PICK x \in Int : x = t["serviceDeparture"] - t["systemArrival"]
  BY <1>1
<1>20. PICK s \in Int : s = t["serviceDeparture"] - t["serviceArrival"]
  BY <1>1
<1>21. PICK w \in Int : w = t["queueDeparture"] - t["queueArrival"]
  BY <1>1
<1>3. AsInt(x * x) \in Int
  <2>1. x * x \in Int /\ SquareRange \in Nat \ {0} /\ SquareRange \div 2 \in Int
    BY StatisticsAssumption
  <2>2. PICK y \in Int, h \in Int : y = x * x /\ h = SquareRange \div 2
    BY <2>1
  <2>3. (y + h) % SquareRange \in Int
    BY <2>1, <2>2
  <2> QED BY <2>2, <2>3 DEF AsInt
<1>4. PICK y \in Int : y = AsInt(x * x)
  BY <1>3
<1>5. stats.printersUsed \in 0..NumPrinters /\ p \in 1..NumPrinters /\ NumPrinters \in Nat
  BY StatisticsAssumption DEF StatsType, StatRecords, Printers
<1>6. PICK u \in 0..NumPrinters : u = Max({p, stats.printersUsed})
        /\ u = IF p >= stats.printersUsed THEN p ELSE stats.printersUsed
  BY <1>5, MaxOfTwo
<1>7. PICK f \in [Printers -> Nat] : f = [stats.jobsServed EXCEPT ![p] = stats.jobsServed[p] + 1]
  <2>1. stats.jobsServed \in [Printers -> Nat] /\ stats.jobsServed[p] + 1 \in Nat
    BY DEF StatsType, StatRecords
  <2> QED BY <2>1
<1>8. PICK g \in [Printers -> Int] : g = [stats.serviceTime EXCEPT ![p] = stats.serviceTime[p] + s]
  <2>1. stats.serviceTime \in [Printers -> Int] /\ stats.serviceTime[p] + s \in Int
    BY DEF StatsType, StatRecords
  <2> QED BY <2>1
<1>9. stats' = [stats EXCEPT !.systemTime = stats.systemTime + x,
                  !.squares = stats.squares + y,
                  !.served = stats.served + 1,
                  !.jobsServed = f,
                  !.serviceTime = g,
                  !.printersUsed = u,
                  !.queueWait = stats.queueWait + w]
  <2>1. stats' = Departed(p, t)
    BY DEF Depart
  <2> QED BY <1>2, <1>20, <1>21, <1>4, <1>6, <1>7, <1>8, <2>1 DEF Departed, StatsType, StatRecords
<1>10. /\ stats' \in StatRecords /\ SameArrived
       /\ stats'.area = stats.area /\ stats'.duration = stats.duration
       /\ stats'.served = stats.served + 1
       /\ stats'.systemTime = stats.systemTime + x
       /\ stats'.squares = stats.squares + y
       /\ stats'.jobsServed = f
       /\ stats'.serviceTime = g
       /\ stats'.printersUsed = u
       /\ stats'.queueWait = stats.queueWait + w
  <2>1. stats \in StatRecords
    BY DEF StatsType
  <2>2. /\ stats.systemTime \in Int /\ stats.squares \in Int /\ stats.served \in Nat
        /\ stats.queueWait \in Int
    BY <2>1 DEF StatRecords
  <2>3. PICK a \in Int : a = stats.systemTime + x
    BY <2>2
  <2>4. PICK b \in Int : b = stats.squares + y
    BY <2>2
  <2>5. PICK c \in Nat : c = stats.served + 1
    BY <2>2
  <2>6. PICK e \in Int : e = stats.queueWait + w
    BY <2>2
  <2>7. stats' = [stats EXCEPT !.systemTime = a, !.squares = b, !.served = c, !.jobsServed = f,
                    !.serviceTime = g, !.printersUsed = u, !.queueWait = e]
    BY <1>9, <2>3, <2>4, <2>5, <2>6, Zenon
  <2>8. stats' \in StatRecords
    BY <2>1, <2>7 DEF StatRecords
  <2>9. /\ SameArrived /\ stats'.area = stats.area /\ stats'.duration = stats.duration
        /\ stats'.served = c /\ stats'.systemTime = a /\ stats'.squares = b
        /\ stats'.jobsServed = f /\ stats'.serviceTime = g
        /\ stats'.printersUsed = u /\ stats'.queueWait = e
    BY <2>1, <2>7 DEF StatRecords, SameArrived
  <2> QED BY <2>3, <2>4, <2>5, <2>6, <2>8, <2>9
<1> QED BY <1>2, <1>20, <1>21, <1>4, <1>6, <1>7, <1>8, <1>10

\* The other steps count nothing of these, or the time or a removed job only.
LEMMA OthersCount ==
  ASSUME StatsType,
         Tick \/ CheckTermination \/ StopReceiving \/ Stop \/ DrainOne \/ Drained \/ End
         \/ Reported \/ UNCHANGED vars
           \/ \E p \in Printers : BeginService(p) \/ EndService(p)
  PROVE  /\ stats' \in StatRecords /\ SameServed /\ SameArrived
         /\ stats'.area = stats.area
         /\ mpc = "report" => stats'.duration = stats.duration
         /\ previous' = previous /\ latest' = latest
<1>1. CASE Tick \/ CheckTermination \/ StopReceiving \/ Drained \/ Reported \/ UNCHANGED vars
           \/ \E p \in Printers : BeginService(p) \/ EndService(p)
  <2>1. stats' = stats
    BY <1>1 DEF Tick, CheckTermination, StopReceiving, Drained, Reported, vars, BeginService,
        EndService
  <2>2. previous' = previous /\ latest' = latest
    BY <1>1 DEF Tick, CheckTermination, StopReceiving, Drained, Reported, vars, BeginService,
        EndService, receiverVars
  <2> QED BY <2>1, <2>2 DEF StatsType, SameServed, SameArrived
<1>2. CASE Stop \/ End
  <2>1. stats' = [stats EXCEPT !.duration = clock] /\ mpc # "report"
        /\ previous' = previous /\ latest' = latest
    BY <1>2 DEF Stop, End, receiverVars
  <2>2. clock \in Nat
    BY DEF StatsType
  <2> QED BY <2>1, <2>2 DEF StatsType, StatRecords, SameServed, SameArrived
<1>3. CASE DrainOne
  <2>1. stats' = [stats EXCEPT !.removed = @ + 1]
        /\ previous' = previous /\ latest' = latest
    BY <1>3 DEF DrainOne, receiverVars
  <2> QED BY <2>1 DEF StatsType, StatRecords, SameServed, SameArrived
<1> QED BY <1>1, <1>2, <1>3

\* The job a printer holds, and the first of the queue, are jobs of the run.
LEMMA StampedJobs ==
  ASSUME QueueInv, WaitInv
  PROVE  /\ \A p \in Printers : elem[p] # NoNode => JobOf(p) \in Jobs /\ JobOf(p) \in LeftQueue
         /\ Len(line) > 0 => JobAt(1) \in Jobs /\ JobAt(1) \in InLine
         /\ rpc = "offer" => latest \in Jobs
<1>1. \A p \in Printers : elem[p] # NoNode => JobOf(p) \in LeftQueue
  BY DEF InHands, LeftQueue
<1>2. Len(line) > 0 => JobAt(1) \in InLine
  <2>1. Len(line) > 0 => 1 \in 1..Len(line)
    BY Known
  <2> QED BY <2>1 DEF InLine
<1> QED BY <1>1, <1>2, Known, OfferedIsNew

\* A step stamps one time of a job without outcome with the clock, or none.
LEMMA StampOrNot ==
  ASSUME QueueInv, WaitInv, [Next]_vars
  PROVE  \/ stamp' = stamp /\ (clock' = clock \/ (clock < MaxTime /\ clock' = clock + 1))
         \/ /\ clock' = clock
            /\ \E j \in Jobs, t \in Stamps : outcome[j] = "none" /\ Stamped(j, t)
<1>0. /\ {"systemArrival", "queueArrival", "queueDeparture", "serviceArrival", "serviceDeparture"}
           \subseteq Stamps
      /\ \A p \in Printers : ppc[p] \in {"holding", "printing"} =>
           JobOf(p) \in Jobs /\ outcome[JobOf(p)] = "none"
  <2>1. \A p \in Printers : ppc[p] \in {"holding", "printing"} => elem[p] # NoNode
    BY DEF WaitInv, HoldInv
  <2>2. \A p \in Printers : elem[p] # NoNode => outcome[JobOf(p)] = "none"
    BY DEF WaitInv, OutcomeInv, InHands
  <2> QED BY <2>1, <2>2, StampedJobs DEF Stamps
<1>1. CASE Tick \/ CheckTermination \/ StopReceiving \/ Drop \/ Stop \/ Drained \/ End
           \/ Reported \/ UNCHANGED vars
           \/ \E p \in Printers : Depart(p)
  BY <1>1 DEF Tick, CheckTermination, StopReceiving, Drop, Stop, Drained, End, Reported, Depart,
      vars, worldVars
<1>2. CASE Arrive
  <2>1. clock' = clock /\ Stamped(latest + 1, "systemArrival") /\ latest < NumJobs
    BY <1>2 DEF Arrive, worldVars, QueueInv, ReceiverInv
  <2>2. latest + 1 \in Jobs /\ ~Entered(latest + 1)
    BY <2>1, StatisticsAssumption DEF Jobs, QueueInv, ReceiverInv, Entered
  <2>3. outcome[latest + 1] = "none"
    BY <2>2 DEF WaitInv, OutcomeInv
  <2> QED BY <1>0, <2>1, <2>2, <2>3
<1>3. CASE Enqueue
  <2>1. clock' = clock /\ Stamped(latest, "queueArrival") /\ rpc = "offer"
    BY <1>3 DEF Enqueue, worldVars
  <2> QED BY <1>0, <2>1, OfferedIsNew
<1>4. Len(line) > 0 => JobAt(1) \in Jobs /\ outcome[JobAt(1)] = "none"
  BY StampedJobs DEF WaitInv, OutcomeInv
<1>5. ASSUME NEW p \in Printers, Dequeue(p)
      PROVE  clock' = clock /\ \E j \in Jobs, t \in Stamps : outcome[j] = "none" /\ Stamped(j, t)
  <2>1. clock' = clock /\ Stamped(JobAt(1), "queueDeparture") /\ Len(line) > 0
    BY <1>5, PopLeftData DEF Dequeue, worldVars, QueueInv, JobAt
  <2> QED BY <1>0, <1>4, <2>1
<1>6. ASSUME NEW p \in Printers, BeginService(p) \/ EndService(p)
      PROVE  clock' = clock /\ \E j \in Jobs, t \in Stamps : outcome[j] = "none" /\ Stamped(j, t)
  <2>1. clock' = clock /\ ppc[p] \in {"holding", "printing"}
        /\ (Stamped(JobOf(p), "serviceArrival") \/ Stamped(JobOf(p), "serviceDeparture"))
    BY <1>6 DEF BeginService, EndService, PrinterAt, worldVars
  <2> QED BY <1>0, <2>1
<1>7. CASE DrainOne
  <2>1. clock' = clock /\ Stamped(JobAt(1), "queueDeparture") /\ Len(line) > 0
    BY <1>7, ClearOneData DEF DrainOne, worldVars, QueueInv, JobAt
  <2> QED BY <1>0, <1>4, <2>1
<1> QED BY <1>1, <1>2, <1>3, <1>5, <1>6, <1>7 DEF Next

\* The statistics are a record of counts and times, and no time is in the future.
THEOREM StatsInvariant == Spec => []StatsType
<1>1. Init => StatsType
  <2> SUFFICES ASSUME Init PROVE StatsType
    OBVIOUS
  <2>1. NumPrinters \in Nat /\ MaxTime \in Nat
    BY StatisticsAssumption
  <2>2. stats \in StatRecords
    BY <2>1 DEF Init, StatRecords
  <2> QED BY <2>1, <2>2 DEF Init, StatsType
<1>2. QueueInv /\ QueueInv' /\ WaitInv /\ AreaInv /\ StatsType /\ [Next]_vars => StatsType'
  <2> SUFFICES ASSUME QueueInv, QueueInv', WaitInv, AreaInv, StatsType, [Next]_vars
               PROVE  StatsType'
    OBVIOUS
  <2>0. TimesOK /\ lastInteraction \in Nat
    BY DEF AreaInv, TimesOK
  <2>1. stats' \in StatRecords
    <3>1. CASE Arrive
      BY <3>1, ArriveCounts
    <3>2. CASE Drop
      BY <3>2, DropCounts
    <3>3. CASE Enqueue
      BY <2>0, <3>3, EnqueueCounts
    <3>4. ASSUME NEW p \in Printers, Dequeue(p) PROVE stats' \in StatRecords
      BY <2>0, <3>4, DequeueCounts
    <3>5. ASSUME NEW p \in Printers, Depart(p) PROVE stats' \in StatRecords
      <4>1. JobOf(p) \in Jobs
        <5>1. elem[p] # NoNode
          BY <3>5 DEF Depart, PrinterAt, WaitInv, HoldInv
        <5> QED BY <5>1, StampedJobs
      <4>2. PICK t \in [Stamps -> Nat] : t = stamp[JobOf(p)]
        BY <4>1 DEF StatsType
      <4> QED BY <3>5, <4>2, DepartCounts
    <3>6. CASE Tick \/ CheckTermination \/ StopReceiving \/ Stop \/ DrainOne \/ Drained \/ End
               \/ Reported
               \/ UNCHANGED vars \/ \E p \in Printers : BeginService(p) \/ EndService(p)
      BY <3>6, OthersCount
    <3> QED BY <3>1, <3>2, <3>3, <3>4, <3>5, <3>6 DEF Next
  <2>2. /\ clock' \in 0..MaxTime /\ stamp' \in [Jobs -> [Stamps -> Nat]]
        /\ \A j \in Jobs : \A t \in Stamps : stamp'[j][t] <= clock'
    <3>1. /\ clock \in Nat /\ clock <= MaxTime /\ MaxTime \in Nat
          /\ stamp \in [Jobs -> [Stamps -> Nat]]
          /\ \A j \in Jobs : \A t \in Stamps : stamp[j][t] <= clock
      BY StatisticsAssumption DEF StatsType
    <3>2. CASE stamp' = stamp /\ (clock' = clock \/ (clock < MaxTime /\ clock' = clock + 1))
      <4>1. clock' \in 0..MaxTime /\ clock <= clock'
        BY <3>1, <3>2
      <4>2. ASSUME NEW j \in Jobs, NEW t \in Stamps PROVE stamp'[j][t] <= clock'
        <5>1. stamp'[j][t] = stamp[j][t] /\ stamp[j][t] \in Nat /\ stamp[j][t] <= clock
          BY <3>1, <3>2
        <5> QED BY <3>1, <4>1, <5>1
      <4> QED BY <3>1, <3>2, <4>1, <4>2
    <3>3. ASSUME clock' = clock, NEW j \in Jobs, NEW t \in Stamps, Stamped(j, t)
          PROVE  /\ clock' \in 0..MaxTime /\ stamp' \in [Jobs -> [Stamps -> Nat]]
                 /\ \A k \in Jobs : \A u \in Stamps : stamp'[k][u] <= clock'
      <4>1. /\ stamp' \in [Jobs -> [Stamps -> Nat]]
            /\ \A k \in Jobs : \A u \in Stamps :
                 stamp'[k][u] = IF k = j /\ u = t THEN clock ELSE stamp[k][u]
        BY <2>0, <3>3, StampStep
      <4> QED BY <3>1, <3>3, <4>1
    <3> QED BY <3>2, <3>3, StampOrNot
  <2>3. previous' \in Nat
    <3>1. CASE Drop \/ Enqueue
      <4>1. previous' = stamp[latest].systemArrival /\ rpc = "offer"
        BY <3>1 DEF Drop, Enqueue
      <4>2. latest \in Jobs
        BY <4>1, StampedJobs
      <4> QED BY <4>1, <4>2 DEF StatsType, Stamps
    <3>2. CASE Arrive \/ \E p \in Printers : Dequeue(p) \/ Depart(p)
      BY <3>2 DEF Arrive, Dequeue, Depart, receiverVars, StatsType
    <3>3. CASE Tick \/ CheckTermination \/ StopReceiving \/ Stop \/ DrainOne \/ Drained \/ End
               \/ Reported
               \/ UNCHANGED vars \/ \E p \in Printers : BeginService(p) \/ EndService(p)
      BY <3>3, OthersCount DEF StatsType
    <3> QED BY <3>1, <3>2, <3>3 DEF Next
  <2>4. mpc' \in {"join", "report"} /\ spc' \in {"sigwait", "drain", "done"}
    BY DEF StatsType, Next, vars, Tick, CheckTermination, Arrive, StopReceiving, Drop, Enqueue,
        Dequeue, BeginService,
           EndService, Depart, Stop, DrainOne, Drained, End, Reported
  <2> QED BY <2>1, <2>2, <2>3, <2>4 DEF StatsType
<1> QED BY <1>1, <1>2, QueueInvariant, WaitInvariant, AreaInvariant, PTL DEF Spec

\* The receiver's counts are those of the jobs it passed, and its gaps add up to
\* the arrival of the last.
ArrivalsInv ==
  /\ stats.arrived = latest
  /\ stats.dropped + (IF rpc = "offer" THEN 1 ELSE 0) <= stats.arrived
  /\ stats.interArrival = IF latest = 0 THEN 0 ELSE stamp[latest]["systemArrival"]
  /\ rpc # "offer" => previous = stats.interArrival

\* The times of arrival of the jobs that came do not change.
LEMMA ArrivalTimesStay ==
  ASSUME QueueInv, WaitInv, AreaInv, [Next]_vars, ~Arrive
  PROVE  \A j \in Jobs : stamp'[j]["systemArrival"] = stamp[j]["systemArrival"]
<1>0. stamp \in [Jobs -> [Stamps -> Nat]] /\ TimesOK
      /\ \A p \in Printers : ppc[p] \in {"holding", "printing"} => JobOf(p) \in Jobs
  <2>1. \A p \in Printers : ppc[p] \in {"holding", "printing"} => elem[p] # NoNode
    BY DEF WaitInv, HoldInv
  <2> QED BY <2>1, StampedJobs DEF AreaInv, TimesOK
<1>1. ASSUME NEW j \in Jobs,
             NEW t \in {"queueArrival", "queueDeparture", "serviceArrival", "serviceDeparture"},
             Stamped(j, t)
      PROVE  \A k \in Jobs : stamp'[k]["systemArrival"] = stamp[k]["systemArrival"]
  <2>1. t \in Stamps /\ "systemArrival" \in Stamps /\ t # "systemArrival"
    BY DEF Stamps
  <2> QED BY <1>0, <1>1, <2>1, StampStep
<1>2. CASE stamp' = stamp
  BY <1>2
<1>3. CASE Enqueue
  <2>1. Stamped(latest, "queueArrival") /\ latest \in Jobs
    BY <1>3, StampedJobs DEF Enqueue
  <2> QED BY <1>1, <2>1
<1>4. ASSUME NEW p \in Printers, Dequeue(p)
      PROVE  \A j \in Jobs : stamp'[j]["systemArrival"] = stamp[j]["systemArrival"]
  <2>1. Stamped(JobAt(1), "queueDeparture") /\ JobAt(1) \in Jobs
    BY <1>4, PopLeftData, StampedJobs DEF Dequeue, QueueInv, JobAt
  <2> QED BY <1>1, <2>1
<1>5. ASSUME NEW p \in Printers, BeginService(p) \/ EndService(p)
      PROVE  \A j \in Jobs : stamp'[j]["systemArrival"] = stamp[j]["systemArrival"]
  <2>1. /\ JobOf(p) \in Jobs
        /\ Stamped(JobOf(p), "serviceArrival") \/ Stamped(JobOf(p), "serviceDeparture")
    BY <1>0, <1>5 DEF BeginService, EndService, PrinterAt
  <2> QED BY <1>1, <2>1
<1>6. CASE DrainOne
  <2>1. Stamped(JobAt(1), "queueDeparture") /\ JobAt(1) \in Jobs
    BY <1>6, ClearOneData, StampedJobs DEF DrainOne, QueueInv, JobAt
  <2> QED BY <1>1, <2>1
<1>7. CASE Tick \/ CheckTermination \/ StopReceiving \/ Drop \/ Stop \/ Drained \/ End
           \/ Reported \/ UNCHANGED vars
           \/ \E p \in Printers : Depart(p)
  <2>1. stamp' = stamp
    BY <1>7 DEF Tick, CheckTermination, StopReceiving, Drop, Stop, Drained, End, Reported,
        Depart, vars
  <2> QED BY <1>2, <2>1
<1> QED BY <1>3, <1>4, <1>5, <1>6, <1>7 DEF Next

\* The receiver counts each arrival and each dropped job once, and remembers
\* when the last one came (job_receiver.c:118-151, console_handler.c:96-109).
THEOREM ArrivalsInvariant == Spec => []ArrivalsInv
<1>1. Init => ArrivalsInv
  BY DEF Init, ArrivalsInv
<1>2. QueueInv /\ QueueInv' /\ WaitInv /\ AreaInv /\ StatsType /\ ArrivalsInv /\ [Next]_vars
        => ArrivalsInv'
  <2> SUFFICES ASSUME QueueInv, QueueInv', WaitInv, AreaInv, StatsType, ArrivalsInv, [Next]_vars
               PROVE  ArrivalsInv'
    OBVIOUS
  <2>0. /\ latest \in 0..NumJobs /\ NumJobs \in Nat /\ Jobs = 1..NumJobs /\ clock \in Nat
        /\ lastInteraction \in Nat /\ stats.arrived \in Nat /\ stats.dropped \in Nat
        /\ stats.interArrival \in Int /\ previous \in Nat
    BY StatisticsAssumption
    DEF QueueInv, ReceiverInv, Jobs, StatsType, StatRecords, AreaInv, TimesOK
  <2>1. CASE Arrive
    <3>1. /\ rpc = "arrive" /\ rpc' = "offer" /\ latest' = latest + 1 /\ latest < NumJobs
          /\ Stamped(latest + 1, "systemArrival")
      BY <2>1 DEF Arrive, QueueInv, ReceiverInv
    <3>2. stamp'[latest + 1]["systemArrival"] = clock
      <4>1. latest + 1 \in Jobs /\ "systemArrival" \in Stamps
        BY <2>0, <3>1 DEF Stamps
      <4> QED BY <3>1, <4>1, StampStep DEF AreaInv
    <3>3. stats'.interArrival = clock
      <4>1. stats'.interArrival = stats.interArrival + (clock - stats.interArrival)
        BY <2>1, <3>1, ArriveCounts DEF ArrivalsInv
      <4> QED BY <2>0, <4>1
    <3>4. stats'.arrived = stats.arrived + 1 /\ stats'.dropped = stats.dropped
      BY <2>1, ArriveCounts
    <3> QED BY <2>0, <3>1, <3>2, <3>3, <3>4 DEF ArrivalsInv
  <2>2. CASE Drop
    <3>1. /\ rpc = "offer" /\ rpc' = "sleep" /\ latest' = latest /\ stamp' = stamp
          /\ previous' = stamp[latest]["systemArrival"]
      BY <2>2 DEF Drop
    <3>2. latest # 0
      BY <2>0, <3>1, StampedJobs
    <3>3. stats'.arrived = stats.arrived /\ stats'.dropped = stats.dropped + 1
          /\ stats'.interArrival = stats.interArrival
      BY <2>2, DropCounts
    <3> QED BY <2>0, <3>1, <3>2, <3>3 DEF ArrivalsInv
  <2>3. CASE Enqueue
    <3>1. /\ rpc = "offer" /\ rpc' = "sleep" /\ latest' = latest
          /\ previous' = stamp[latest]["systemArrival"]
      BY <2>3 DEF Enqueue
    <3>2. latest \in Jobs /\ latest # 0
      BY <2>0, <3>1, StampedJobs
    <3>3. stamp'[latest]["systemArrival"] = stamp[latest]["systemArrival"]
      <4>1. ~Arrive
        BY <3>1 DEF Arrive
      <4> QED BY <3>2, <4>1, ArrivalTimesStay
    <3>4. SameArrived
      BY <2>0, <2>3, EnqueueCounts
    <3> QED BY <2>0, <3>1, <3>2, <3>3, <3>4 DEF ArrivalsInv, SameArrived
  <2>4. ASSUME ~Arrive, SameArrived, latest' = latest, previous' = previous,
               rpc' = rpc \/ (rpc = "sleep" /\ rpc' \in {"arrive", "done"})
        PROVE  ArrivalsInv'
    <3>1. latest # 0 => stamp'[latest]["systemArrival"] = stamp[latest]["systemArrival"]
      BY <2>0, <2>4, ArrivalTimesStay
    <3> QED BY <2>0, <2>4, <3>1 DEF ArrivalsInv, SameArrived
  <2>5. ASSUME NEW p \in Printers, Dequeue(p) \/ Depart(p)
        PROVE  ArrivalsInv'
    <3>1. UNCHANGED <<rpc, latest, previous>>
      BY <2>5 DEF Dequeue, Depart, receiverVars
    <3>2. SameArrived
      <4>1. CASE Dequeue(p)
        BY <2>0, <4>1, DequeueCounts
      <4>2. CASE Depart(p)
        <5>1. elem[p] # NoNode
          BY <4>2 DEF Depart, PrinterAt, WaitInv, HoldInv
        <5>2. PICK t \in [Stamps -> Nat] : t = stamp[JobOf(p)]
          BY <5>1, StampedJobs DEF StatsType
        <5> QED BY <4>2, <5>2, DepartCounts
      <4> QED BY <2>5, <4>1, <4>2
    <3>3. ~Arrive
      BY <2>0, <3>1 DEF Arrive
    <3> QED BY <2>4, <3>1, <3>2, <3>3
  <2>6. CASE Tick \/ CheckTermination \/ StopReceiving \/ Stop \/ DrainOne \/ Drained \/ End
             \/ Reported
               \/ UNCHANGED vars \/ \E p \in Printers : BeginService(p) \/ EndService(p)
    <3>1. SameArrived /\ latest' = latest /\ previous' = previous
      BY <2>6, OthersCount
    <3>2. rpc' = rpc \/ (rpc = "sleep" /\ rpc' \in {"arrive", "done"})
      BY <2>6 DEF Tick, CheckTermination, StopReceiving, Stop, DrainOne, Drained, End, Reported,
          vars, receiverVars,
                  BeginService, EndService
    <3>3. ~Arrive
      BY <2>0, <3>1 DEF Arrive
    <3> QED BY <2>4, <3>1, <3>2, <3>3
  <2> QED BY <2>1, <2>2, <2>3, <2>5, <2>6 DEF Next
<1> QED BY <1>1, <1>2, QueueInvariant, WaitInvariant, AreaInvariant, StatsInvariant, PTL DEF Spec

\* Nothing happens after the report; jobs are removed by a stop only.
EndInv ==
  /\ spc = "sigwait" => Cleared = {}
  /\ mpc = "report" => EveryoneJoined /\ stats.duration = clock

\* Main reports when everyone is joined, with the time of that moment
\* (cli.c:165-194).
THEOREM EndInvariant == Spec => []EndInv
<1>1. Init => EndInv
  BY DEF Init, EndInv, Cleared
<1>2. QueueInv /\ WaitInv /\ StatsType /\ EndInv /\ [Next]_vars => EndInv'
  <2> SUFFICES ASSUME QueueInv, WaitInv, StatsType, EndInv, [Next]_vars
               PROVE  EndInv'
    OBVIOUS
  <2>1. CASE mpc = "report"
    <3>1. EveryoneJoined
      BY <2>1 DEF EndInv
    <3>2. UNCHANGED vars
      BY <2>1, <3>1
      DEF EveryoneJoined, Next, Tick, CheckTermination, Arrive, StopReceiving, Drop, Enqueue,
          Dequeue, PrinterAt,
          BeginService, EndService, Depart, Stop, DrainOne, Drained, End, Reported
    <3> QED BY <3>2
        DEF EndInv, Cleared, EveryoneJoined, vars, worldVars, queueVars, listVars, receiverVars,
            printerVars, list_is_empty
  <2>2. CASE mpc # "report"
    <3>1. CASE End
      <4>1. EveryoneJoined' /\ spc' = spc /\ outcome' = outcome
        BY <3>1 DEF End, EveryoneJoined, receiverVars, printerVars, queueVars, listVars,
                    list_is_empty
      <4>2. stats'.duration = clock'
        BY <3>1 DEF End, worldVars, StatsType, StatRecords
      <4> QED BY <4>1, <4>2 DEF EndInv, Cleared
    <3>2. CASE ~End
      <4>1. mpc' # "report"
        BY <2>2, <3>2
        DEF Next, vars, Tick, CheckTermination, Arrive, StopReceiving, Drop, Enqueue, Dequeue,
            BeginService,
            EndService, Depart, Stop, DrainOne, Drained, Reported
      <4>2. spc' = "sigwait" => spc = "sigwait"
        BY DEF Next, vars, Tick, CheckTermination, Arrive, StopReceiving, Drop, Enqueue, Dequeue,
            BeginService,
               EndService, Depart, Stop, DrainOne, Drained, End, Reported
      <4>3. spc = "sigwait" => Cleared' = Cleared
        <5> SUFFICES ASSUME spc = "sigwait" PROVE Cleared' = Cleared
          OBVIOUS
        <5>1. \/ outcome' = outcome
              \/ outcome' = [outcome EXCEPT ![latest] = "dropped"] /\ rpc = "offer"
              \/ \E p \in Printers : /\ outcome' = [outcome EXCEPT ![JobOf(p)] = "served"]
                                     /\ elem[p] # NoNode
          BY DEF Next, vars, Tick, CheckTermination, Arrive, StopReceiving, Drop, Enqueue,
              Dequeue, BeginService,
                 EndService, Depart, PrinterAt, Stop, DrainOne, Drained, End, Reported, WaitInv,
                 HoldInv
        <5>2. outcome \in [Jobs -> {"none", "served", "dropped", "removed"}]
          BY DEF WaitInv, OutcomeInv
        <5>3. rpc = "offer" => outcome[latest] = "none"
          BY OfferedIsNew
        <5>4. \A p \in Printers : elem[p] # NoNode => outcome[JobOf(p)] = "none"
          BY DEF WaitInv, OutcomeInv, InHands
        <5> QED BY <5>1, <5>2, <5>3, <5>4 DEF Cleared
      <4> QED BY <4>1, <4>2, <4>3 DEF EndInv
    <3> QED BY <3>1, <3>2
  <2> QED BY <2>1, <2>2
<1> QED BY <1>1, <1>2, QueueInvariant, WaitInvariant, StatsInvariant, PTL DEF Spec

\* The order of the times t of a job at a printer that has been busy for so long.
Ordered(t, at, busy) ==
  /\ t["systemArrival"] <= t["queueArrival"] /\ t["queueArrival"] <= t["queueDeparture"]
  /\ at \in {"printing", "printed"} =>
       t["queueDeparture"] <= t["serviceArrival"] /\ busy <= t["serviceArrival"]
  /\ at = "printed" => t["serviceArrival"] <= t["serviceDeparture"]

\* Jobs pass the points in order, and a printer prints one at a time.
CourseInv ==
  /\ \A j \in InLine : stamp[j]["systemArrival"] <= stamp[j]["queueArrival"]
  /\ \A p \in Printers : stats.serviceTime[p] \in 0..clock
  /\ \A p \in Printers :
       ppc[p] # "ready" => Ordered(stamp[JobOf(p)], ppc[p], stats.serviceTime[p])

\* Steps that stamp no job that is queued or printed.
LEMMA CourseStays ==
  ASSUME QueueInv, WaitInv, StatsType, CourseInv, StatsType', ppc' = ppc,
         clock' = clock \/ clock' = clock + 1,
         InLine' \subseteq InLine, stats'.serviceTime = stats.serviceTime,
         \A p \in Printers : elem[p] # NoNode => JobOf(p)' = JobOf(p),
         \A j \in InLine' \cup LeftQueue : stamp'[j] = stamp[j]
  PROVE  CourseInv'
<1>1. \A j \in InLine' : stamp'[j]["systemArrival"] <= stamp'[j]["queueArrival"]
  BY DEF CourseInv
<1>2. \A p \in Printers : stats'.serviceTime[p] \in 0..clock'
  <2>1. clock \in Nat /\ stats.serviceTime \in [Printers -> Int]
    BY DEF StatsType, StatRecords
  <2> QED BY <2>1 DEF CourseInv
<1>3. \A p \in Printers : ppc[p] # "ready" => stamp'[JobOf(p)'] = stamp[JobOf(p)]
  <2> TAKE p \in Printers
  <2> SUFFICES ASSUME ppc[p] # "ready" PROVE stamp'[JobOf(p)'] = stamp[JobOf(p)]
    OBVIOUS
  <2>1. elem[p] # NoNode
    BY DEF WaitInv, HoldInv
  <2>2. JobOf(p)' = JobOf(p) /\ JobOf(p) \in LeftQueue
    BY <2>1, StampedJobs
  <2> QED BY <2>2
<1>4. \A p \in Printers :
        ppc'[p] # "ready" => Ordered(stamp'[JobOf(p)'], ppc'[p], stats'.serviceTime[p])
  BY <1>3 DEF CourseInv
<1> QED BY <1>1, <1>2, <1>4 DEF CourseInv

\* A job that is stamped has the other times it had, the other jobs all of theirs.
LEMMA StampKeeps ==
  ASSUME StatsType, NEW j \in Jobs, NEW t \in Stamps, Stamped(j, t)
  PROVE  /\ \A k \in Jobs : k # j => stamp'[k] = stamp[k]
         /\ stamp'[j][t] = clock
         /\ \A u \in Stamps : u # t => stamp'[j][u] = stamp[j][u]
<1>1. stamp \in [Jobs -> [Stamps -> Nat]] /\ clock \in Nat
  BY DEF StatsType
<1>2. stamp' = [stamp EXCEPT ![j] = [stamp[j] EXCEPT ![t] = clock]]
  BY DEF Stamped
<1> QED BY <1>1, <1>2

\* A step of one printer that stamps the job it holds.
LEMMA CoursePrints ==
  ASSUME QueueInv, WaitInv, StatsType, CourseInv, StatsType', NEW p \in Printers,
         BeginService(p) \/ EndService(p)
  PROVE  CourseInv'
<1>1. /\ UNCHANGED <<list, line, elem, stats, clock>> /\ ppc[p] # "ready"
      /\ \A q \in Printers : q # p => ppc'[q] = ppc[q]
  BY DEF BeginService, EndService, PrinterAt, queueVars, listVars, worldVars, WaitInv, HoldInv
<1>2. PICK t \in {"serviceArrival", "serviceDeparture"} :
        /\ Stamped(JobOf(p), t)
        /\ \/ t = "serviceArrival" /\ ppc[p] = "holding" /\ ppc'[p] = "printing"
           \/ t = "serviceDeparture" /\ ppc[p] = "printing" /\ ppc'[p] = "printed"
  <2>1. BeginService(p) => /\ Stamped(JobOf(p), "serviceArrival")
                           /\ ppc[p] = "holding" /\ ppc'[p] = "printing"
    BY DEF BeginService, PrinterAt, WaitInv, HoldInv
  <2>2. EndService(p) => /\ Stamped(JobOf(p), "serviceDeparture")
                         /\ ppc[p] = "printing" /\ ppc'[p] = "printed"
    BY DEF EndService, PrinterAt, WaitInv, HoldInv
  <2> QED BY <2>1, <2>2
<1>3. /\ t \in Stamps /\ elem[p] # NoNode /\ JobOf(p) \in Jobs
      /\ {"systemArrival", "queueArrival", "queueDeparture", "serviceArrival", "serviceDeparture"}
           \subseteq Stamps
  <2>1. elem[p] # NoNode
    BY <1>1 DEF WaitInv, HoldInv
  <2> QED BY <2>1, StampedJobs DEF Stamps
<1>4. /\ \A k \in Jobs : k # JobOf(p) => stamp'[k] = stamp[k]
      /\ stamp'[JobOf(p)][t] = clock
      /\ \A u \in Stamps : u # t => stamp'[JobOf(p)][u] = stamp[JobOf(p)][u]
  BY <1>2, <1>3, StampKeeps
<1>5. InLine' = InLine /\ \A q \in Printers : JobOf(q)' = JobOf(q)
  BY <1>1 DEF InLine, JobAt, JobOf
<1>6. \A j \in InLine' : stamp'[j]["systemArrival"] <= stamp'[j]["queueArrival"]
  <2>1. \A j \in InLine : j \in Jobs /\ j # JobOf(p)
    BY <1>3, Known, StampedJobs
  <2> QED BY <1>4, <1>5, <2>1 DEF CourseInv
<1>7. ASSUME NEW q \in Printers, ppc'[q] # "ready"
      PROVE  Ordered(stamp'[JobOf(q)'], ppc'[q], stats'.serviceTime[q])
  <2>1. CASE q # p
    <3>1. ppc[q] # "ready" /\ ppc'[q] = ppc[q]
      BY <1>1, <1>7, <2>1
    <3>2. elem[q] # NoNode
      BY <3>1 DEF WaitInv, HoldInv
    <3>3. JobOf(q) # JobOf(p) /\ JobOf(q) \in Jobs
      BY <1>3, <2>1, <3>2, StampedJobs DEF WaitInv, HoldInv
    <3> QED BY <1>1, <1>4, <1>5, <3>1, <3>3 DEF CourseInv
  <2>2. CASE q = p
    <3> DEFINE s == stamp[JobOf(p)]
               r == stamp'[JobOf(p)]
               busy == stats.serviceTime[p]
    <3>1. s \in [Stamps -> Nat] /\ clock \in Nat /\ busy \in 0..clock /\ stats'.serviceTime[p] = busy
          /\ \A u \in Stamps : s[u] <= clock
      BY <1>1, <1>3 DEF StatsType, CourseInv
    <3>2. Ordered(s, ppc[p], busy)
      BY <1>1 DEF CourseInv
    <3>3. \A u \in Stamps : r[u] = IF u = t THEN clock ELSE s[u]
      BY <1>3, <1>4
    <3> HIDE DEF s, r, busy
    <3>4. Ordered(r, ppc'[p], busy)
      BY <1>2, <1>3, <3>1, <3>2, <3>3 DEF Ordered
    <3> QED BY <1>5, <2>2, <3>1, <3>4 DEF r
  <2> QED BY <2>1, <2>2
<1>8. \A q \in Printers : stats'.serviceTime[q] \in 0..clock'
  BY <1>1 DEF CourseInv
<1> QED BY <1>6, <1>7, <1>8 DEF CourseInv

\* The receiver stamps a job that no printer holds and the queue did not have.
LEMMA CourseReceives ==
  ASSUME QueueInv, QueueInv', WaitInv, AreaInv, StatsType, CourseInv, StatsType', Arrive \/ Enqueue
  PROVE  CourseInv'
<1>0. {"systemArrival", "queueArrival"} \subseteq Stamps /\ lastInteraction \in Nat
  BY DEF Stamps, AreaInv, TimesOK
<1>1. CASE Arrive
  <2>1. /\ UNCHANGED <<list, line, elem, ppc, clock>> /\ latest < NumJobs
        /\ Stamped(latest + 1, "systemArrival")
    BY <1>1 DEF Arrive, queueVars, listVars, printerVars, worldVars, QueueInv, ReceiverInv
  <2>2. latest + 1 \in Jobs /\ latest \in Int
    BY <2>1, StatisticsAssumption DEF QueueInv, ReceiverInv, Jobs
  <2>3. \A j \in InLine \cup LeftQueue : j \in Jobs /\ j # latest + 1
    <3>1. \A j \in Jobs : outcome[j] # "none" => Entered(j)
      BY DEF WaitInv, OutcomeInv
    <3>2. \A j \in InLine \cup LeftQueue : Entered(j)
      BY <3>1 DEF WaitInv, OutcomeInv, LeftQueue
    <3> QED BY <2>2, <3>2, Known DEF Entered
  <2>4. \A j \in InLine \cup LeftQueue : stamp'[j] = stamp[j]
    BY <1>0, <2>1, <2>2, <2>3, StampKeeps
  <2>5. stats'.serviceTime = stats.serviceTime
    BY <1>1, ArriveCounts DEF SameServed
  <2>6. InLine' = InLine /\ \A p \in Printers : JobOf(p)' = JobOf(p)
    BY <2>1 DEF InLine, JobAt, JobOf
  <2> QED BY <2>1, <2>4, <2>5, <2>6, CourseStays
<1>2. CASE Enqueue
  <2>1. /\ UNCHANGED <<elem, ppc, clock>> /\ rpc = "offer" /\ Stamped(latest, "queueArrival")
    BY <1>2 DEF Enqueue, printerVars, worldVars
  <2>2. latest \in Jobs /\ latest \notin InLine /\ latest \notin LeftQueue
    BY <2>1, OfferedIsNew
  <2>3. /\ InLine' = InLine \cup {latest} /\ InLine \subseteq Jobs
        /\ \A p \in Printers : elem[p] # NoNode => JobOf(p)' = JobOf(p)
    BY <1>2, EnqueueKeepsWaiting, Known
  <2>4. /\ \A k \in Jobs : k # latest => stamp'[k] = stamp[k]
        /\ stamp'[latest]["queueArrival"] = clock
        /\ stamp'[latest]["systemArrival"] = stamp[latest]["systemArrival"]
    BY <1>0, <2>1, <2>2, StampKeeps
  <2>5. stats'.serviceTime = stats.serviceTime
    BY <1>0, <1>2, EnqueueCounts DEF SameServed
  <2>6. \A j \in InLine' : stamp'[j]["systemArrival"] <= stamp'[j]["queueArrival"]
    <3>1. stamp[latest]["systemArrival"] <= clock
      BY <1>0, <2>2 DEF StatsType
    <3>2. \A j \in InLine : stamp'[j]["systemArrival"] <= stamp'[j]["queueArrival"]
      BY <2>2, <2>3, <2>4 DEF CourseInv
    <3> QED BY <2>3, <2>4, <3>1, <3>2
  <2>7. ASSUME NEW p \in Printers, ppc[p] # "ready"
        PROVE  stamp'[JobOf(p)'] = stamp[JobOf(p)]
    <3>1. elem[p] # NoNode
      BY <2>7 DEF WaitInv, HoldInv
    <3>2. JobOf(p) \in Jobs /\ JobOf(p) # latest /\ JobOf(p)' = JobOf(p)
      BY <2>2, <2>3, <3>1, StampedJobs
    <3> QED BY <2>4, <3>2
  <2> QED BY <2>1, <2>5, <2>6, <2>7 DEF CourseInv
<1> QED BY <1>1, <1>2

\* The first job of the queue goes to a printer.
LEMMA CourseDequeues ==
  ASSUME QueueInv, QueueInv', WaitInv, AreaInv, StatsType, CourseInv, StatsType',
         NEW p \in Printers, Dequeue(p)
  PROVE  CourseInv'
<1> DEFINE first == JobAt(1)
<1>0. {"systemArrival", "queueArrival", "queueDeparture"} \subseteq Stamps /\ lastInteraction \in Nat
  BY DEF Stamps, AreaInv, TimesOK
<1>1. /\ Stamped(first, "queueDeparture") /\ clock' = clock
      /\ ppc' = [ppc EXCEPT ![p] = "holding"]
  BY PopLeftData DEF Dequeue, PrinterAt, worldVars, QueueInv, JobAt
<1>2. /\ first \in InLine /\ InLine' = InLine \ {first}
      /\ \A q \in Printers : JobOf(q)' = IF q = p THEN first ELSE JobOf(q)
  BY DequeueKeepsWaiting
<1> HIDE DEF first
<1>3. first \in Jobs /\ InLine \subseteq Jobs /\ first \notin LeftQueue
  BY <1>2, Known
<1>4. /\ \A k \in Jobs : k # first => stamp'[k] = stamp[k]
      /\ stamp'[first]["queueDeparture"] = clock
      /\ \A u \in Stamps : u # "queueDeparture" => stamp'[first][u] = stamp[first][u]
  BY <1>0, <1>1, <1>3, StampKeeps
<1>5. stats'.serviceTime = stats.serviceTime
  BY <1>0, DequeueCounts DEF SameServed
<1>6. \A j \in InLine' : stamp'[j]["systemArrival"] <= stamp'[j]["queueArrival"]
  BY <1>2, <1>3, <1>4 DEF CourseInv
<1>7. /\ ppc'[p] = "holding" /\ \A q \in Printers : q # p => ppc'[q] = ppc[q]
  BY <1>1 DEF WaitInv, HoldInv
<1>8. ASSUME NEW q \in Printers, ppc'[q] # "ready"
      PROVE  Ordered(stamp'[JobOf(q)'], ppc'[q], stats'.serviceTime[q])
  <2>1. CASE q = p
    <3>1. JobOf(q)' = first /\ ppc'[q] = "holding"
      BY <1>2, <1>7, <2>1
    <3>2. stamp[first]["systemArrival"] <= stamp[first]["queueArrival"]
      BY <1>2 DEF CourseInv
    <3>3. stamp[first]["queueArrival"] <= clock
      BY <1>0, <1>3 DEF StatsType
    <3> QED BY <1>0, <1>4, <3>1, <3>2, <3>3 DEF Ordered
  <2>2. CASE q # p
    <3>1. ppc[q] # "ready" /\ ppc'[q] = ppc[q]
      BY <1>7, <1>8, <2>2
    <3>2. elem[q] # NoNode
      BY <3>1 DEF WaitInv, HoldInv
    <3>3. JobOf(q)' = JobOf(q) /\ JobOf(q) # first /\ JobOf(q) \in Jobs
      BY <1>2, <1>3, <2>2, <3>2, StampedJobs
    <3> QED BY <1>4, <1>5, <3>1, <3>3 DEF CourseInv
  <2> QED BY <2>1, <2>2
<1>9. \A q \in Printers : stats'.serviceTime[q] \in 0..clock'
  BY <1>1, <1>5 DEF CourseInv
<1> QED BY <1>6, <1>8, <1>9 DEF CourseInv

\* The printer has been busy up to the departure of its job at most.
LEMMA CourseDeparts ==
  ASSUME QueueInv, WaitInv, StatsType, CourseInv, StatsType', NEW p \in Printers, Depart(p)
  PROVE  CourseInv'
<1>1. /\ clock' = clock /\ stamp' = stamp /\ ppc[p] = "printed" /\ ppc' = [ppc EXCEPT ![p] = "ready"]
      /\ elem' = [elem EXCEPT ![p] = NoNode]
  BY DEF Depart, PrinterAt, worldVars
<1>2. /\ InLine' = InLine /\ \A q \in Printers : elem'[q] # NoNode => JobOf(q)' = JobOf(q)
  BY DepartKeepsWaiting
<1>3. JobOf(p) \in Jobs
  <2>1. elem[p] # NoNode
    BY <1>1 DEF WaitInv, HoldInv
  <2> QED BY <2>1, StampedJobs
<1>4. PICK t \in [Stamps -> Nat] : t = stamp[JobOf(p)]
  BY <1>3 DEF StatsType
<1>5. stats'.serviceTime = [stats.serviceTime EXCEPT ![p] = stats.serviceTime[p]
                              + (t["serviceDeparture"] - t["serviceArrival"])]
  BY <1>4, DepartCounts
<1>6. /\ stats.serviceTime \in [Printers -> Int]
      /\ \A q \in Printers : stats.serviceTime[q] \in 0..clock /\ clock \in Nat
  BY DEF StatsType, StatRecords, CourseInv
<1>7. stats.serviceTime[p] + (t["serviceDeparture"] - t["serviceArrival"]) \in 0..clock
  <2>1. Ordered(t, "printed", stats.serviceTime[p])
    BY <1>1, <1>4 DEF CourseInv
  <2>2. /\ t["serviceDeparture"] \in Nat /\ t["serviceArrival"] \in Nat
        /\ t["serviceDeparture"] <= clock
    BY <1>3, <1>4 DEF Stamps, StatsType
  <2>3. t["serviceArrival"] <= t["serviceDeparture"] /\ stats.serviceTime[p] <= t["serviceArrival"]
    BY <2>1 DEF Ordered
  <2> QED BY <1>6, <2>2, <2>3
<1>8. \A q \in Printers : stats'.serviceTime[q] \in 0..clock'
  BY <1>1, <1>5, <1>6, <1>7
<1>9. ASSUME NEW q \in Printers, ppc'[q] # "ready"
      PROVE  Ordered(stamp'[JobOf(q)'], ppc'[q], stats'.serviceTime[q])
  <2>1. q # p /\ ppc'[q] = ppc[q] /\ ppc[q] # "ready" /\ elem'[q] = elem[q]
    BY <1>1, <1>9 DEF WaitInv, HoldInv
  <2>2. elem[q] # NoNode /\ JobOf(q)' = JobOf(q)
    BY <1>2, <2>1 DEF WaitInv, HoldInv
  <2>3. stats'.serviceTime[q] = stats.serviceTime[q]
    BY <1>5, <1>6, <2>1
  <2> QED BY <1>1, <2>1, <2>2, <2>3 DEF CourseInv
<1>10. \A j \in InLine' : stamp'[j]["systemArrival"] <= stamp'[j]["queueArrival"]
  BY <1>1, <1>2 DEF CourseInv
<1> QED BY <1>8, <1>9, <1>10 DEF CourseInv

\* The catcher stamps a job that leaves the queue and goes to no printer.
LEMMA CourseDrains ==
  ASSUME QueueInv, WaitInv, StatsType, CourseInv, StatsType', DrainOne
  PROVE  CourseInv'
<1>1. Stamped(JobAt(1), "queueDeparture") /\ clock' = clock /\ ppc' = ppc
  BY ClearOneData DEF DrainOne, worldVars, printerVars, QueueInv, JobAt
<1>2. /\ JobAt(1) \in InLine /\ InLine' = InLine \ {JobAt(1)}
      /\ \A p \in Printers : elem[p] # NoNode => JobOf(p)' = JobOf(p)
  BY DrainKeepsWaiting
<1>3. JobAt(1) \in Jobs /\ JobAt(1) \notin LeftQueue /\ LeftQueue \subseteq Jobs /\ InLine \subseteq Jobs
      /\ "queueDeparture" \in Stamps
  BY <1>2, Known DEF Stamps
<1>4. \A j \in InLine' \cup LeftQueue : stamp'[j] = stamp[j]
  <2>1. \A k \in Jobs : k # JobAt(1) => stamp'[k] = stamp[k]
    BY <1>1, <1>3, StampKeeps
  <2> QED BY <1>2, <1>3, <2>1
<1>5. stats'.serviceTime = stats.serviceTime
  BY OthersCount DEF SameServed
<1> QED BY <1>1, <1>2, <1>4, <1>5, CourseStays

\* A job passes the points in order (job_receiver.h:21-25), and the time a printer has
\* printed is not longer than the run, whoever steps.
THEOREM CourseInvariant == Spec => []CourseInv
<1>1. Init => CourseInv
  <2> SUFFICES ASSUME Init PROVE CourseInv
    OBVIOUS
  <2>1. InLine = {}
    BY DEF Init, list_init, InLine
  <2>2. \A p \in Printers : stats.serviceTime[p] = 0 /\ clock = 0 /\ ppc[p] = "ready"
    BY DEF Init
  <2> QED BY <2>1, <2>2 DEF CourseInv
<1>2. /\ QueueInv /\ QueueInv' /\ WaitInv /\ AreaInv /\ StatsType /\ StatsType' /\ CourseInv
      /\ [Next]_vars
      => CourseInv'
  <2> SUFFICES ASSUME QueueInv, QueueInv', WaitInv, AreaInv, StatsType, StatsType', CourseInv,
                      [Next]_vars
               PROVE  CourseInv'
    OBVIOUS
  <2>1. CASE Arrive \/ Enqueue
    BY <2>1, CourseReceives
  <2>2. ASSUME NEW p \in Printers, Dequeue(p) PROVE CourseInv'
    BY <2>2, CourseDequeues
  <2>3. ASSUME NEW p \in Printers, BeginService(p) \/ EndService(p) PROVE CourseInv'
    BY <2>3, CoursePrints
  <2>4. ASSUME NEW p \in Printers, Depart(p) PROVE CourseInv'
    BY <2>4, CourseDeparts
  <2>5. CASE DrainOne
    BY <2>5, CourseDrains
  <2>6. CASE Tick \/ CheckTermination \/ StopReceiving \/ Drop \/ Stop \/ Drained \/ End
             \/ Reported \/ UNCHANGED vars
    <3>1. /\ UNCHANGED <<list, line, elem, ppc, stamp>>
          /\ clock' = clock \/ clock' = clock + 1
      BY <2>6 DEF Tick, CheckTermination, StopReceiving, Drop, Stop, Drained, End, Reported,
          vars, worldVars,
                  queueVars,
                  listVars, printerVars
    <3>2. stats'.serviceTime = stats.serviceTime
      BY <2>6, OthersCount, DropCounts DEF SameServed
    <3>3. InLine' = InLine /\ \A p \in Printers : JobOf(p)' = JobOf(p)
      BY <3>1 DEF InLine, JobAt, JobOf
    <3> QED BY <3>1, <3>2, <3>3, CourseStays
  <2> QED BY <2>1, <2>2, <2>3, <2>4, <2>5, <2>6 DEF Next
<1> QED BY <1>1, <1>2, QueueInvariant, WaitInvariant, AreaInvariant, StatsInvariant, PTL DEF Spec

\* The jobs that were served.
Served == {j \in Jobs : outcome[j] = "served"}

\* The sums over printers and over served jobs, and the bound of the area.
SumsInv ==
  /\ SumTo(stats.jobsServed, NumPrinters, Printers) = stats.served
  /\ \A p \in Printers : p > stats.printersUsed =>
       stats.jobsServed[p] = 0 /\ stats.serviceTime[p] = 0
  /\ stats.queueWait + SumTo(stats.serviceTime, NumPrinters, Printers) <= stats.systemTime
  /\ stats.queueWait = SumTo(InQueue, NumJobs, Served)
  /\ stats.area <= peak * lastInteraction

\* Only a departure makes a job one that was served, and their times stay.
LEMMA ServedStay ==
  ASSUME QueueInv, WaitInv, AreaInv, StatsType, [Next]_vars, \A p \in Printers : ~Depart(p)
  PROVE  Served' = Served /\ \A j \in Served : stamp'[j] = stamp[j]
<1>1. /\ outcome \in [Jobs -> {"none", "served", "dropped", "removed"}]
      /\ rpc = "offer" => outcome[latest] = "none"
      /\ Len(line) > 0 => outcome[JobAt(1)] = "none"
  BY OfferedIsNew, StampedJobs DEF WaitInv, OutcomeInv
<1>2. \/ outcome' = outcome
      \/ outcome' = [outcome EXCEPT ![latest] = "dropped"] /\ rpc = "offer"
      \/ outcome' = [outcome EXCEPT ![JobAt(1)] = "removed"] /\ Len(line) > 0
  <2>1. CASE DrainOne
    BY <2>1, ClearOneData DEF DrainOne, QueueInv, JobAt
  <2>2. CASE ~DrainOne
    BY <2>2 DEF Next, vars, Tick, CheckTermination, Arrive, StopReceiving, Drop, Enqueue,
        Dequeue, BeginService,
                EndService, Stop, Drained, End, Reported
  <2> QED BY <2>1, <2>2
<1>3. Served' = Served
  BY <1>1, <1>2 DEF Served
<1>4. ASSUME NEW j \in Served PROVE stamp'[j] = stamp[j]
  <2>1. j \in Jobs /\ outcome[j] # "none"
    BY DEF Served
  <2>2. ASSUME NEW k \in Jobs, NEW t \in Stamps, outcome[k] = "none", Stamped(k, t)
        PROVE  stamp'[j] = stamp[j]
    BY <2>1, <2>2, StampKeeps
  <2> QED BY <2>2, StampOrNot
<1> QED BY <1>3, <1>4

\* An area below a rectangle of height k stays below it when it grows by the
\* length of a queue that is no longer than k.
LEMMA AreaBound ==
  ASSUME NEW a \in Int, NEW k \in Nat, NEW n \in Nat, NEW l \in Nat, NEW c \in Nat,
         l <= c, n <= k, a <= k * l
  PROVE  a + (c - l) * n <= k * c
<1>1. PICK d \in Nat : c = l + d
  <2>1. c - l \in Nat /\ c = l + (c - l)
    OBVIOUS
  <2> QED BY <2>1
<1>2. d * n <= d * k
  OBVIOUS
<1>3. k * c = k * l + d * k
  BY <1>1
<1>4. c - l = d
  BY <1>1
<1>5. d * n \in Int /\ d * k \in Int /\ k * l \in Int
  OBVIOUS
<1> DEFINE x == d * n
           y == d * k
           z == k * l
<1>6. x <= y /\ x \in Int /\ y \in Int /\ z \in Int /\ a <= z
  BY <1>2, <1>5
<1> HIDE DEF x, y, z
<1>7. a + x <= z + y
  BY <1>6
<1> QED BY <1>3, <1>4, <1>7 DEF x, y, z

\* Steps that serve no job: the sums stay, and the area is below its bound.
LEMMA SumsStay ==
  ASSUME QueueInv, WaitInv, AreaInv, AreaInv', StatsType, [Next]_vars,
         \A p \in Printers : ~Depart(p), SumsInv, SameServed,
         stats'.area <= peak' * lastInteraction'
  PROVE  SumsInv'
<1>1. Served' = Served /\ \A j \in Served : stamp'[j] = stamp[j]
  BY ServedStay
<1>2. SumTo(InQueue', NumJobs, Served) = SumTo(InQueue, NumJobs, Served)
  <2>1. Served \in SUBSET Jobs
    BY DEF Served
  <2>2. TimesOK /\ TimesOK'
    BY DEF AreaInv
  <2> QED BY <1>1, <2>1, <2>2, InQueueStays
<1> QED BY <1>1, <1>2 DEF SumsInv, SameServed

\* The area does not outgrow the longest queue times the time it took.
LEMMA AreaStaysBelow ==
  ASSUME QueueInv, QueueInv', WaitInv, AreaInv, LongestInv, LongestInv', StatsType, SumsInv,
         [Next]_vars, \A p \in Printers : ~Depart(p)
  PROVE  SameServed /\ stats'.area <= peak' * lastInteraction'
<1>0. /\ clock \in Nat /\ lastInteraction \in Nat /\ lastInteraction <= clock
      /\ peak \in Nat /\ peak' \in Nat /\ Len(line) \in Nat /\ Len(line) <= peak
      /\ stats.area \in Int /\ stats.area <= peak * lastInteraction
  BY Elapsed DEF StatsType, StatRecords, LongestInv, SumsInv
<1>1. CASE Enqueue \/ \E p \in Printers : Dequeue(p)
  <2>1. SameServed /\ stats'.area = stats.area + (clock - lastInteraction) * Len(line)
    BY <1>0, <1>1, EnqueueCounts, DequeueCounts
  <2>2. lastInteraction' = clock
    BY <1>1 DEF Enqueue, Dequeue
  <2>3. peak <= peak'
    <3>1. CASE Enqueue
      <4>1. Len(line') \in Int
        BY DEF QueueInv, ListInv, ListType
      <4>2. PICK n \in Int : n = Len(line')
        BY <4>1
      <4>3. peak' = Max({peak, n})
        BY <3>1, <4>2 DEF Enqueue
      <4> QED BY <1>0, <4>3, MaxOfTwo
    <3>2. CASE \E p \in Printers : Dequeue(p)
      <4>1. peak' = peak
        BY <3>2 DEF Dequeue
      <4> QED BY <1>0, <4>1
    <3> QED BY <1>1, <3>1, <3>2
  <2>4. stats'.area <= peak * clock
    BY <1>0, <2>1, AreaBound
  <2>5. peak * clock <= peak' * clock
    <3>1. ASSUME NEW k \in Nat, NEW l \in Nat, NEW c \in Nat, k <= l PROVE k * c <= l * c
      <4>1. (l - k) * c >= 0 /\ (l - k) * c = l * c - k * c
        <5>1. PICK d \in Nat : l = k + d
          <6>1. l - k \in Nat /\ l = k + (l - k)
            BY <3>1
          <6> QED BY <6>1
        <5>2. l - k = d /\ d * c >= 0 /\ l * c = k * c + d * c
          BY <5>1
        <5>3. k * c \in Int /\ d * c \in Int
          OBVIOUS
        <5> QED BY <5>2, <5>3
      <4>2. l * c \in Int /\ k * c \in Int
        OBVIOUS
      <4> QED BY <4>1, <4>2
    <3> QED BY <1>0, <2>3, <3>1
  <2>6. /\ peak * clock \in Int /\ peak' * clock \in Int
        /\ (clock - lastInteraction) * Len(line) \in Int
    BY <1>0
  <2>7. stats'.area \in Int
    BY <1>0, <2>1, <2>6
  <2>8. stats'.area <= peak' * clock
    <3> DEFINE x == peak * clock
               y == peak' * clock
               z == stats'.area
    <3>1. z <= x /\ x <= y /\ x \in Int /\ y \in Int /\ z \in Int
      BY <2>4, <2>5, <2>6, <2>7
    <3> HIDE DEF x, y, z
    <3>2. z <= y
      BY <3>1
    <3> QED BY <3>2 DEF y, z
  <2> QED BY <2>1, <2>2, <2>8
<1>2. CASE DrainOne
  <2>1. SameServed /\ stats'.area = stats.area
    BY <1>2, OthersCount
  <2>2. lastInteraction' = clock /\ peak' = peak
    BY <1>2 DEF DrainOne
  <2>3. stats.area + (clock - lastInteraction) * 0 <= peak * clock
    BY <1>0, AreaBound
  <2>4. (clock - lastInteraction) * 0 = 0
    BY <1>0
  <2> QED BY <1>0, <2>1, <2>2, <2>3, <2>4
<1>3. CASE ~DrainOne /\ ~Enqueue /\ \A p \in Printers : ~Dequeue(p)
  <2>1. peak' = peak /\ lastInteraction' = lastInteraction
    BY <1>3 DEF Next, vars, Tick, CheckTermination, Arrive, StopReceiving, Drop, BeginService,
        EndService, Stop,
                Drained, End, Reported, queueVars
  <2>2. SameServed /\ stats'.area = stats.area
    BY <1>3, ArriveCounts, DropCounts, OthersCount DEF Next
  <2> QED BY <1>0, <2>1, <2>2
<1> QED BY <1>1, <1>2, <1>3

\* A departure adds one to two sums, and times that fit in the job's time in the
\* system (console_handler.c:170-192).
LEMMA SumsDepart ==
  ASSUME QueueInv, WaitInv, AreaInv, AreaInv', StatsType, CourseInv, SumsInv,
         NEW p \in Printers, Depart(p)
  PROVE  SumsInv'
<1>1. /\ stamp' = stamp /\ ppc[p] = "printed" /\ peak' = peak /\ lastInteraction' = lastInteraction
      /\ outcome' = [outcome EXCEPT ![JobOf(p)] = "served"]
  BY DEF Depart, PrinterAt
<1>2. JobOf(p) \in Jobs /\ outcome[JobOf(p)] = "none"
  <2>1. elem[p] # NoNode
    BY <1>1 DEF WaitInv, HoldInv
  <2> QED BY <2>1, StampedJobs DEF WaitInv, OutcomeInv, InHands
<1>3. PICK t \in [Stamps -> Nat] : t = stamp[JobOf(p)]
  BY <1>2 DEF StatsType
<1>4. /\ t["serviceDeparture"] \in Nat /\ t["systemArrival"] \in Nat /\ t["serviceArrival"] \in Nat
      /\ t["queueDeparture"] \in Nat /\ t["queueArrival"] \in Nat
  BY DEF Stamps
<1>5. PICK x \in Int : x = t["serviceDeparture"] - t["systemArrival"]
  BY <1>4
<1>6. PICK s \in Int : s = t["serviceDeparture"] - t["serviceArrival"]
  BY <1>4
<1>7. PICK w \in Int : w = t["queueDeparture"] - t["queueArrival"]
  BY <1>4
<1>8. w + s <= x
  <2>1. Ordered(t, "printed", stats.serviceTime[p])
    BY <1>1, <1>3 DEF CourseInv
  <2>2. /\ t["systemArrival"] <= t["queueArrival"]
        /\ t["queueDeparture"] <= t["serviceArrival"]
    BY <2>1 DEF Ordered
  <2> QED BY <1>4, <1>5, <1>6, <1>7, <2>2
<1>9. /\ NumPrinters \in Nat /\ Printers = 1..NumPrinters
      /\ stats.jobsServed \in [Printers -> Nat] /\ stats.serviceTime \in [Printers -> Int]
      /\ stats.served \in Nat /\ stats.queueWait \in Int /\ stats.systemTime \in Int
      /\ stats.printersUsed \in 0..NumPrinters
  BY StatisticsAssumption DEF Printers, StatsType, StatRecords
<1>10. PICK f \in [1..NumPrinters -> Int], g \in [1..NumPrinters -> Int],
            e \in [1..NumPrinters -> Int], h \in [1..NumPrinters -> Int] :
         /\ f = stats.jobsServed /\ g = stats'.jobsServed
         /\ e = stats.serviceTime /\ h = stats'.serviceTime
         /\ g = [f EXCEPT ![p] = f[p] + 1] /\ h = [e EXCEPT ![p] = e[p] + s]
  <2>1. stats.jobsServed \in [1..NumPrinters -> Int] /\ stats.serviceTime \in [1..NumPrinters -> Int]
    BY <1>9
  <2>2. /\ stats'.jobsServed = [stats.jobsServed EXCEPT ![p] = stats.jobsServed[p] + 1]
        /\ stats'.serviceTime = [stats.serviceTime EXCEPT ![p] = stats.serviceTime[p] + s]
    BY <1>3, <1>6, DepartCounts
  <2>3. stats.jobsServed[p] + 1 \in Int /\ stats.serviceTime[p] + s \in Int
    BY <1>9
  <2>4. stats'.jobsServed \in [1..NumPrinters -> Int]
    BY <2>1, <2>2, <2>3
  <2>5. stats'.serviceTime \in [1..NumPrinters -> Int]
    BY <2>1, <2>2, <2>3
  <2> QED BY <2>1, <2>2, <2>4, <2>5
<1>11. /\ stats'.served = stats.served + 1
       /\ stats'.systemTime = stats.systemTime + x
       /\ stats'.queueWait = stats.queueWait + w
       /\ stats'.printersUsed = IF p >= stats.printersUsed THEN p ELSE stats.printersUsed
       /\ stats'.area = stats.area
  BY <1>3, <1>5, <1>7, DepartCounts
<1>12. SumTo(g, NumPrinters, Printers) = SumTo(f, NumPrinters, Printers) + 1
  <2>1. g[p] = f[p] + 1 /\ \A q \in Printers : q # p => g[q] = f[q]
    BY <1>9, <1>10
  <2>2. Printers \in SUBSET (1..NumPrinters)
    BY <1>9
  <2>3. ASSUME NEW d \in Int, d = 1
        PROVE  SumTo(g, NumPrinters, Printers) = SumTo(f, NumPrinters, Printers) + d
    <3>1. g[p] = f[p] + d
      BY <2>1, <2>3
    <3>2. NumPrinters \in Nat
      BY <1>9
    <3> QED BY <2>1, <2>2, <3>1, <3>2, SumBump
  <2> QED BY <2>3
<1>13. SumTo(h, NumPrinters, Printers) = SumTo(e, NumPrinters, Printers) + s
  <2>1. h[p] = e[p] + s /\ \A q \in Printers : q # p => h[q] = e[q]
    BY <1>9, <1>10
  <2>2. Printers \in SUBSET (1..NumPrinters)
    BY <1>9
  <2>3. ASSUME NEW d \in Int, d = s
        PROVE  SumTo(h, NumPrinters, Printers) = SumTo(e, NumPrinters, Printers) + d
    <3>1. h[p] = e[p] + d
      BY <2>1, <2>3
    <3>2. NumPrinters \in Nat
      BY <1>9
    <3> QED BY <2>1, <2>2, <3>1, <3>2, SumBump
  <2> QED BY <2>3
<1>14. SumTo(stats'.jobsServed, NumPrinters, Printers) = stats'.served
  BY <1>10, <1>11, <1>12 DEF SumsInv
<1>15. \A q \in Printers : q > stats'.printersUsed =>
         stats'.jobsServed[q] = 0 /\ stats'.serviceTime[q] = 0
  <2> TAKE q \in Printers
  <2> SUFFICES ASSUME q > stats'.printersUsed
               PROVE  stats'.jobsServed[q] = 0 /\ stats'.serviceTime[q] = 0
    OBVIOUS
  <2>1. q # p /\ q > stats.printersUsed
    <3>1. q \in Int /\ p \in Int /\ stats.printersUsed \in Int
      BY <1>9
    <3>2. CASE p >= stats.printersUsed
      BY <1>11, <3>1, <3>2
    <3>3. CASE ~(p >= stats.printersUsed)
      BY <1>11, <3>1, <3>3
    <3> QED BY <3>2, <3>3
  <2>2. g[q] = f[q] /\ h[q] = e[q]
    BY <1>9, <1>10, <2>1
  <2> QED BY <1>10, <2>1, <2>2 DEF SumsInv
<1>16. stats'.queueWait + SumTo(stats'.serviceTime, NumPrinters, Printers) <= stats'.systemTime
  <2>1. SumTo(e, NumPrinters, Printers) \in Int
    <3>1. Printers \in SUBSET (1..NumPrinters)
      BY <1>9
    <3> QED BY <1>9, <3>1, SumFacts
  <2>2. stats.queueWait + SumTo(e, NumPrinters, Printers) <= stats.systemTime
    BY <1>10 DEF SumsInv
  <2>3. (stats.queueWait + w) + (SumTo(e, NumPrinters, Printers) + s) <= stats.systemTime + x
    BY <1>8, <1>9, <2>1, <2>2
  <2> QED BY <1>10, <1>11, <1>13, <2>3
<1>17. stats'.queueWait = SumTo(InQueue', NumJobs, Served')
  <2>1. Served' = Served \cup {JobOf(p)} /\ JobOf(p) \notin Served /\ Served \in SUBSET Jobs
    BY <1>1, <1>2 DEF WaitInv, OutcomeInv, Served
  <2>2. TimesOK /\ TimesOK'
    BY DEF AreaInv
  <2>3. SumTo(InQueue', NumJobs, Served) = SumTo(InQueue, NumJobs, Served)
    BY <1>1, <2>1, <2>2, InQueueStays
  <2>4. SumTo(InQueue', NumJobs, Served \cup {JobOf(p)}) = SumTo(InQueue', NumJobs, Served) + w
    BY <1>1, <1>2, <1>3, <1>7, <2>1, <2>2, LaterSums
  <2> QED BY <1>11, <2>1, <2>3, <2>4 DEF SumsInv
<1>18. stats'.area <= peak' * lastInteraction'
  BY <1>1, <1>11 DEF SumsInv
<1> QED BY <1>14, <1>15, <1>16, <1>17, <1>18 DEF SumsInv

\* The sums agree with each other, whoever steps.
THEOREM SumsInvariant == Spec => []SumsInv
<1>1. Init => SumsInv
  <2> SUFFICES ASSUME Init PROVE SumsInv
    OBVIOUS
  <2>1. /\ NumPrinters \in Nat /\ Printers = 1..NumPrinters /\ NumJobs \in Nat /\ Jobs = 1..NumJobs
        /\ Printers \in SUBSET (1..NumPrinters)
    BY StatisticsAssumption DEF Printers, Jobs
  <2>2. PICK f \in [1..NumPrinters -> Int] : f = [p \in Printers |-> 0]
    <3>1. [p \in 1..NumPrinters |-> 0] \in [1..NumPrinters -> Int]
      OBVIOUS
    <3>2. [p \in Printers |-> 0] \in [1..NumPrinters -> Int]
      BY <2>1, <3>1
    <3> QED BY <3>2
  <2>3. /\ stats.jobsServed = f /\ stats.serviceTime = f /\ stats.served = 0 /\ stats.queueWait = 0
        /\ stats.systemTime = 0 /\ stats.area = 0 /\ peak = 0 /\ lastInteraction = 0
    BY <2>2 DEF Init
  <2>4. SumTo(f, NumPrinters, Printers) = 0
    <3>1. {} \in SUBSET Printers /\ \A p \in Printers \ {} : f[p] = 0
      BY <2>2
    <3>2. SumTo(f, NumPrinters, Printers) = SumTo(f, NumPrinters, {})
      BY <2>1, <3>1, SumSupport
    <3> QED BY <2>1, <3>2, SumFacts
  <2>5. Served = {} /\ TimesOK
    BY DEF Init, Served, TimesOK
  <2>6. SumTo(InQueue, NumJobs, {}) = 0
    <3>1. InQueue \in [1..NumJobs -> Int]
      BY <2>1, <2>5, TimeFunctions
    <3> HIDE DEF InQueue
    <3> QED BY <2>1, <3>1, SumFacts
  <2>7. \A p \in Printers : stats.jobsServed[p] = 0 /\ stats.serviceTime[p] = 0
    BY <2>2, <2>3
  <2> QED BY <2>3, <2>4, <2>5, <2>6, <2>7 DEF SumsInv
<1>2. /\ QueueInv /\ QueueInv' /\ WaitInv /\ AreaInv /\ AreaInv' /\ LongestInv /\ LongestInv'
      /\ StatsType /\ CourseInv /\ SumsInv /\ [Next]_vars
      => SumsInv'
  <2> SUFFICES ASSUME QueueInv, QueueInv', WaitInv, AreaInv, AreaInv', LongestInv, LongestInv',
                      StatsType, CourseInv, SumsInv, [Next]_vars
               PROVE  SumsInv'
    OBVIOUS
  <2>1. ASSUME NEW p \in Printers, Depart(p) PROVE SumsInv'
    BY <2>1, SumsDepart
  <2>2. CASE \A p \in Printers : ~Depart(p)
    BY <2>2, AreaStaysBelow, SumsStay
  <2> QED BY <2>1, <2>2
<1> QED BY <1>1, <1>2, QueueInvariant, WaitInvariant, AreaInvariant, LongestInvariant,
           StatsInvariant,
           CourseInvariant, PTL DEF Spec

\* The sum over the printers that are listed leaves nothing out.
LEMMA TotalIsSum ==
  ASSUME NumPrinters \in Nat, NEW u \in 0..NumPrinters, u = stats.printersUsed,
         NEW f \in [1..NumPrinters -> Int], \A p \in 1..NumPrinters : p > u => f[p] = 0
  PROVE  Total(f) = SumTo(f, NumPrinters, 1..NumPrinters)
<1>1. 1..u \in SUBSET (1..NumPrinters)
  OBVIOUS
<1>2. MapThenSumSet(LAMBDA p : f[p], 1..u) = SumTo(f, NumPrinters, 1..u)
  BY <1>1, SumFold
<1>3. \A p \in (1..NumPrinters) \ (1..u) : f[p] = 0
  OBVIOUS
<1>4. SumTo(f, NumPrinters, 1..NumPrinters) = SumTo(f, NumPrinters, 1..u)
  <2>1. 1..NumPrinters \in SUBSET (1..NumPrinters) /\ 1..u \in SUBSET (1..NumPrinters)
    BY <1>1
  <2> QED BY <1>3, <2>1, SumSupport
<1> QED BY <1>2, <1>4 DEF Total

\* When everyone is joined without a stop, every queued job was served.
LEMMA AllWereServed ==
  ASSUME QueueInv, WaitInv, AreaInv, SumsInv, EndInv, mpc = "report", spc = "sigwait"
  PROVE  stats.area = stats.queueWait
<1>1. Cleared = {} /\ EveryoneJoined
  BY DEF EndInv
<1>2. InLine = {}
  <2>1. Len(line) = 0
    BY <1>1 DEF EveryoneJoined, list_is_empty, QueueInv, ListInv, ListType, ListIsSequence,
                Represents,
                list_length
  <2> QED BY <2>1 DEF InLine
<1>3. LeftQueue = Served
  <2>1. InHands = {}
    BY <1>1 DEF EveryoneJoined, WaitInv, HoldInv, InHands
  <2> QED BY <2>1 DEF LeftQueue, Served
<1>4. SumTo(SoFar, NumJobs, {}) = 0
  <2>1. SoFar \in [1..NumJobs -> Int] /\ NumJobs \in Nat
    BY TimeFunctions, StatisticsAssumption DEF AreaInv, Jobs
  <2> HIDE DEF SoFar
  <2> QED BY <2>1, SumFacts
<1>5. SumTo(InQueue, NumJobs, Served) \in Int
  <2>1. Served \in SUBSET Jobs
    BY DEF Served
  <2> QED BY <2>1, EarlierSums DEF AreaInv
<1>6. stats.area = SumTo(InQueue, NumJobs, Served) + 0
  BY <1>1, <1>2, <1>3, <1>4 DEF AreaInv, Spent
<1> QED BY <1>5, <1>6 DEF SumsInv

\* What the averages need of the sums, of n jobs in time d.
LEMMA AveragesFit ==
  ASSUME NEW w \in Int, NEW s \in Int, NEW t \in Int, NEW n \in Nat, w + s <= t
  PROVE  (w * n + s * n) * n <= t * (n * n)
<1>1. PICK d \in Nat : t = w + s + d
  <2>1. t - (w + s) \in Nat /\ t = w + s + (t - (w + s))
    OBVIOUS
  <2> QED BY <2>1
<1>2. t * (n * n) = (w * n + s * n) * n + d * (n * n)
  BY <1>1
<1>3. d * (n * n) \in Nat /\ (w * n + s * n) * n \in Int
  OBVIOUS
<1> QED BY <1>2, <1>3

\* The gaps add up to no more than the time there was.
LEMMA GapsFit ==
  ASSUME NEW g \in Nat, NEW c \in Nat, NEW m \in Nat, g <= c, m >= 1
  PROVE  (g * m) * (m - 1) <= m * ((m - 1) * c)
<1>1. PICK d \in Nat : c = g + d
  <2>1. c - g \in Nat /\ c = g + (c - g)
    OBVIOUS
  <2> QED BY <2>1
<1>2. PICK k \in Nat : m = k + 1 /\ m - 1 = k
  <2>1. m - 1 \in Nat /\ m = (m - 1) + 1
    OBVIOUS
  <2> QED BY <2>1
<1>3. m * ((m - 1) * c) = (g * m) * (m - 1) + m * (k * d)
  BY <1>1, <1>2
<1>4. m * (k * d) \in Nat /\ (g * m) * (m - 1) \in Int
  OBVIOUS
<1> QED BY <1>3, <1>4

\* The figures of the report agree with each other, whatever the run was
\* (simulation_stats.c:15-58, 87-121, 285-296).
THEOREM ReportIsSound == Spec => []ReportIsConsistent
<1>1. ASSUME QueueInv, WaitInv, AreaInv, LongestInv, StatsType, ArrivalsInv, EndInv, CourseInv,
             SumsInv, mpc = "report"
      PROVE  ReportAddsUp
  <2>1. /\ NumPrinters \in Nat /\ Printers = 1..NumPrinters
        /\ stats.jobsServed \in [Printers -> Nat] /\ stats.serviceTime \in [Printers -> Int]
        /\ stats.served \in Nat /\ stats.queueWait \in Int /\ stats.systemTime \in Int
        /\ stats.arrived \in Nat /\ stats.dropped \in Nat /\ stats.area \in Int
        /\ stats.printersUsed \in 0..NumPrinters /\ clock \in Nat
    <3>1. stats \in StatRecords /\ clock \in 0..MaxTime /\ MaxTime \in Nat
      BY <1>1, StatisticsAssumption DEF StatsType
    <3>2. NumPrinters \in Nat /\ Printers = 1..NumPrinters
      BY StatisticsAssumption DEF Printers
    <3>3. /\ stats.jobsServed \in [Printers -> Nat] /\ stats.serviceTime \in [Printers -> Int]
          /\ stats.served \in Nat /\ stats.queueWait \in Int /\ stats.systemTime \in Int
          /\ stats.arrived \in Nat /\ stats.dropped \in Nat /\ stats.area \in Int
          /\ stats.printersUsed \in 0..NumPrinters
      BY <3>1 DEF StatRecords
    <3>4. clock \in Nat
      BY <3>1
    <3> QED BY <3>2, <3>3, <3>4
  <2>2. stats.duration = clock
    BY <1>1 DEF EndInv
  <2>3. PICK u \in 0..NumPrinters : u = stats.printersUsed
    BY <2>1
  <2>4. PICK f \in [1..NumPrinters -> Int] : f = stats.jobsServed
    BY <2>1
  <2>5. PICK g \in [1..NumPrinters -> Int] : g = stats.serviceTime
    BY <2>1
  <2>6. \A p \in 1..NumPrinters : p > u => f[p] = 0 /\ g[p] = 0
    BY <1>1, <2>1, <2>3, <2>4, <2>5 DEF SumsInv
  <2>7. Total(stats.jobsServed) = stats.served
    <3>1. Total(f) = SumTo(f, NumPrinters, 1..NumPrinters)
      BY <2>1, <2>3, <2>6, TotalIsSum
    <3>2. SumTo(f, NumPrinters, 1..NumPrinters) = stats.served
      BY <1>1, <2>1, <2>4 DEF SumsInv
    <3> QED BY <2>4, <3>1, <3>2
  <2>8. PICK s \in Int : /\ s = Total(stats.serviceTime)
                         /\ stats.queueWait + s <= stats.systemTime
    <3>1. Total(g) = SumTo(g, NumPrinters, 1..NumPrinters)
      BY <2>1, <2>3, <2>6, TotalIsSum
    <3>2. stats.queueWait + SumTo(g, NumPrinters, 1..NumPrinters) <= stats.systemTime
      BY <1>1, <2>1, <2>5 DEF SumsInv
    <3>3. SumTo(g, NumPrinters, 1..NumPrinters) \in Int
      <4>1. 1..NumPrinters \in SUBSET (1..NumPrinters)
        OBVIOUS
      <4> QED BY <2>1, <4>1, SumFacts
    <3> QED BY <2>5, <3>1, <3>2, <3>3
  <2>9. \A p \in Printers : stats.jobsServed[p] > 0 => p \in PrintersToReport
    <3> TAKE p \in Printers
    <3> SUFFICES ASSUME stats.jobsServed[p] > 0 PROVE p \in PrintersToReport
      OBVIOUS
    <3>1. p \in 1..NumPrinters /\ ~(p > u)
      <4>1. p \in 1..NumPrinters /\ f[p] > 0
        BY <2>1, <2>4
      <4>2. f[p] # 0
        BY <4>1
      <4> QED BY <2>6, <4>1, <4>2
    <3>2. p \in 1..u /\ u > 0
      BY <2>1, <3>1
    <3> QED BY <2>3, <3>2 DEF PrintersToReport
  <2>10. \A p \in Printers : calculate_system_utilization(p) \preceq Quotient(1, 1)
    <3> TAKE p \in Printers
    <3>1. PICK b \in 0..clock : b = stats.serviceTime[p]
      BY <1>1 DEF CourseInv
    <3>2. b * 1 <= 1 * clock /\ 0 * 1 <= 1 * 1
      BY <2>1, <3>1
    <3> QED BY <2>2, <3>1, <3>2 DEF calculate_system_utilization, PerTime, Zero, Quotient, \preceq
  <2>11. Plus(calculate_average_queue_wait_time, calculate_overall_average_service_time)
           \preceq calculate_average_system_time
    <3>1. PICK n \in Nat : n = stats.served
      BY <2>1
    <3>2. PICK w \in Int : w = stats.queueWait
      BY <2>1
    <3>3. PICK t \in Int : t = stats.systemTime
      BY <2>1
    <3>4. /\ (w * n + s * n) * n <= t * (n * n)
          /\ (0 * 1 + 0 * 1) * 1 <= 0 * (1 * 1)
      <4>1. w + s <= t
        BY <2>8, <3>2, <3>3
      <4>2. (w * n + s * n) * n <= t * (n * n)
        BY <4>1, AveragesFit
      <4> QED BY <4>2
    <3>5. /\ calculate_average_queue_wait_time = IF n = 0 THEN Quotient(0, 1) ELSE Quotient(w, n)
          /\ calculate_overall_average_service_time = IF n = 0 THEN Quotient(0, 1) ELSE Quotient(s, n)
          /\ calculate_average_system_time = IF n = 0 THEN Quotient(0, 1) ELSE Quotient(t, n)
      BY <2>8, <3>1, <3>2, <3>3
      DEF calculate_average_queue_wait_time, calculate_overall_average_service_time,
          calculate_average_system_time, PerJob, Zero
    <3>6. CASE n = 0
      BY <3>4, <3>5, <3>6 DEF Quotient, Plus, \preceq
    <3>7. CASE n # 0
      BY <3>4, <3>5, <3>7 DEF Quotient, Plus, \preceq
    <3> QED BY <3>6, <3>7
  <2>12. calculate_average_queue_length \preceq Quotient(peak, 1)
    <3>1. lastInteraction \in Nat /\ lastInteraction <= clock
      BY <1>1, Elapsed
    <3>2. PICK k \in Nat : k = peak
      BY <1>1 DEF LongestInv
    <3>3. PICK a \in Int : a = stats.area
      BY <2>1
    <3>4. a <= k * clock
      <4>1. a <= k * lastInteraction
        BY <1>1, <3>2, <3>3 DEF SumsInv
      <4>2. a + (clock - lastInteraction) * 0 <= k * clock
        BY <2>1, <3>1, <4>1, AreaBound
      <4>3. (clock - lastInteraction) * 0 = 0
        BY <2>1, <3>1
      <4> QED BY <4>2, <4>3
    <3>5. a * 1 <= k * clock /\ 0 * 1 <= k * 1
      BY <3>4
    <3> QED BY <2>2, <3>2, <3>3, <3>5
        DEF calculate_average_queue_length, PerTime, Zero, Quotient, \preceq
  <2>13. spc = "sigwait" => stats.area = stats.queueWait
    BY <1>1, AllWereServed
  <2>14. calculate_job_drop_probability \preceq Quotient(1, 1)
    <3>1. stats.dropped * 1 <= 1 * stats.arrived /\ 0 * 1 <= 1 * 1
      BY <1>1, <2>1 DEF ArrivalsInv
    <3> QED BY <3>1 DEF calculate_job_drop_probability, Zero, Quotient, \preceq
  <2>15. latest > 0 => stats.interArrival = stamp[latest].systemArrival
    BY <1>1 DEF ArrivalsInv, QueueInv, ReceiverInv
  <2>16. latest > 1 => Times(calculate_average_inter_arrival_time, calculate_job_arrival_rate)
                         \preceq Quotient(latest, latest - 1)
    <3> SUFFICES ASSUME latest > 1
                 PROVE  Times(calculate_average_inter_arrival_time, calculate_job_arrival_rate)
                          \preceq Quotient(latest, latest - 1)
      OBVIOUS
    <3>1. latest \in Jobs /\ latest \in Nat
      BY <1>1, StatisticsAssumption DEF QueueInv, ReceiverInv, Jobs
    <3>2. PICK m \in Nat : m = latest /\ m > 1
      BY <3>1
    <3>3. PICK i \in Nat : i = stats.interArrival /\ i <= clock
      <4>1. "systemArrival" \in Stamps
        BY DEF Stamps
      <4>2. stamp[latest]["systemArrival"] \in Nat /\ stamp[latest]["systemArrival"] <= clock
        BY <1>1, <3>1, <4>1 DEF StatsType
      <4> QED BY <1>1, <3>2, <4>2 DEF ArrivalsInv
    <3>4. stats.arrived = m
      BY <1>1, <3>2 DEF ArrivalsInv
    <3>5. /\ calculate_average_inter_arrival_time = Quotient(i, m - 1)
          /\ calculate_job_arrival_rate = IF clock = 0 THEN Quotient(0, 1) ELSE Quotient(m, clock)
      BY <2>2, <3>2, <3>3, <3>4
      DEF calculate_average_inter_arrival_time, calculate_job_arrival_rate, PerTime, Zero
    <3>6. (i * m) * (m - 1) <= m * ((m - 1) * clock)
      <4>1. m >= 1 /\ clock \in Nat /\ i <= clock
        BY <2>1, <3>2, <3>3
      <4> QED BY <4>1, GapsFit
    <3>7. CASE clock = 0
      <4>1. (i * 0) * (m - 1) <= m * ((m - 1) * 1)
        <5>1. (i * 0) * (m - 1) = 0 /\ m - 1 \in Nat
          BY <3>2
        <5>2. m * ((m - 1) * 1) \in Nat
          BY <5>1
        <5> QED BY <5>1, <5>2
      <4> QED BY <3>2, <3>5, <3>7, <4>1 DEF Quotient, Times, \preceq
    <3>8. CASE clock # 0
      BY <3>2, <3>5, <3>6, <3>8 DEF Quotient, Times, \preceq
    <3> QED BY <3>7, <3>8
  <2> QED BY <2>7, <2>9, <2>10, <2>11, <2>12, <2>13, <2>14, <2>15, <2>16 DEF ReportAddsUp
<1>2. /\ QueueInv /\ WaitInv /\ AreaInv /\ LongestInv /\ StatsType /\ ArrivalsInv /\ EndInv
      /\ CourseInv /\ SumsInv
      => ReportIsConsistent
  BY <1>1 DEF ReportIsConsistent
<1> QED BY <1>2, QueueInvariant, WaitInvariant, AreaInvariant, LongestInvariant, StatsInvariant,
           ArrivalsInvariant, EndInvariant, CourseInvariant, SumsInvariant, PTL
=============================================================================

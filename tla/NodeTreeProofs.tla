--------------------------- MODULE NodeTreeProofs ---------------------------
(***************************************************************************)
(* What NodeTree and the walks of TreeWalk promise for every number of     *)
(* allocations, of ids and every set of add actions.                       *)
(*                                                                         *)
(* The heap lemmas say what Splice and Delete do to well formed links; the *)
(* invariant IInv below adds to the properties of NodeTree what makes them *)
(* inductive; one lemma per action shows that the action preserves it.     *)
(* The second half is about one state of the tree: what each turn of a     *)
(* loop leaves to be visited, and that MaxNode turns are enough.           *)
(***************************************************************************)
EXTENDS TreeWalk, DataLemmas, FiniteSetTheorems

-----------------------------------------------------------------------------
(* The heap lemmas *)

Heaps == [Node -> NodeRecord]

\* Addresses are positive and Null is none of them.
LEMMA NodesArePositive == /\ Node \subseteq Nat \ {0}
                          /\ Null \notin Node
  BY BoundsAssumption DEF Node, Null

LEMMA LinksAreNumbers == Link \subseteq Nat
  BY NodesArePositive DEF Link, Null

\* The siblings of h can be numbered so that next always goes up: no list of
\* children closes on itself.
SiblingsOrdered(h, L) ==
  \E r \in [Node -> Nat] :
    \A x \in L : h[x].next # Null => r[x] < r[h[x].next]

Spliced(s, h, p, b, a, w) ==
  \A x \in Node :
    /\ s[x].kind = h[x].kind /\ s[x].id = h[x].id
    /\ s[x].parent = IF x = w THEN p ELSE h[x].parent
    /\ s[x].previous = IF x = w THEN b ELSE IF x = a THEN w ELSE h[x].previous
    /\ s[x].next = IF x = w THEN a ELSE IF x = b THEN w ELSE h[x].next
    /\ s[x].start = IF x = p /\ b = Null THEN w ELSE h[x].start
    /\ s[x].end = IF x = p /\ a = Null THEN w ELSE h[x].end

\* Splice writes these fields and no other.
LEMMA SpliceFields ==
  ASSUME NEW h \in Heaps, NEW p \in Node, NEW b \in Link, NEW a \in Link,
         NEW w \in Node
  PROVE  /\ Splice(h, p, b, a, w) \in Heaps
         /\ Spliced(Splice(h, p, b, a, w), h, p, b, a, w)
<1> DEFINE s == Splice(h, p, b, a, w)
<1>1. ASSUME NEW x \in Node
      PROVE  /\ s[x] \in NodeRecord
             /\ s[x].kind = h[x].kind /\ s[x].id = h[x].id
             /\ s[x].parent = IF x = w THEN p ELSE h[x].parent
             /\ s[x].previous = IF x = w THEN b ELSE IF x = a THEN w ELSE h[x].previous
             /\ s[x].next = IF x = w THEN a ELSE IF x = b THEN w ELSE h[x].next
             /\ s[x].start = IF x = p /\ b = Null THEN w ELSE h[x].start
             /\ s[x].end = IF x = p /\ a = Null THEN w ELSE h[x].end
  <2>1. h[x] \in NodeRecord
    BY DEF Heaps
  <2>2. s[x] = [h[x] EXCEPT
      !.parent   = IF x = w THEN p ELSE @,
      !.previous = IF x = w THEN b ELSE IF x = a THEN w ELSE @,
      !.next     = IF x = w THEN a ELSE IF x = b THEN w ELSE @,
      !.start    = IF x = p /\ b = Null THEN w ELSE @,
      !.end      = IF x = p /\ a = Null THEN w ELSE @]
    BY DEF Splice
  <2> QED
    BY <2>1, <2>2 DEF NodeRecord, Link
<1>2. DOMAIN s = Node
  BY DEF Splice
<1>3. s = [x \in Node |-> s[x]]
  BY DEF Splice
<1>4. s \in Heaps
  BY <1>1, <1>3 DEF Heaps
<1> QED
  BY <1>1, <1>4 DEF Spliced

\* A node w that no list holds is put between two adjacent children b and a of
\* p: the lists of L grow to lists of L and w.
LEMMA SpliceKeepsLinks ==
  ASSUME NEW h \in Heaps, NEW L \in SUBSET Node,
         NEW p \in L, NEW b \in Link, NEW a \in Link, NEW w \in Node \ L,
         LinksAgreeIn(h, L),
         h[w].start = Null, h[w].end = Null,
         b # Null => b \in L /\ h[b].parent = p /\ h[b].next = a,
         a # Null => a \in L /\ h[a].parent = p /\ h[a].previous = b,
         b = Null => h[p].start = a,
         a = Null => h[p].end = b
  PROVE  LinksAgreeIn(Splice(h, p, b, a, w), L \cup {w})
<1> DEFINE s == Splice(h, p, b, a, w)
<1>0. Spliced(s, h, p, b, a, w)
  BY SpliceFields
<1> HIDE DEF s
<1> SUFFICES ASSUME NEW x \in L \cup {w}
             PROVE  LET l == s[x] IN
                    /\ l.next # Null => /\ l.next \in L \cup {w}
                                        /\ s[l.next].previous = x
                                        /\ s[l.next].parent = l.parent
                    /\ l.previous # Null => /\ l.previous \in L \cup {w}
                                            /\ s[l.previous].next = x
                    /\ l.start # Null => /\ l.start \in L \cup {w}
                                         /\ s[l.start].parent = x
                                         /\ s[l.start].previous = Null
                    /\ l.end # Null => /\ l.end \in L \cup {w}
                                       /\ s[l.end].parent = x
                                       /\ s[l.end].next = Null
                    /\ l.start = Null <=> l.end = Null
                    /\ l.parent # Null => /\ l.previous = Null => s[l.parent].start = x
                                          /\ l.next = Null => s[l.parent].end = x
                    /\ l.parent = Null => l.next = Null /\ l.previous = Null
  BY DEF LinksAgreeIn, s
<1>1. /\ Null \notin Node /\ p # Null /\ w # Null /\ p # w
      /\ \A y \in Node : /\ h[y].parent \in Link /\ h[y].next \in Link
                       /\ h[y].previous \in Link
      /\ h[w].start = Null /\ h[w].end = Null
  BY NodesArePositive DEF Heaps, NodeRecord
<1>2. CASE x = w
  BY <1>1, <1>2, <1>0 DEF Link, LinksAgreeIn, Spliced
<1>3. CASE x \in L
  <2>1. s[x].next # Null => /\ s[x].next \in L \cup {w}
                            /\ s[s[x].next].previous = x
                            /\ s[s[x].next].parent = s[x].parent
    BY <1>1, <1>3, <1>0 DEF Link, LinksAgreeIn, Spliced
  <2>2. s[x].previous # Null => /\ s[x].previous \in L \cup {w}
                                /\ s[s[x].previous].next = x
    BY <1>1, <1>3, <1>0 DEF Link, LinksAgreeIn, Spliced
  <2>3. s[x].start # Null => /\ s[x].start \in L \cup {w}
                             /\ s[s[x].start].parent = x
                             /\ s[s[x].start].previous = Null
    BY <1>1, <1>3, <1>0 DEF Link, LinksAgreeIn, Spliced
  <2>4. s[x].end # Null => /\ s[x].end \in L \cup {w}
                           /\ s[s[x].end].parent = x
                           /\ s[s[x].end].next = Null
    BY <1>1, <1>3, <1>0 DEF Link, LinksAgreeIn, Spliced
  <2>5. s[x].start = Null <=> s[x].end = Null
    BY <1>1, <1>3, <1>0 DEF Link, LinksAgreeIn, Spliced
  <2>6. s[x].parent # Null => /\ s[x].previous = Null => s[s[x].parent].start = x
                              /\ s[x].next = Null => s[s[x].parent].end = x
    BY <1>1, <1>3, <1>0 DEF Link, LinksAgreeIn, Spliced
  <2>7. s[x].parent = Null => s[x].next = Null /\ s[x].previous = Null
    BY <1>1, <1>3, <1>0 DEF Link, LinksAgreeIn, Spliced
  <2> QED
    BY <2>1, <2>2, <2>3, <2>4, <2>5, <2>6, <2>7
<1> QED
  BY <1>2, <1>3

\* The new node is numbered between its neighbours once all numbers are doubled.
LEMMA SpliceKeepsOrder ==
  ASSUME NEW h \in Heaps, NEW L \in SUBSET Node,
         NEW p \in L, NEW b \in Link, NEW a \in Link, NEW w \in Node \ L,
         SiblingsOrdered(h, L), LinksAgreeIn(h, L),
         b # Null => b \in L /\ h[b].next = a,
         a # Null => a \in L
  PROVE  SiblingsOrdered(Splice(h, p, b, a, w), L \cup {w})
<1> DEFINE s == Splice(h, p, b, a, w)
<1>1. Spliced(s, h, p, b, a, w)
  BY SpliceFields
<1> HIDE DEF s
<1>2. PICK r \in [Node -> Nat] : \A x \in L : h[x].next # Null => r[x] < r[h[x].next]
  BY DEF SiblingsOrdered
<1> DEFINE q == [x \in Node |-> IF x # w THEN 2 * r[x] + 1
                                ELSE IF b # Null THEN 2 * r[b] + 2
                                ELSE IF a # Null THEN 2 * r[a] ELSE 0]
<1>3. Null \notin Node
  BY NodesArePositive
<1>4. q \in [Node -> Nat]
  BY <1>3 DEF Link
<1>5. ASSUME NEW x \in L \cup {w}, s[x].next # Null PROVE q[x] < q[s[x].next]
  <2>1. CASE x = w
    <3>1. s[x].next = a /\ a # Null /\ a \in L
      BY <1>1, <1>5, <2>1 DEF Spliced
    <3>2. b # Null => r[b] < r[a]
      BY <1>2, <3>1
    <3> QED
      BY <2>1, <3>1, <3>2
  <2>2. CASE x # w /\ x = b
    <3>1. s[x].next = w /\ b # Null
      BY <1>1, <1>3, <2>2, <1>5 DEF Spliced
    <3> QED
      BY <2>2, <3>1
  <2>3. CASE x # w /\ x # b
    <3>1. s[x].next = h[x].next /\ x \in L
      BY <1>1, <1>5, <2>3 DEF Spliced
    <3>2. h[x].next \in L /\ h[x].next # w
      BY <1>5, <3>1 DEF LinksAgreeIn
    <3>3. r[x] < r[h[x].next]
      BY <1>2, <1>5, <3>1
    <3> QED
      BY <2>3, <3>1, <3>2, <3>3
  <2> QED
    BY <2>1, <2>2, <2>3
<1> HIDE DEF q
<1> QED
  BY <1>4, <1>5 DEF SiblingsOrdered, s

Deleted(s, h, n, S) ==
  \A x \in Node :
    IF x \in S THEN s[x] = Freed
    ELSE /\ s[x].kind = h[x].kind /\ s[x].id = h[x].id
         /\ s[x].parent = h[x].parent
         /\ s[x].previous = IF x = h[n].next THEN h[n].previous ELSE h[x].previous
         /\ s[x].next = IF x = h[n].previous THEN h[n].next ELSE h[x].next
         /\ s[x].start = IF x = h[n].parent /\ h[n].previous = Null
                         THEN h[n].next ELSE h[x].start
         /\ s[x].end = IF x = h[n].parent /\ h[n].next = Null
                       THEN h[n].previous ELSE h[x].end

\* Delete empties the nodes of S and relinks the neighbours of n.
LEMMA DeleteFields ==
  ASSUME NEW h \in Heaps, NEW n \in Node, NEW S \in SUBSET Node
  PROVE  Delete(h, n, S) \in Heaps /\ Deleted(Delete(h, n, S), h, n, S)
<1> DEFINE s == Delete(h, n, S)
<1>1. Freed \in NodeRecord
  BY BoundsAssumption DEF Freed, Fresh, NodeRecord, Kinds, Id, Link, Null, RootId
<1>2. ASSUME NEW x \in Node, x \notin S
      PROVE  /\ s[x] \in NodeRecord
             /\ s[x].kind = h[x].kind /\ s[x].id = h[x].id
             /\ s[x].parent = h[x].parent
             /\ s[x].previous = IF x = h[n].next THEN h[n].previous ELSE h[x].previous
             /\ s[x].next = IF x = h[n].previous THEN h[n].next ELSE h[x].next
             /\ s[x].start = IF x = h[n].parent /\ h[n].previous = Null
                             THEN h[n].next ELSE h[x].start
             /\ s[x].end = IF x = h[n].parent /\ h[n].next = Null
                           THEN h[n].previous ELSE h[x].end
  <2>1. h[x] \in NodeRecord /\ h[n] \in NodeRecord
    BY DEF Heaps
  <2>2. s[x] = [h[x] EXCEPT
      !.next     = IF x = h[n].previous THEN h[n].next ELSE @,
      !.previous = IF x = h[n].next THEN h[n].previous ELSE @,
      !.start    = IF x = h[n].parent /\ h[n].previous = Null THEN h[n].next ELSE @,
      !.end      = IF x = h[n].parent /\ h[n].next = Null THEN h[n].previous ELSE @]
    BY <1>2 DEF Delete, Unlink
  <2> QED
    BY <2>1, <2>2 DEF NodeRecord, Link
<1>3. \A x \in S : s[x] = Freed
  BY DEF Delete
<1>4. s = [x \in Node |-> s[x]]
  BY DEF Delete
<1>5. s \in Heaps
  BY <1>1, <1>2, <1>3, <1>4 DEF Heaps
<1> QED
  BY <1>2, <1>3, <1>5 DEF Deleted

\* The root of a subtree is the oldest node in it.
LEMMA SubtreeRootOldest ==
  ASSUME NEW h \in Heaps, BelowOlderGroupIn(h),
         NEW n \in Node, NEW S \in SUBSET Node, IsSubtree(S, n, h)
  PROVE  \A x \in S : n <= x
<1>1. S \in SUBSET Nat /\ S # {}
  BY NodesArePositive DEF IsSubtree
<1>2. PICK m \in S : \A x \in S : m <= x
  BY <1>1, LeastElement
<1>3. ASSUME m # n PROVE FALSE
  <2>1. h[m].parent \in S /\ m \in LiveIn(h)
    BY <1>3 DEF IsSubtree
  <2>2. h[m].parent # Null
    BY <2>1, NodesArePositive
  <2>3. h[m].parent < m
    BY <2>1, <2>2 DEF BelowOlderGroupIn
  <2>4. h[m].parent \in Nat /\ m \in Nat
    BY <2>1, NodesArePositive
  <2> QED
    BY <1>2, <2>1, <2>3, <2>4
<1> QED
  BY <1>2, <1>3

\* A node that is no group is its own subtree.
LEMMA SynthSubtree ==
  ASSUME NEW h \in Heaps, BelowOlderGroupIn(h),
         NEW n \in Node, NEW S \in SUBSET Node, IsSubtree(S, n, h),
         h[n].kind # "group"
  PROVE  S = {n}
<1> DEFINE T == S \ {n}
<1>1. SUFFICES ASSUME T # {} PROVE FALSE
  BY DEF IsSubtree
<1>2. PICK m \in T : \A x \in T : m <= x
  <2>1. T \in SUBSET Nat
    BY NodesArePositive
  <2> QED
    BY <1>1, <2>1, LeastElement
<1>3. h[m].parent \in S /\ m \in LiveIn(h)
  BY DEF IsSubtree
<1>4. h[m].parent # Null
  BY <1>3, NodesArePositive
<1>5. h[m].parent < m /\ h[h[m].parent].kind = "group"
  BY <1>3, <1>4 DEF BelowOlderGroupIn
<1>6. h[m].parent \in T /\ h[m].parent \in Nat /\ m \in Nat
  BY <1>3, <1>5, NodesArePositive
<1> QED
  BY <1>2, <1>5, <1>6

\* What is left after ~Node hangs together.
LEMMA DeleteKeepsLinks ==
  ASSUME NEW h \in Heaps, BelowOlderGroupIn(h), LinksAgreeIn(h, LiveIn(h)),
         NEW n \in Node, NEW S \in SUBSET Node, IsSubtree(S, n, h)
  PROVE  LET s == Delete(h, n, S) IN
         /\ LiveIn(s) = LiveIn(h) \ S
         /\ LinksAgreeIn(s, LiveIn(s))
         /\ BelowOlderGroupIn(s)
<1> DEFINE s == Delete(h, n, S)
           L == LiveIn(h)
<1>1. Deleted(s, h, n, S)
  BY DeleteFields
<1> HIDE DEF s
<1>2. LiveIn(s) = L \ S
  BY <1>1 DEF Deleted, LiveIn, Freed, Fresh
<1>3. \A x \in S : n <= x
  BY SubtreeRootOldest
<1>4. h[n].parent \notin S /\ n \in L
  <2>1. n \in L
    BY DEF IsSubtree
  <2>2. ASSUME h[n].parent \in S PROVE FALSE
    <3>1. h[n].parent # Null /\ h[n].parent \in Nat /\ n \in Nat
      BY <2>2, NodesArePositive
    <3>2. h[n].parent < n
      BY <2>1, <3>1 DEF BelowOlderGroupIn
    <3> QED
      BY <1>3, <2>2, <3>1, <3>2
  <2> QED
    BY <2>1, <2>2
<1>5. /\ \A y \in Node : /\ h[y].parent \in Link /\ h[y].next \in Link
                         /\ h[y].previous \in Link
      /\ Null \notin Node
  BY NodesArePositive DEF Heaps, NodeRecord
<1>6. LinksAgreeIn(s, L \ S)
  <2> SUFFICES ASSUME NEW x \in L \ S
               PROVE  LET l == s[x] IN
                      /\ l.next # Null => /\ l.next \in L \ S
                                          /\ s[l.next].previous = x
                                          /\ s[l.next].parent = l.parent
                      /\ l.previous # Null => /\ l.previous \in L \ S
                                              /\ s[l.previous].next = x
                      /\ l.start # Null => /\ l.start \in L \ S
                                           /\ s[l.start].parent = x
                                           /\ s[l.start].previous = Null
                      /\ l.end # Null => /\ l.end \in L \ S
                                         /\ s[l.end].parent = x
                                         /\ s[l.end].next = Null
                      /\ l.start = Null <=> l.end = Null
                      /\ l.parent # Null => /\ l.previous = Null => s[l.parent].start = x
                                            /\ l.next = Null => s[l.parent].end = x
                      /\ l.parent = Null => l.next = Null /\ l.previous = Null
    BY DEF LinksAgreeIn
  <2> USE <1>1, <1>4, <1>5 DEF Link, LinksAgreeIn, Deleted, IsSubtree, LiveIn
  <2>1. s[x].next # Null => /\ s[x].next \in L \ S
                            /\ s[s[x].next].previous = x
                            /\ s[s[x].next].parent = s[x].parent
    OBVIOUS
  <2>2. s[x].previous # Null => /\ s[x].previous \in L \ S
                                /\ s[s[x].previous].next = x
    OBVIOUS
  <2>3. s[x].start # Null => /\ s[x].start \in L \ S
                             /\ s[s[x].start].parent = x
                             /\ s[s[x].start].previous = Null
    OBVIOUS
  <2>4. s[x].end # Null => /\ s[x].end \in L \ S
                           /\ s[s[x].end].parent = x
                           /\ s[s[x].end].next = Null
    OBVIOUS
  <2>5. s[x].start = Null <=> s[x].end = Null
    OBVIOUS
  <2>6. s[x].parent # Null => /\ s[x].previous = Null => s[s[x].parent].start = x
                              /\ s[x].next = Null => s[s[x].parent].end = x
    OBVIOUS
  <2>7. s[x].parent = Null => s[x].next = Null /\ s[x].previous = Null
    OBVIOUS
  <2> QED
    BY <2>1, <2>2, <2>3, <2>4, <2>5, <2>6, <2>7
<1>7. BelowOlderGroupIn(s)
  BY <1>1, <1>2 DEF BelowOlderGroupIn, Deleted, IsSubtree, LiveIn
<1> QED
  BY <1>2, <1>6, <1>7 DEF s

\* The numbers that are left still go up.
LEMMA DeleteKeepsOrder ==
  ASSUME NEW h \in Heaps, LinksAgreeIn(h, LiveIn(h)), SiblingsOrdered(h, LiveIn(h)),
         NEW n \in LiveIn(h), NEW S \in SUBSET Node
  PROVE  SiblingsOrdered(Delete(h, n, S), LiveIn(h) \ S)
<1> DEFINE s == Delete(h, n, S)
<1>1. Deleted(s, h, n, S)
  BY DeleteFields DEF LiveIn
<1> HIDE DEF s
<1>2. PICK r \in [Node -> Nat] :
        \A x \in LiveIn(h) : h[x].next # Null => r[x] < r[h[x].next]
  BY DEF SiblingsOrdered
<1>3. ASSUME NEW x \in LiveIn(h) \ S, s[x].next # Null PROVE r[x] < r[s[x].next]
  <2>1. CASE x = h[n].previous
    <3>1. x # Null /\ h[x].next = n /\ n # Null /\ x \in Node /\ n \in Node
      BY <1>3, <2>1, NodesArePositive DEF LinksAgreeIn, LiveIn
    <3>2. s[x].next = h[n].next /\ h[n].next \in Node
      BY <1>1, <1>3, <2>1, <3>1 DEF Deleted, LinksAgreeIn, LiveIn
    <3>3. r[x] < r[n] /\ r[n] < r[h[n].next]
      BY <1>2, <1>3, <3>1, <3>2
    <3> QED
      BY <3>1, <3>2, <3>3
  <2>2. CASE x # h[n].previous
    BY <1>1, <1>2, <1>3, <2>2 DEF Deleted, LiveIn
  <2> QED
    BY <2>1, <2>2
<1> QED
  BY <1>3 DEF SiblingsOrdered, s

-----------------------------------------------------------------------------
(* The inductive invariant *)

\* Nothing lives, and no entry leads, beyond the last address handed out.
AllocatedSoFar == /\ \A x \in Live : x <= top
                  /\ \A i \in Id : node_map[i] <= top

\* An entry that leads to a live node leads to one with its id.
MapKeyed ==
  \A i \in Id : node_map[i] \in Live => heap[node_map[i]].id = i

\* WalkKeepsItsPlace, and the sibling is still a child of the group.
WalkInPlace ==
  \A k \in 1..Len(walk) :
    /\ walk[k].group \in Live
    /\ walk[k].node # Null => /\ walk[k].node \in Live
                              /\ heap[walk[k].node].parent = walk[k].group
    /\ \A j \in 1..(k - 1) : walk[j].group < walk[k].group

IInv ==
  /\ TypeOK
  /\ LinksAgree
  /\ BelowOlderGroup
  /\ SiblingsOrdered(heap, Live)
  /\ AllocatedSoFar
  /\ MapKeyed
  /\ NewestOwnsId
  /\ SynthsAddressable
  /\ WalkInPlace
  /\ RootSurvives

\* The constructor establishes the invariant.
LEMMA InitIInv == Init => IInv
<1> SUFFICES ASSUME Init PROVE IInv
  OBVIOUS
<1> DEFINE h == [x \in Node |-> IF x = RootNode THEN Fresh("group", RootId)
                                ELSE IF x = FirstNode THEN Fresh("group", RootId + 1)
                                ELSE Freed]
<1>1. /\ RootNode \in Node /\ FirstNode \in Node /\ RootNode # FirstNode
      /\ RootNode < FirstNode
      /\ RootId \in Id /\ RootId + 1 \in Id /\ RootId # RootId + 1
  BY BoundsAssumption DEF RootNode, FirstNode, Node, RootId, Id
<1>2. h \in Heaps
  BY <1>1 DEF Heaps, NodeRecord, Fresh, Freed, Kinds, Link, Null
<1>3. /\ LiveIn(h) = {RootNode, FirstNode}
      /\ \A x \in Node : /\ h[x].parent = Null /\ h[x].next = Null
                         /\ h[x].previous = Null
                         /\ h[x].start = Null /\ h[x].end = Null
      /\ h[RootNode].kind = "group" /\ h[RootNode].id = RootId
      /\ h[FirstNode].kind = "group" /\ h[FirstNode].id = RootId + 1
  BY <1>1 DEF LiveIn, Fresh, Freed
<1> HIDE DEF h
<1>4. heap = Splice(h, RootNode, Null, Null, FirstNode)
  BY <1>1, <1>3 DEF Init, push_front, h
<1>5. heap \in Heaps /\ Spliced(heap, h, RootNode, Null, Null, FirstNode)
  BY <1>1, <1>2, <1>4, SpliceFields DEF Link
<1>6. Live = {RootNode, FirstNode}
  BY <1>1, <1>3, <1>5 DEF Live, LiveIn, Spliced
<1>7. LinksAgree
  <2>1. LinksAgreeIn(h, {RootNode})
    BY <1>1, <1>3 DEF LinksAgreeIn
  <2>2. LinksAgreeIn(heap, {RootNode} \cup {FirstNode})
    BY <1>1, <1>2, <1>3, <1>4, <2>1, SpliceKeepsLinks DEF Link
  <2>3. {RootNode} \cup {FirstNode} = {RootNode, FirstNode}
    OBVIOUS
  <2> QED
    BY <1>6, <2>2, <2>3 DEF LinksAgree
<1>8. BelowOlderGroup
  BY <1>1, <1>3, <1>5, <1>6 DEF BelowOlderGroup, BelowOlderGroupIn, Spliced, Live
<1>9. TypeOK
  <2>1. node_map \in [Id -> Link]
    BY <1>1 DEF Init, Link
  <2>2. walk \in Seq(Frame)
    BY EmptySeq DEF Init
  <2> QED
    BY <1>1, <1>5, <2>1, <2>2 DEF TypeOK, Init, Heaps
<1>10. AllocatedSoFar /\ MapKeyed /\ NewestOwnsId /\ SynthsAddressable /\ RootSurvives
  BY <1>1, <1>3, <1>5, <1>6 DEF Init, AllocatedSoFar, MapKeyed, NewestOwnsId,
     SynthsAddressable, RootSurvives, IsKind, Spliced, Null, RootNode, FirstNode
<1>11. WalkInPlace
  BY DEF Init, WalkInPlace
<1>12. SiblingsOrdered(heap, Live)
  <2>1. \A x \in Live : heap[x].next = Null
    BY <1>1, <1>3, <1>5, <1>6, NodesArePositive DEF Spliced
  <2>2. [x \in Node |-> 0] \in [Node -> Nat]
    OBVIOUS
  <2> QED
    BY <2>1, <2>2 DEF SiblingsOrdered
<1> QED
  BY <1>7, <1>8, <1>9, <1>10, <1>11, <1>12 DEF IInv

-----------------------------------------------------------------------------
(* Creating a node *)

\* Linking a new node w at t, other than beside a node without parent.
LEMMA PlaceKeepsHeap ==
  ASSUME NEW h \in Heaps, NEW w \in LiveIn(h), NEW L \in SUBSET Node, L = LiveIn(h) \ {w},
         LinksAgreeIn(h, L), BelowOlderGroupIn(h), SiblingsOrdered(h, L),
         NEW t \in L, t < w,
         h[w].parent = Null, h[w].start = Null, h[w].end = Null,
         \A x \in L : x < w,
         NEW a \in 0..4,
         IF a \in {0, 1} THEN h[t].kind = "group" ELSE h[t].parent # Null
  PROVE  LET s == Place(h, a, t, w) IN
         /\ s \in Heaps
         /\ LiveIn(s) = LiveIn(h)
         /\ LinksAgreeIn(s, LiveIn(s))
         /\ SiblingsOrdered(s, LiveIn(s))
         /\ BelowOlderGroupIn(s)
         /\ \A x \in Node : s[x].kind = h[x].kind /\ s[x].id = h[x].id
         /\ \A x \in Node \ {w} : s[x].parent = h[x].parent
<1> DEFINE s == Place(h, a, t, w)
           Fits(g, b, c) == /\ s = Splice(h, g, b, c, w)
                            /\ g \in L /\ h[g].kind = "group" /\ g < w
                            /\ b \in Link /\ c \in Link
                            /\ b # Null => b \in L /\ h[b].parent = g /\ h[b].next = c
                            /\ c # Null => c \in L /\ h[c].parent = g /\ h[c].previous = b
                            /\ b = Null => h[g].start = c
                            /\ c = Null => h[g].end = b
<1>1. /\ Null \notin Node /\ w \in Node /\ w \notin L
      /\ \A x \in Node : /\ h[x].parent \in Link /\ h[x].next \in Link
                         /\ h[x].previous \in Link /\ h[x].start \in Link
                         /\ h[x].end \in Link
  BY NodesArePositive DEF Heaps, NodeRecord, LiveIn
<1>2. \E g, b, c : Fits(g, b, c)
  <2>1. CASE a = 0
    <3>1. s = Splice(h, t, Null, h[t].start, w)
      BY <2>1 DEF Place, push_front
    <3>2. Fits(t, Null, h[t].start)
      BY <1>1, <2>1, <3>1 DEF Link, LinksAgreeIn
    <3> QED
      BY <3>2
  <2>2. CASE a = 1
    <3>1. s = Splice(h, t, h[t].end, Null, w)
      BY <2>2 DEF Place, push_back
    <3>2. Fits(t, h[t].end, Null)
      BY <1>1, <2>2, <3>1 DEF Link, LinksAgreeIn
    <3> QED
      BY <3>2
  <2>3. CASE a \notin {0, 1}
    <3>1. /\ h[t].parent \in L /\ h[h[t].parent].kind = "group"
          /\ h[t].parent < w
      <4>1. /\ h[t].parent \in LiveIn(h) /\ h[h[t].parent].kind = "group"
            /\ h[t].parent < t
        BY <2>3 DEF BelowOlderGroupIn
      <4>2. h[t].parent \in Nat /\ t \in Nat /\ w \in Nat
        BY <1>1, <4>1, NodesArePositive DEF LiveIn
      <4> QED
        BY <4>1, <4>2
    <3>2. CASE a \in {2, 4}
      <4>1. s = Splice(h, h[t].parent, h[t].previous, t, w)
        BY <3>2 DEF Place, insert_before
      <4>2. Fits(h[t].parent, h[t].previous, t)
        BY <1>1, <2>3, <3>1, <4>1 DEF Link, LinksAgreeIn
      <4> QED
        BY <4>2
    <3>3. CASE a = 3
      <4>1. s = Splice(h, h[t].parent, t, h[t].next, w)
        BY <3>3 DEF Place, insert_after
      <4>2. Fits(h[t].parent, t, h[t].next)
        BY <1>1, <2>3, <3>1, <4>1 DEF Link, LinksAgreeIn
      <4> QED
        BY <4>2
    <3> QED
      BY <2>3, <3>2, <3>3
  <2> QED
    BY <2>1, <2>2, <2>3
<1>3. PICK g, b, c : Fits(g, b, c)
  BY <1>2
<1>4. s \in Heaps /\ Spliced(s, h, g, b, c, w)
  BY <1>1, <1>3, SpliceFields
<1>5. LinksAgreeIn(s, L \cup {w})
  BY <1>1, <1>3, SpliceKeepsLinks
<1>8. SiblingsOrdered(s, L \cup {w})
  <2>1. /\ g \in L /\ b \in Link /\ c \in Link
        /\ b # Null => b \in L /\ h[b].next = c
        /\ c # Null => c \in L
    BY <1>3
  <2>2. s = Splice(h, g, b, c, w)
    BY <1>3
  <2>3. w \in Node \ L
    BY <1>1
  <2> HIDE DEF Fits, s
  <2>4. SiblingsOrdered(Splice(h, g, b, c, w), L \cup {w})
    BY <2>1, <2>3, SpliceKeepsOrder
  <2> QED
    BY <2>2, <2>4
<1> HIDE DEF s
<1>6. LiveIn(s) = LiveIn(h) /\ L \cup {w} = LiveIn(h)
  BY <1>1, <1>4 DEF Spliced, LiveIn
<1>7. BelowOlderGroupIn(s)
  BY <1>1, <1>3, <1>4, <1>6 DEF BelowOlderGroupIn, Spliced, LiveIn
<1> QED
  BY <1>1, <1>4, <1>5, <1>6, <1>7, <1>8 DEF s, Spliced

\* Creating a node keeps the invariant, a deleted target and a node that could
\* not be linked included.
LEMMA CreateKeepsIInv ==
  ASSUME IInv, NEW kind \in {"synth", "group"}, NEW request, NEW a \in 0..4,
         NEW target \in Id, Create(kind, request, a, target)
  PROVE  IInv'
<1> DEFINE n == top + 1
           t == node_map[target]
<1>1. PICK i \in Id : /\ n \in Node /\ i \in FreeIds /\ t \in Live
                      /\ \/ /\ a \in {0, 1}
                            /\ heap[t].kind = "group"
                            /\ heap' = Place([heap EXCEPT ![n] = Fresh(kind, i)], a, t, n)
                         \/ /\ a \in {2, 3}
                            /\ heap[t].parent # Null
                            /\ heap' = Place([heap EXCEPT ![n] = Fresh(kind, i)], a, t, n)
                         \/ /\ a = 4
                            /\ heap[t].parent # Null
                            /\ \E S \in SUBSET Node :
                                 /\ IsSubtree(S, t, Place([heap EXCEPT ![n] = Fresh(kind, i)], 4, t, n))
                                 /\ heap' = Delete(Place([heap EXCEPT ![n] = Fresh(kind, i)], 4, t, n), t, S)
                         \/ /\ a \in {2, 3, 4}
                            /\ heap[t].parent = Null
                            /\ heap' = [heap EXCEPT ![n] = Fresh(kind, i)]
                      /\ top' = n
                      /\ node_map' = [node_map EXCEPT ![i] = n]
                      /\ UNCHANGED <<walk, fault>>
                      /\ walk = <<>>
  BY DEF Create, Granted, next_free_id, Idle
<1> DEFINE h == [heap EXCEPT ![n] = Fresh(kind, i)]
           Child == /\ a \in {0, 1, 2, 3}
                    /\ IF a \in {0, 1} THEN heap[t].kind = "group" ELSE heap[t].parent # Null
                    /\ heap' = Place(h, a, t, n)
           Swap  == /\ a = 4
                    /\ heap[t].parent # Null
                    /\ \E S \in SUBSET Node : /\ IsSubtree(S, t, Place(h, 4, t, n))
                                              /\ heap' = Delete(Place(h, 4, t, n), t, S)
           Ghost == heap[t].parent = Null /\ heap' = h
<1>0. Child \/ Swap \/ Ghost
  <2>1. a \in {0, 1} => a \in {0, 1, 2, 3}
    OBVIOUS
  <2>2. a \in {2, 3} => a \notin {0, 1} /\ a \in {0, 1, 2, 3}
    OBVIOUS
  <2> QED
    BY <1>1, <2>1, <2>2, Zenon
<1>2. /\ heap \in Heaps /\ top \in Nat /\ node_map \in [Id -> Link] /\ walk \in Seq(Frame)
      /\ fault \in BOOLEAN /\ node_map[i] = Null /\ n \notin Live /\ t < n
      /\ \A x \in Live : x < n
      /\ \A j \in Id : node_map[j] < n
  <2>1. /\ heap \in Heaps /\ top \in Node /\ node_map \in [Id -> Link]
        /\ walk \in Seq(Frame) /\ fault \in BOOLEAN
    BY DEF IInv, TypeOK, Heaps
  <2>2. node_map[i] = Null
    BY <1>1 DEF FreeIds
  <2>3. /\ \A x \in Live : x \in Nat /\ x <= top
        /\ \A j \in Id : node_map[j] \in Nat /\ node_map[j] <= top
        /\ top \in Nat
    BY <2>1, NodesArePositive, LinksAreNumbers DEF IInv, AllocatedSoFar, Live, LiveIn
  <2>4. /\ n \notin Live /\ t < n
        /\ \A x \in Live : x < n
        /\ \A j \in Id : node_map[j] < n
    BY <1>1, <2>3
  <2> QED
    BY <2>1, <2>2, <2>3, <2>4
<1>3. /\ h \in Heaps /\ LiveIn(h) = Live \cup {n}
      /\ h[n].kind = kind /\ h[n].id = i
      /\ h[n].parent = Null /\ h[n].next = Null /\ h[n].previous = Null
      /\ h[n].start = Null /\ h[n].end = Null
      /\ \A x \in Node \ {n} : h[x] = heap[x]
  <2>1. Fresh(kind, i) = [kind |-> kind, id |-> i, parent |-> Null, next |-> Null,
                          previous |-> Null, start |-> Null, end |-> Null]
    BY DEF Fresh
  <2>2. Fresh(kind, i) \in NodeRecord
    BY <2>1 DEF NodeRecord, Kinds, Link
  <2>3. /\ h \in Heaps /\ h[n] = Fresh(kind, i)
        /\ \A x \in Node \ {n} : h[x] = heap[x]
    BY <1>1, <1>2, <2>2 DEF Heaps
  <2> HIDE DEF h
  <2>4. LiveIn(h) = Live \cup {n}
    BY <1>1, <1>2, <2>1, <2>3 DEF Live, LiveIn
  <2> QED
    BY <2>1, <2>3, <2>4
<1> HIDE DEF h
<1>4. LinksAgreeIn(h, Live)
  <2>1. \A x \in Live : x \in Node \ {n} /\ h[x] = heap[x]
    BY <1>2, <1>3 DEF Live, LiveIn
  <2>2. \A x \in Live : heap[x].parent # Null => heap[x].parent \in Live
    BY DEF IInv, BelowOlderGroup, BelowOlderGroupIn, Live
  <2>3. LinksAgreeIn(heap, Live)
    BY DEF IInv, LinksAgree
  <2> QED
    BY <2>1, <2>2, <2>3 DEF LinksAgreeIn
<1>18. SiblingsOrdered(h, Live)
  BY <1>2, <1>3 DEF IInv, SiblingsOrdered, Live, LiveIn
<1>5. BelowOlderGroupIn(h)
  BY <1>2, <1>3 DEF IInv, BelowOlderGroup, BelowOlderGroupIn, Live, LiveIn
<1> DEFINE Grown(H) == /\ H \in Heaps /\ LiveIn(H) \subseteq Live \cup {n}
                       /\ LinksAgreeIn(H, LiveIn(H))
                       /\ SiblingsOrdered(H, LiveIn(H))
                       /\ BelowOlderGroupIn(H)
                       /\ \A x \in LiveIn(H) : H[x].kind = h[x].kind /\ H[x].id = h[x].id
                       /\ RootNode \in LiveIn(H) /\ H[RootNode].parent = Null
<1>6. RootNode \in Live /\ RootNode # n /\ h[RootNode].parent = Null
  BY <1>2, <1>3 DEF IInv, RootSurvives, IsKind, Live, LiveIn
<1>7. ASSUME IF a \in {0, 1} THEN heap[t].kind = "group" ELSE heap[t].parent # Null
      PROVE  LET s == Place(h, a, t, n) IN
             /\ Grown(s) /\ LiveIn(s) = Live \cup {n}
             /\ s[t].parent = heap[t].parent
  <2>1. IF a \in {0, 1} THEN h[t].kind = "group" ELSE h[t].parent # Null
    BY <1>1, <1>2, <1>3, <1>7 DEF Live, LiveIn
  <2>2. n \in LiveIn(h) /\ Live \in SUBSET Node /\ Live = LiveIn(h) \ {n}
    BY <1>2, <1>3 DEF Live, LiveIn
  <2> HIDE DEF n, t
  <2>3. LET s == Place(h, a, t, n) IN
         /\ s \in Heaps
         /\ LiveIn(s) = LiveIn(h)
         /\ LinksAgreeIn(s, LiveIn(s))
         /\ SiblingsOrdered(s, LiveIn(s))
         /\ BelowOlderGroupIn(s)
         /\ \A x \in Node : s[x].kind = h[x].kind /\ s[x].id = h[x].id
         /\ \A x \in Node \ {n} : s[x].parent = h[x].parent
    BY <1>1, <1>2, <1>3, <1>4, <1>5, <1>18, <2>1, <2>2, PlaceKeepsHeap
  <2> QED
    BY <1>1, <1>2, <1>3, <1>6, <2>2, <2>3 DEF LiveIn
<1>8. Grown(heap')
  <2>1. CASE Child
    BY <1>7, <2>1
  <2>2. CASE Swap
    <3> DEFINE s == Place(h, 4, t, n)
    <3>1. Grown(s) /\ s[t].parent # Null /\ t \in Node
      BY <1>1, <1>7, <2>2 DEF Live, LiveIn
    <3> HIDE DEF s
    <3>2. PICK S \in SUBSET Node : IsSubtree(S, t, s) /\ heap' = Delete(s, t, S)
      BY <2>2 DEF s
    <3>3. /\ heap' \in Heaps /\ Deleted(heap', s, t, S)
          /\ LiveIn(heap') = LiveIn(s) \ S
          /\ LinksAgreeIn(heap', LiveIn(heap'))
          /\ BelowOlderGroupIn(heap')
      BY <3>1, <3>2, DeleteFields, DeleteKeepsLinks
    <3>5. SiblingsOrdered(heap', LiveIn(heap'))
      <4>1. t \in LiveIn(s)
        BY <3>2 DEF IsSubtree
      <4> QED
        BY <3>1, <3>2, <3>3, <4>1, DeleteKeepsOrder
    <3>4. RootNode \notin S
      BY <3>1, <3>2, NodesArePositive DEF IsSubtree
    <3> QED
      BY <3>1, <3>3, <3>4, <3>5 DEF Deleted, LiveIn
  <2>3. CASE Ghost
    <3>1. LinksAgreeIn(h, LiveIn(h))
      BY <1>2, <1>3, <1>4, NodesArePositive DEF LinksAgreeIn, Live, LiveIn, IInv, BelowOlderGroup, BelowOlderGroupIn
    <3>2. SiblingsOrdered(h, LiveIn(h))
      BY <1>3, <1>18 DEF SiblingsOrdered
    <3> QED
      BY <1>3, <1>5, <1>6, <2>3, <3>1, <3>2
  <2> QED
    BY <1>0, <2>1, <2>2, <2>3
<1>9. Live' = LiveIn(heap')
  BY DEF Live
<1>10. TypeOK'
  BY <1>1, <1>2, <1>8 DEF TypeOK, Heaps, Link
<1>11. LinksAgree' /\ BelowOlderGroup' /\ SiblingsOrdered(heap, Live)'
  BY <1>8, <1>9 DEF LinksAgree, BelowOlderGroup, Live
<1>12. AllocatedSoFar'
  <2>1. \A x \in Live' : x <= n
    <3>1. \A x \in Live' : x \in Live \/ x = n
      BY <1>8, <1>9
    <3>2. n \in Nat /\ \A x \in Live : x \in Nat /\ x < n
      BY <1>1, <1>2, NodesArePositive DEF Live, LiveIn
    <3> HIDE DEF n
    <3> QED
      BY <3>1, <3>2
  <2>2. \A j \in Id : node_map'[j] <= n
    <3>1. n \in Nat /\ \A j \in Id : node_map[j] \in Nat /\ node_map[j] < n
      BY <1>1, <1>2, NodesArePositive, LinksAreNumbers
    <3>2. \A j \in Id : node_map'[j] = IF j = i THEN n ELSE node_map[j]
      BY <1>1, <1>2
    <3> HIDE DEF n
    <3> QED
      BY <3>1, <3>2
  <2> QED
    BY <1>1, <2>1, <2>2 DEF AllocatedSoFar
<1>13. MapKeyed'
  BY <1>1, <1>2, <1>3, <1>8, <1>9 DEF MapKeyed, IInv, Live, LiveIn, Link
<1>14. NewestOwnsId'
  BY <1>1, <1>2, <1>3, <1>8, <1>9, NodesArePositive DEF NewestOwnsId, IInv, Live, LiveIn, Link
<1>15. SynthsAddressable'
  BY <1>1, <1>2, <1>3, <1>8, <1>9, NodesArePositive DEF SynthsAddressable, IInv, Live, LiveIn, Link
<1>16. WalkInPlace'
  BY <1>1 DEF WalkInPlace
<1>17. RootSurvives'
  BY <1>6, <1>3, <1>8, <1>9 DEF RootSurvives, IInv, IsKind, Live, LiveIn
<1> QED
  BY <1>10, <1>11, <1>12, <1>13, <1>14, <1>15, <1>16, <1>17 DEF IInv

-----------------------------------------------------------------------------
(* Freeing nodes *)

\* A synth is deleted and the entry of its id removed: all but the walk is as
\* it should be, and nothing but the synth is gone.
LEMMA FreeSynth ==
  ASSUME IInv, NEW n \in Live, heap[n].kind = "synth",
         NEW S \in SUBSET Node, IsSubtree(S, n, heap), heap' = Delete(heap, n, S),
         node_map' = [node_map EXCEPT ![heap[n].id] = Null], top' = top
  PROVE  /\ heap' \in Heaps
         /\ node_map' \in [Id -> Link]
         /\ Live' = Live \ {n}
         /\ \A x \in Live' : /\ heap'[x].parent = heap[x].parent
                             /\ heap'[x].kind = heap[x].kind
                             /\ heap'[x].previous = IF x = heap[n].next THEN heap[n].previous
                                                    ELSE heap[x].previous
         /\ LinksAgree' /\ BelowOlderGroup' /\ SiblingsOrdered(heap, Live)'
         /\ AllocatedSoFar' /\ MapKeyed' /\ NewestOwnsId' /\ SynthsAddressable'
         /\ RootSurvives'
<1>1. /\ heap \in Heaps /\ n \in Node /\ heap[n].id \in Id
      /\ node_map \in [Id -> Link]
      /\ LinksAgreeIn(heap, LiveIn(heap)) /\ BelowOlderGroupIn(heap)
      /\ node_map[heap[n].id] = n
  BY DEF IInv, TypeOK, Heaps, NodeRecord, Live, LiveIn, LinksAgree, BelowOlderGroup,
     SynthsAddressable
<1>2. S = {n}
  BY <1>1, SynthSubtree
<1>3. /\ heap' \in Heaps /\ Deleted(heap', heap, n, S)
      /\ LiveIn(heap') = LiveIn(heap) \ S
      /\ LinksAgreeIn(heap', LiveIn(heap'))
      /\ BelowOlderGroupIn(heap')
  BY <1>1, DeleteFields, DeleteKeepsLinks
<1>4. Live' = Live \ {n}
  BY <1>2, <1>3 DEF Live
<1>5. \A x \in Live' : /\ x \in Node /\ x # n
                       /\ heap'[x].parent = heap[x].parent
                       /\ heap'[x].kind = heap[x].kind
                       /\ heap'[x].id = heap[x].id
                       /\ heap'[x].previous = IF x = heap[n].next THEN heap[n].previous
                                              ELSE heap[x].previous
  BY <1>2, <1>3, <1>4 DEF Deleted, Live, LiveIn
<1>6. node_map' \in [Id -> Link]
  BY <1>1 DEF Link
<1>14. SiblingsOrdered(heap', LiveIn(heap'))
  <2>1. SiblingsOrdered(heap, LiveIn(heap))
    BY DEF IInv, Live
  <2> QED
    BY <1>1, <1>3, <2>1, DeleteKeepsOrder DEF Live
<1>7. LinksAgree' /\ BelowOlderGroup' /\ SiblingsOrdered(heap, Live)'
  BY <1>3, <1>14 DEF LinksAgree, BelowOlderGroup, Live
<1>8. AllocatedSoFar'
  <2>1. \A x \in Live' : x <= top'
    BY <1>4 DEF IInv, AllocatedSoFar
  <2>2. Null <= top
    BY NodesArePositive DEF IInv, TypeOK, Null
  <2>3. \A i \in Id : node_map'[i] <= top'
    BY <1>1, <2>2 DEF IInv, AllocatedSoFar
  <2> QED
    BY <2>1, <2>3 DEF AllocatedSoFar
<1>9. MapKeyed'
  BY <1>1, <1>4, <1>5, NodesArePositive DEF MapKeyed, IInv
<1>10. \A x \in Live' : heap[x].id \in Id
  BY <1>1, <1>5 DEF Heaps, NodeRecord
<1>11. NewestOwnsId'
  BY <1>1, <1>4, <1>5, <1>10 DEF NewestOwnsId, IInv
<1>12. SynthsAddressable'
  BY <1>1, <1>4, <1>5, <1>10 DEF SynthsAddressable, IInv
<1>13. RootSurvives'
  <2>1. RootNode \in Live /\ RootNode # n /\ heap[RootNode].parent = Null
        /\ heap[RootNode].kind = "group"
    BY DEF IInv, RootSurvives, IsKind, Live, LiveIn
  <2>2. RootNode \in Live'
    BY <1>4, <2>1
  <2> QED
    BY <1>5, <2>1, <2>2 DEF RootSurvives, IsKind
<1> QED
  BY <1>3, <1>4, <1>5, <1>6, <1>7, <1>8, <1>9, <1>11, <1>12, <1>13

\* So does n_free, of a group too, which stays in the tree without its id.
LEMMA NFreeKeepsIInv ==
  ASSUME IInv, NEW id \in Id, n_free(id)
  PROVE  IInv'
<1> DEFINE t == node_map[id]
<1>1. /\ t \in Live /\ heap[t].id = id /\ node_map \in [Id -> Link]
      /\ walk = <<>> /\ walk' = walk /\ fault' = fault /\ top' = top
      /\ node_map' = [node_map EXCEPT ![id] = Null]
  BY DEF n_free, Idle, IInv, MapKeyed, TypeOK
<1>2. WalkInPlace' /\ walk' \in Seq(Frame)
  BY <1>1 DEF WalkInPlace, IInv, TypeOK
<1>3. CASE heap[t].kind = "synth"
  <2>1. PICK S \in SUBSET Node : IsSubtree(S, t, heap) /\ heap' = Delete(heap, t, S)
    BY <1>3 DEF n_free
  <2> HIDE DEF t
  <2>2. /\ heap' \in Heaps /\ node_map' \in [Id -> Link]
        /\ LinksAgree' /\ BelowOlderGroup' /\ SiblingsOrdered(heap, Live)'
        /\ AllocatedSoFar' /\ MapKeyed' /\ NewestOwnsId' /\ SynthsAddressable'
        /\ RootSurvives'
    BY <1>1, <1>3, <2>1, FreeSynth
  <2> QED
    BY <1>1, <1>2, <2>2 DEF IInv, TypeOK, Heaps
<1>4. CASE heap[t].kind # "synth"
  <2>1. heap' = heap /\ heap[t].kind = "group" /\ Live' = Live
    BY <1>4 DEF n_free, Live
  <2>2. TypeOK'
    BY <1>1, <1>2, <2>1 DEF TypeOK, IInv, Link
  <2>3. /\ LinksAgree' /\ BelowOlderGroup' /\ SiblingsOrdered(heap, Live)'
        /\ RootSurvives'
    BY <2>1 DEF IInv, SiblingsOrdered, LinksAgree, BelowOlderGroup, RootSurvives, IsKind
  <2>4. AllocatedSoFar'
    <3>1. Null <= top
      BY NodesArePositive DEF IInv, TypeOK, Null
    <3> QED
      BY <1>1, <2>1, <3>1 DEF IInv, AllocatedSoFar
  <2>5. \A x \in Live : heap[x].id \in Id
    BY DEF IInv, TypeOK, NodeRecord, Live, LiveIn
  <2>6. MapKeyed'
    BY <1>1, <2>1, NodesArePositive DEF IInv, MapKeyed, Live, LiveIn
  <2>7. NewestOwnsId'
    BY <1>1, <2>1, <2>5 DEF IInv, NewestOwnsId
  <2>8. SynthsAddressable'
    BY <1>1, <2>1, <2>5 DEF IInv, SynthsAddressable
  <2> QED
    BY <1>2, <2>2, <2>3, <2>4, <2>6, <2>7, <2>8 DEF IInv
<1> QED
  BY <1>3, <1>4
-----------------------------------------------------------------------------
(* g_freeAll *)

\* A step that moves the walk only, to one that is in place, keeps the rest.
LEMMA WalkStep ==
  ASSUME IInv, UNCHANGED <<heap, top, node_map>>, fault' \in BOOLEAN,
         walk' \in Seq(Frame), WalkInPlace'
  PROVE  IInv'
<1>1. Live' = Live
  BY DEF Live
<1> QED
  BY <1>1 DEF IInv, TypeOK, LinksAgree, BelowOlderGroup, SiblingsOrdered, AllocatedSoFar, MapKeyed,
     NewestOwnsId, SynthsAddressable, RootSurvives, IsKind

\* The call of g_freeAll begins a walk that is in place.
LEMMA CallKeepsIInv ==
  ASSUME IInv, NEW id \in Id, g_freeAll(id)
  PROVE  IInv'
<1> DEFINE t == node_map[id]
           f == [group |-> t, node |-> heap[t].start]
<1>1. /\ t \in Live /\ heap[t].start # Null
      /\ walk' = <<f>> /\ UNCHANGED <<heap, top, node_map, fault>>
  BY DEF g_freeAll, IsKind, Live, LiveIn
<1>2. heap[t].start \in Live /\ heap[heap[t].start].parent = t
  BY <1>1 DEF IInv, LinksAgree, LinksAgreeIn
<1>3. f \in Frame
  BY <1>1, <1>2 DEF Frame, Live, LiveIn, Link
<1> HIDE DEF f
<1>4. walk' \in Seq(Frame) /\ Len(walk') = 1 /\ walk'[1] = f
  BY <1>1, <1>3
<1>5. WalkInPlace'
  BY <1>1, <1>2, <1>4 DEF WalkInPlace, Live, f
<1>6. fault' \in BOOLEAN
  BY <1>1 DEF IInv, TypeOK
<1> QED
  BY <1>1, <1>4, <1>5, <1>6, WalkStep

\* What the walk looks like once its loop has gone on to the next sibling.
LEMMA AdvanceInPlace ==
  ASSUME IInv, walk # <<>>, Running.node \in Live
  PROVE  /\ Advance \in Seq(Frame)
         /\ Len(Advance) = Len(walk)
         /\ \A k \in 1..Len(walk) :
              /\ Advance[k].group = walk[k].group
              /\ Advance[k].node = IF k = Len(walk) THEN heap[Running.node].next
                                   ELSE walk[k].node
         /\ heap[Running.node].next # Null =>
              /\ heap[Running.node].next \in Live
              /\ heap[heap[Running.node].next].parent = Running.group
<1> DEFINE m == Len(walk)
           y == heap[Running.node].next
           f == [walk[m] EXCEPT !.node = y]
<1>1. /\ walk \in Seq(Frame) /\ m \in 1..Len(walk)
      /\ walk[m] \in Frame /\ Running = walk[m]
  BY EmptySeq, LenProperties, ElementOfSeq DEF IInv, TypeOK, Running
<1>2. y \in Link
  BY DEF IInv, TypeOK, NodeRecord, Live, LiveIn
<1>3. /\ Advance = [walk EXCEPT ![m] = f]
      /\ f \in Frame /\ f.group = walk[m].group /\ f.node = y
  BY <1>1, <1>2 DEF Advance, Frame
<1> HIDE DEF f, y
<1>4. /\ Advance \in Seq(Frame)
      /\ Len(Advance) = Len(walk)
      /\ \A k \in 1..Len(walk) : Advance[k] = IF k = m THEN f ELSE walk[k]
  BY <1>1, <1>3, ExceptSeq
<1>5. heap[Running.node].parent = Running.group
  BY <1>1, NodesArePositive DEF IInv, WalkInPlace, Live, LiveIn
<1>6. y # Null => y \in Live /\ heap[y].parent = Running.group
  BY <1>5 DEF IInv, LinksAgree, LinksAgreeIn, y
<1> QED
  BY <1>3, <1>4, <1>6 DEF y

\* Deleting the synth the loop has reached frees no group and no sibling that a
\* caller has saved.
LEMMA SynthStepKeepsIInv ==
  ASSUME IInv, g_freeAll_synth
  PROVE  IInv'
<1> DEFINE n == Running.node
           m == Len(walk)
<1>1. /\ walk # <<>> /\ n \in Live /\ heap[n].kind = "synth"
      /\ walk' = Advance /\ UNCHANGED <<top, fault>>
      /\ node_map' = [node_map EXCEPT ![heap[n].id] = Null]
  BY DEF g_freeAll_synth, IsKind, Live, LiveIn
<1>2. PICK S \in SUBSET Node : IsSubtree(S, n, heap) /\ heap' = Delete(heap, n, S)
  BY DEF g_freeAll_synth
<1>3. /\ heap' \in Heaps /\ node_map' \in [Id -> Link]
      /\ Live' = Live \ {n}
      /\ \A x \in Live' : /\ heap'[x].parent = heap[x].parent
                          /\ heap'[x].kind = heap[x].kind
      /\ LinksAgree' /\ BelowOlderGroup' /\ SiblingsOrdered(heap, Live)'
      /\ AllocatedSoFar' /\ MapKeyed' /\ NewestOwnsId' /\ SynthsAddressable'
      /\ RootSurvives'
  <2> HIDE DEF n
  <2> QED
    BY <1>1, <1>2, FreeSynth
<1>4. /\ walk' \in Seq(Frame) /\ Len(walk') = m
      /\ \A k \in 1..m :
           /\ walk'[k].group = walk[k].group
           /\ walk'[k].node = IF k = m THEN heap[n].next ELSE walk[k].node
      /\ heap[n].next # Null => /\ heap[n].next \in Live
                                /\ heap[heap[n].next].parent = Running.group
  BY <1>1, AdvanceInPlace
<1>5. m \in Nat /\ m >= 1 /\ Running = walk[m]
  BY <1>1, EmptySeq, LenProperties DEF IInv, TypeOK, Running
<1>6. /\ \A k \in 1..m : walk[k].group \in Node /\ walk[k].group # n
      /\ \A k \in 1..(m - 1) : walk[k].node # Null => walk[k].node # n
      /\ heap[n].next # n
  <2>1. heap[n].parent = walk[m].group
    BY <1>1, <1>5, NodesArePositive DEF IInv, WalkInPlace, Live, LiveIn
  <2>2. \A k \in 1..m : walk[k].group \in Live /\ walk[k].group \in Node
    BY DEF IInv, WalkInPlace, Live, LiveIn
  <2>3. heap[n].parent < n /\ heap[heap[n].parent].kind = "group"
    BY <1>1, <1>5, <2>1, <2>2, NodesArePositive DEF IInv, BelowOlderGroup, BelowOlderGroupIn, Live
  <2>4. \A k \in 1..(m - 1) : walk[k].group < walk[m].group
    BY <1>5 DEF IInv, WalkInPlace
  <2>5. \A k \in 1..m : walk[k].group <= walk[m].group
    <3>1. \A k \in 1..m : walk[k].group \in Nat
      BY <2>2, NodesArePositive
    <3>2. ASSUME NEW k \in 1..m PROVE k = m \/ k \in 1..(m - 1)
      BY <1>5
    <3> QED
      BY <1>5, <2>4, <3>1, <3>2
  <2>6. n \in Nat /\ \A k \in 1..m : walk[k].group \in Nat
    BY <1>1, <2>2, NodesArePositive DEF Live, LiveIn
  <2> HIDE DEF n
  <2>7. \A k \in 1..m : walk[k].group # n
    BY <2>1, <2>3, <2>5, <2>6, <1>5
  <2>8. \A k \in 1..(m - 1) : walk[k].node # Null => heap[walk[k].node].parent = walk[k].group
    BY <1>5 DEF IInv, WalkInPlace
  <2>9. \A k \in 1..(m - 1) : walk[k].node # Null => walk[k].node # n
    BY <1>5, <2>1, <2>4, <2>6, <2>8
  <2>10. heap[n].next # n
    <3>1. PICK r \in [Node -> Nat] :
            \A x \in Live : heap[x].next # Null => r[x] < r[heap[x].next]
      BY DEF IInv, SiblingsOrdered
    <3>2. n \in Node /\ n # Null /\ r[n] \in Int
      BY <1>1, NodesArePositive DEF Live, LiveIn
    <3>3. heap[n].next # Null => r[n] < r[heap[n].next]
      BY <1>1, <3>1
    <3> QED
      BY <3>2, <3>3
  <2> QED
    BY <2>2, <2>7, <2>9, <2>10
<1>7. WalkInPlace'
  <2> HIDE DEF n, m
  <2>1. ASSUME NEW k \in 1..m
        PROVE  walk'[k].group \in Live'
    BY <1>3, <1>4, <1>6, <2>1 DEF IInv, WalkInPlace, m
  <2>2. ASSUME NEW k \in 1..m, walk'[k].node # Null
        PROVE  /\ walk'[k].node \in Live'
               /\ heap'[walk'[k].node].parent = walk'[k].group
    <3>1. CASE k = m
      BY <1>3, <1>4, <1>5, <1>6, <2>2, <3>1
    <3>2. CASE k # m
      <4>1. k \in 1..(m - 1) /\ walk'[k].node = walk[k].node
        BY <1>4, <1>5, <3>2
      <4>2. walk[k].node \in Live /\ heap[walk[k].node].parent = walk[k].group
        BY <2>2, <4>1 DEF IInv, WalkInPlace, m
      <4> QED
        BY <1>3, <1>4, <1>6, <2>2, <4>1, <4>2
    <3> QED
      BY <3>1, <3>2
  <2>3. ASSUME NEW k \in 1..m, NEW j \in 1..(k - 1)
        PROVE  walk'[j].group < walk'[k].group
    <3>1. j \in 1..m
      BY <1>5
    <3> QED
      BY <1>4, <2>3, <3>1 DEF IInv, WalkInPlace, m
  <2> QED
    BY <1>4, <2>1, <2>2, <2>3 DEF WalkInPlace
<1> QED
  BY <1>1, <1>3, <1>4, <1>7 DEF IInv, TypeOK, Heaps

\* g_freeAll called on the group that the id of the child names: by NewestOwnsId
\* that group is no older than the child, so it is none of the walk's.
LEMMA GroupStepKeepsIInv ==
  ASSUME IInv, g_freeAll_group
  PROVE  IInv'
<1> DEFINE n == Running.node
           m == Len(walk)
           g == node_map[heap[n].id]
           f == [group |-> g, node |-> heap[g].start]
<1>1. /\ walk # <<>> /\ n \in Live /\ heap[n].kind = "group"
      /\ UNCHANGED <<heap, top, node_map, fault>>
      /\ \/ walk' = <<>>
         \/ walk' = Advance
         \/ /\ g \in Live /\ heap[g].start # Null
            /\ walk' = Append(Advance, f)
  BY DEF g_freeAll_group, IsKind, Live, LiveIn
<1>2. /\ Live' = Live /\ fault' \in BOOLEAN /\ heap' = heap
  BY <1>1 DEF Live, IInv, TypeOK
<1>3. /\ Advance \in Seq(Frame) /\ Len(Advance) = m
      /\ \A k \in 1..m :
           /\ Advance[k].group = walk[k].group
           /\ Advance[k].node = IF k = m THEN heap[n].next ELSE walk[k].node
      /\ heap[n].next # Null => /\ heap[n].next \in Live
                                /\ heap[heap[n].next].parent = Running.group
  BY <1>1, AdvanceInPlace
<1>4. m \in Nat /\ m >= 1 /\ Running = walk[m]
  BY <1>1, EmptySeq, LenProperties DEF IInv, TypeOK, Running
<1>5. \A k \in 1..m :
        /\ Advance[k].group \in Live
        /\ Advance[k].node # Null => /\ Advance[k].node \in Live
                                     /\ heap[Advance[k].node].parent = Advance[k].group
        /\ \A j \in 1..(k - 1) : Advance[j].group < Advance[k].group
  <2> HIDE DEF n, m
  <2>1. ASSUME NEW k \in 1..m
        PROVE  /\ walk[k].group \in Live
               /\ walk[k].node # Null => /\ walk[k].node \in Live
                                         /\ heap[walk[k].node].parent = walk[k].group
               /\ \A j \in 1..(k - 1) : walk[j].group < walk[k].group
    BY DEF IInv, WalkInPlace, m
  <2>2. ASSUME NEW k \in 1..m, NEW j \in 1..(k - 1)
        PROVE  Advance[j].group < Advance[k].group
    <3>1. j \in 1..m
      BY <1>4
    <3> QED
      BY <1>3, <2>1, <3>1
  <2>3. ASSUME NEW k \in 1..m, Advance[k].node # Null
        PROVE  /\ Advance[k].node \in Live
               /\ heap[Advance[k].node].parent = Advance[k].group
    <3>1. CASE k = m
      BY <1>3, <1>4, <2>3, <3>1
    <3>2. CASE k # m
      BY <1>3, <2>1, <2>3, <3>2
    <3> QED
      BY <3>1, <3>2
  <2> QED
    BY <1>3, <2>1, <2>2, <2>3
<1>6. CASE walk' = <<>>
  <2>1. WalkInPlace' /\ walk' \in Seq(Frame)
    BY <1>6 DEF WalkInPlace
  <2> QED
    BY <1>1, <1>2, <2>1, WalkStep
<1>7. CASE walk' = Advance
  <2> HIDE DEF m, n
  <2>1. WalkInPlace'
    BY <1>2, <1>3, <1>5, <1>7 DEF WalkInPlace
  <2> QED
    BY <1>1, <1>2, <1>3, <1>7, <2>1, WalkStep
<1>8. CASE g \in Live /\ heap[g].start # Null /\ walk' = Append(Advance, f)
  <2>1. heap[n].parent = walk[m].group /\ n \in Node /\ heap[n].id \in Id
    <3>1. n \in Node /\ n # Null /\ heap[n].id \in Id
      BY <1>1, NodesArePositive DEF IInv, TypeOK, NodeRecord, Live, LiveIn
    <3>2. m \in 1..Len(walk) /\ n = walk[m].node
      BY <1>4
    <3> QED
      BY <3>1, <3>2 DEF IInv, WalkInPlace
  <2>2. walk[m].group < n
    <3>1. walk[m].group \in Live /\ walk[m].group # Null
      BY <1>4, NodesArePositive DEF IInv, WalkInPlace, Live, LiveIn
    <3> QED
      BY <1>1, <2>1, <3>1 DEF IInv, BelowOlderGroup, BelowOlderGroupIn, Live
  <2>3. n <= g
    BY <1>1, <1>8, <2>1, NodesArePositive DEF IInv, NewestOwnsId, Live, LiveIn
  <2>4. heap[g].start \in Live /\ heap[heap[g].start].parent = g
    BY <1>8 DEF IInv, LinksAgree, LinksAgreeIn
  <2>5. f \in Frame /\ f.group = g /\ f.node = heap[g].start
    BY <1>8, <2>4 DEF Frame, Live, LiveIn, Link
  <2>6. \A j \in 1..m : walk[j].group \in Nat /\ walk[j].group <= walk[m].group
    <3>1. \A j \in 1..m : walk[j].group \in Nat
      BY NodesArePositive DEF IInv, WalkInPlace, Live, LiveIn
    <3>2. ASSUME NEW j \in 1..m PROVE j = m \/ j \in 1..(m - 1)
      BY <1>4
    <3>3. \A j \in 1..(m - 1) : walk[j].group < walk[m].group
      BY <1>4 DEF IInv, WalkInPlace
    <3> QED
      BY <1>4, <3>1, <3>2, <3>3
  <2>7. \A j \in 1..m : Advance[j].group < g
    <3>1. g \in Nat /\ n \in Nat
      BY <1>8, <2>1, NodesArePositive DEF Live, LiveIn
    <3> HIDE DEF g, n
    <3> QED
      BY <1>3, <1>4, <2>2, <2>3, <2>6, <3>1
  <2> HIDE DEF f, g, n, m
  <2>8. /\ walk' \in Seq(Frame) /\ Len(walk') = m + 1
        /\ \A k \in 1..m : walk'[k] = Advance[k]
        /\ walk'[m + 1] = f
    BY <1>3, <1>4, <1>8, <2>5, AppendProperties
  <2>9. WalkInPlace'
    <3>1. ASSUME NEW k \in 1..(m + 1)
          PROVE  /\ walk'[k].group \in Live'
                 /\ walk'[k].node # Null =>
                      /\ walk'[k].node \in Live'
                      /\ heap'[walk'[k].node].parent = walk'[k].group
                 /\ \A j \in 1..(k - 1) : walk'[j].group < walk'[k].group
      <4>1. CASE k = m + 1
        <5>1. \A j \in 1..(k - 1) : j \in 1..m
          BY <1>4, <4>1
        <5> QED
          BY <1>2, <1>8, <2>4, <2>5, <2>7, <2>8, <4>1, <5>1
      <4>2. CASE k # m + 1
        <5>1. k \in 1..m /\ \A j \in 1..(k - 1) : j \in 1..m
          BY <1>4, <4>2
        <5> QED
          BY <1>2, <1>5, <2>8, <5>1
      <4> QED
        BY <4>1, <4>2
    <3> QED
      BY <2>8, <3>1 DEF WalkInPlace
  <2> QED
    BY <1>1, <1>2, <2>8, <2>9, WalkStep
<1> QED
  BY <1>1, <1>6, <1>7, <1>8

\* Returning drops the last activation record.
LEMMA ReturnKeepsIInv ==
  ASSUME IInv, g_freeAll_return
  PROVE  IInv'
<1> DEFINE m == Len(walk)
<1>1. /\ walk # <<>> /\ walk \in Seq(Frame) /\ fault' \in BOOLEAN
      /\ walk' = SubSeq(walk, 1, m - 1)
      /\ UNCHANGED <<heap, top, node_map>> /\ Live' = Live
  BY DEF g_freeAll_return, IInv, TypeOK, Live
<1>2. m \in Nat /\ m >= 1
  BY <1>1, EmptySeq, LenProperties
<1>3. /\ walk' \in Seq(Frame) /\ Len(walk') = m - 1
      /\ \A k \in 1..(m - 1) : walk'[k] = walk[k]
  <2>1. m - 1 \in Int /\ \A i \in 1..(m - 1) : i \in 1..Len(walk)
    BY <1>2
  <2>2. \A i \in 1..(m - 1) : walk[i] \in Frame
    BY <1>1, <2>1, ElementOfSeq
  <2> HIDE DEF m
  <2>3. /\ SubSeq(walk, 1, m - 1) \in Seq(Frame)
        /\ Len(SubSeq(walk, 1, m - 1)) = IF 1 <= m - 1 THEN (m - 1) - 1 + 1 ELSE 0
        /\ \A i \in 1..((m - 1) - 1 + 1) : SubSeq(walk, 1, m - 1)[i] = walk[1 + i - 1]
    BY <2>1, <2>2, SubSeqProperties
  <2> DEFINE s == SubSeq(walk, 1, m - 1)
  <2>4. walk' = s
    BY <1>1 DEF m
  <2> HIDE DEF s
  <2>5. /\ s \in Seq(Frame) /\ Len(s) = IF 1 <= m - 1 THEN (m - 1) - 1 + 1 ELSE 0
        /\ \A i \in 1..((m - 1) - 1 + 1) : s[i] = walk[1 + i - 1]
    BY <2>3 DEF s
  <2>6. (m - 1) - 1 + 1 = m - 1 /\ \A i \in 1..(m - 1) : 1 + i - 1 = i
    BY <1>2
  <2> QED
    BY <1>2, <2>4, <2>5, <2>6
<1>4. WalkInPlace'
  <2> HIDE DEF m
  <2>1. ASSUME NEW k \in 1..(m - 1)
        PROVE  k \in 1..m /\ \A j \in 1..(k - 1) : j \in 1..(m - 1)
    BY <1>2
  <2>2. \A k \in 1..m :
          /\ walk[k].group \in Live
          /\ walk[k].node # Null => /\ walk[k].node \in Live
                                    /\ heap[walk[k].node].parent = walk[k].group
          /\ \A j \in 1..(k - 1) : walk[j].group < walk[k].group
    BY DEF IInv, WalkInPlace, m
  <2> QED
    BY <1>1, <1>3, <2>1, <2>2 DEF WalkInPlace
<1> QED
  BY <1>1, <1>3, <1>4, WalkStep

\* Reading a freed node, and doing nothing, leave the tree as it is.
LEMMA FaultKeepsIInv ==
  ASSUME IInv, UNCHANGED <<heap, top, node_map, walk>>, fault' \in BOOLEAN
  PROVE  IInv'
<1>1. WalkInPlace' /\ walk' \in Seq(Frame)
  BY DEF IInv, TypeOK, WalkInPlace, Live
<1> QED
  BY <1>1, WalkStep

-----------------------------------------------------------------------------
(* What a loop of g_freeAll has left *)

\* Of the nodes L of h, S has all synths that the loop of record f has still to
\* meet: each node of S is the one it meets next or comes right behind another.
StillToMeet(S, h, L, f) ==
  /\ S \subseteq L
  /\ \A x \in S : x # f.node => h[x].previous \in S
  /\ \A x \in L : h[x].kind = "synth" /\ h[x].parent = f.group => x \in S

Cleared == \A k \in 1..Len(walk) : \E S : StillToMeet(S, heap, Live, walk[k])

\* No nodes come right behind each other in a circle.
LEMMA NoCircle ==
  ASSUME IInv, NEW S \in SUBSET Live, \A x \in S : heap[x].previous \in S
  PROVE  S = {}
<1> SUFFICES ASSUME S # {} PROVE FALSE
  OBVIOUS
<1>1. PICK r \in [Node -> Nat] : \A x \in Live : heap[x].next # Null => r[x] < r[heap[x].next]
  BY DEF IInv, SiblingsOrdered
<1>2. S \subseteq Node /\ Null \notin Node
  BY NodesArePositive DEF Live, LiveIn
<1> DEFINE T == {r[x] : x \in S}
<1>3. T \in SUBSET Nat /\ T # {}
  BY <1>2
<1>4. PICK m \in T : \A k \in T : m <= k
  BY <1>3, LeastElement
<1>5. PICK x \in S : r[x] = m
  OBVIOUS
<1>6. PICK y : y = heap[x].previous
  OBVIOUS
<1>7. y \in S /\ y # Null /\ heap[y].next = x
  BY <1>2, <1>6 DEF IInv, LinksAgree, LinksAgreeIn
<1>8. r[y] < r[x]
  BY <1>1, <1>2, <1>7
<1> QED
  BY <1>2, <1>4, <1>5, <1>7, <1>8

\* A loop that begins has all children of the group to meet.
LEMMA AllToMeet ==
  ASSUME IInv, NEW t \in Live, NEW f, f = [group |-> t, node |-> heap[t].start]
  PROVE  \E S : StillToMeet(S, heap, Live, f)
<1>1. StillToMeet({x \in Live : heap[x].parent = t}, heap, Live, f)
  <2>1. ASSUME NEW x \in Live, heap[x].parent = t, x # heap[t].start
        PROVE  heap[x].previous \in Live /\ heap[heap[x].previous].parent = t
    <3>1. t # Null /\ x # Null
      BY NodesArePositive DEF Live, LiveIn
    <3>2. heap[x].previous # Null
      BY <2>1, <3>1 DEF IInv, LinksAgree, LinksAgreeIn
    <3>3. PICK y : y = heap[x].previous
      OBVIOUS
    <3>4. y \in Live /\ heap[y].next = x
      BY <3>2, <3>3 DEF IInv, LinksAgree, LinksAgreeIn
    <3>5. heap[x].parent = heap[y].parent
      BY <3>1, <3>4 DEF IInv, LinksAgree, LinksAgreeIn
    <3> QED
      BY <2>1, <3>3, <3>4, <3>5
  <2>2. f.group = t /\ f.node = heap[t].start
    OBVIOUS
  <2> QED
    BY <2>1, <2>2 DEF StillToMeet
<1> QED
  BY <1>1

LEMMA CallClears ==
  ASSUME IInv, NEW id \in Id, g_freeAll(id)
  PROVE  Cleared'
<1> PICK t : t = node_map[id]
  OBVIOUS
<1>1. PICK f : f = [group |-> t, node |-> heap[t].start]
  OBVIOUS
<1>2. t \in Live /\ walk' = <<f>> /\ heap' = heap /\ Live' = Live
  BY <1>1 DEF g_freeAll, IsKind, Live, LiveIn
<1>3. \E S : StillToMeet(S, heap, Live, f)
  BY <1>1, <1>2, AllToMeet
<1> QED
  BY <1>2, <1>3 DEF Cleared

\* The loop goes on from a child that is no synth, or no longer there.
LEMMA NextToMeet ==
  ASSUME IInv, NEW S, NEW f, NEW g, StillToMeet(S, heap, Live, f), g.group = f.group,
         f.node \in Live, heap[f.node].kind = "group", g.node = heap[f.node].next
  PROVE  StillToMeet(S \ {f.node}, heap, Live, g)
<1>1. f.node # Null
  BY NodesArePositive DEF Live, LiveIn
<1>2. ASSUME NEW x \in S \ {f.node}, x # g.node
      PROVE  heap[x].previous \in S \ {f.node}
  <2>1. x \in Live /\ heap[x].previous \in S
    BY <1>2 DEF StillToMeet
  <2>2. heap[x].previous = f.node => heap[f.node].next = x
    BY <1>1, <2>1 DEF IInv, LinksAgree, LinksAgreeIn
  <2> QED
    BY <1>2, <2>1, <2>2
<1> QED
  BY <1>2 DEF StillToMeet

\* A synth is deleted: its neighbours come right behind each other, which no
\* other loop minds, for it is not there that this one goes on.
LEMMA SynthStepClears ==
  ASSUME IInv, IInv', Cleared, g_freeAll_synth
  PROVE  Cleared'
<1> PICK n : n = Running.node
  OBVIOUS
<1> PICK m : m = Len(walk)
  OBVIOUS
<1>1. /\ walk # <<>> /\ n \in Live /\ heap[n].kind = "synth" /\ n # Null
      /\ walk' = Advance /\ top' = top
      /\ node_map' = [node_map EXCEPT ![heap[n].id] = Null]
  BY NodesArePositive DEF g_freeAll_synth, IsKind, Live, LiveIn
<1>2. PICK D \in SUBSET Node : IsSubtree(D, n, heap) /\ heap' = Delete(heap, n, D)
  BY DEF g_freeAll_synth
<1>3. /\ Live' = Live \ {n}
      /\ \A x \in Live' : /\ heap'[x].parent = heap[x].parent
                          /\ heap'[x].kind = heap[x].kind
                          /\ heap'[x].previous = IF x = heap[n].next THEN heap[n].previous
                                                 ELSE heap[x].previous
  BY <1>1, <1>2, FreeSynth
<1>4. /\ m \in Nat /\ Len(walk') = m /\ Len(walk) = m
      /\ \A k \in 1..m : /\ walk'[k].group = walk[k].group
                         /\ walk'[k].node = IF k = m THEN heap[n].next ELSE walk[k].node
  <2>1. m \in Nat
    BY LenProperties DEF IInv, TypeOK
  <2> QED
    BY <1>1, <2>1, AdvanceInPlace
<1>5. heap[n].previous # n
  <2>1. {n} \in SUBSET Live /\ {n} # {}
    BY <1>1
  <2> QED
    BY <2>1, NoCircle
<1>6. ASSUME NEW x \in Live, heap[x].previous = n PROVE heap[n].next = x
  BY <1>1, <1>6 DEF IInv, LinksAgree, LinksAgreeIn
<1>7. heap[n].next # Null => heap[heap[n].next].previous = n
  BY <1>1 DEF IInv, LinksAgree, LinksAgreeIn
<1>8. ASSUME NEW k \in 1..m PROVE \E S : StillToMeet(S, heap', Live', walk'[k])
  <2>1. PICK S : StillToMeet(S, heap, Live, walk[k])
    BY <1>4 DEF Cleared
  <2>2. ASSUME NEW x \in S \ {n}, x # walk'[k].node PROVE heap'[x].previous \in S \ {n}
    <3>1. x \in Live /\ x \in Live' /\ x # Null
      BY <1>3, <2>1, NodesArePositive DEF StillToMeet, Live, LiveIn
    <3>2. CASE x # heap[n].next
      <4>1. heap'[x].previous = heap[x].previous /\ heap[x].previous # n
        BY <1>3, <1>6, <3>1, <3>2
      <4>2. x # walk[k].node \/ k = m
        BY <1>4, <2>2
      <4>3. k = m => walk[k].node = n
        BY <1>4 DEF Running
      <4>4. heap[x].previous \in S
        BY <2>1, <2>2, <4>2, <4>3 DEF StillToMeet
      <4> QED
        BY <4>1, <4>4
    <3>3. CASE x = heap[n].next
      <4>1. heap'[x].previous = heap[n].previous /\ heap[x].previous = n
        BY <1>3, <1>7, <3>1, <3>3
      <4>2. k # m /\ x # walk[k].node
        BY <1>4, <2>2, <3>3
      <4>3. n \in S
        BY <2>1, <2>2, <4>1, <4>2 DEF StillToMeet
      <4>4. walk[k].node # n
        <5>1. walk'[k].node # Null => walk'[k].node \in Live'
          BY <1>4 DEF IInv, WalkInPlace
        <5> QED
          BY <1>1, <1>3, <1>4, <4>2, <5>1
      <4>5. heap[n].previous \in S
        BY <2>1, <4>3, <4>4 DEF StillToMeet
      <4> QED
        BY <1>5, <4>1, <4>5
    <3> QED
      BY <3>2, <3>3
  <2>3. S \ {n} \subseteq Live'
    BY <1>3, <2>1 DEF StillToMeet
  <2>4. \A x \in Live' : heap'[x].kind = "synth" /\ heap'[x].parent = walk'[k].group => x \in S \ {n}
    BY <1>3, <1>4, <2>1 DEF StillToMeet
  <2>5. StillToMeet(S \ {n}, heap', Live', walk'[k])
    BY <2>2, <2>3, <2>4 DEF StillToMeet
  <2> QED
    BY <2>5
<1> QED
  BY <1>4, <1>8 DEF Cleared

\* A group is passed, and the call for it has all of its own children to meet.
LEMMA GroupStepClears ==
  ASSUME IInv, Cleared, g_freeAll_group
  PROVE  Cleared'
<1> PICK n : n = Running.node
  OBVIOUS
<1> PICK m : m = Len(walk)
  OBVIOUS
<1> PICK g : g = node_map[heap[n].id]
  OBVIOUS
<1> PICK f : f = [group |-> g, node |-> heap[g].start]
  OBVIOUS
<1>1. /\ walk # <<>> /\ n \in Live /\ heap[n].kind = "group"
      /\ heap' = heap /\ Live' = Live
      /\ \/ walk' = <<>>
         \/ walk' = Advance
         \/ g \in Live /\ walk' = Append(Advance, f)
  BY DEF g_freeAll_group, IsKind, Live, LiveIn
<1>2. /\ Advance \in Seq(Frame) /\ Len(Advance) = m /\ m \in Nat
      /\ \A k \in 1..m : /\ Advance[k].group = walk[k].group
                         /\ Advance[k].node = IF k = m THEN heap[n].next ELSE walk[k].node
  <2>1. m \in Nat
    BY LenProperties DEF IInv, TypeOK
  <2> QED
    BY <1>1, <2>1, AdvanceInPlace
<1>3. ASSUME NEW k \in 1..m PROVE \E S : StillToMeet(S, heap, Live, Advance[k])
  <2>1. PICK S : StillToMeet(S, heap, Live, walk[k])
    BY <1>2 DEF Cleared
  <2>2. CASE k = m
    <3>1. walk[k].node = n
      BY <2>2 DEF Running
    <3>2. StillToMeet(S \ {walk[k].node}, heap, Live, Advance[k])
      BY <1>1, <1>2, <2>1, <2>2, <3>1, NextToMeet
    <3> QED
      BY <3>2
  <2>3. CASE k # m
    <3>1. StillToMeet(S, heap, Live, Advance[k])
      BY <1>2, <2>1, <2>3 DEF StillToMeet
    <3> QED
      BY <3>1
  <2> QED
    BY <2>2, <2>3
<1>4. CASE walk' = <<>>
  BY <1>4 DEF Cleared
<1>5. CASE walk' = Advance
  BY <1>1, <1>2, <1>3, <1>5 DEF Cleared
<1>6. CASE g \in Live /\ walk' = Append(Advance, f)
  <2>1. heap[g].start \in Link
    BY <1>6 DEF IInv, TypeOK, NodeRecord, Live, LiveIn
  <2>2. f \in Frame
    BY <1>6, <2>1 DEF Frame, Live, LiveIn
  <2>3. /\ Len(walk') = m + 1 /\ walk'[m + 1] = f
        /\ \A k \in 1..m : walk'[k] = Advance[k]
    BY <1>2, <1>6, <2>2, AppendProperties
  <2>4. PICK S : StillToMeet(S, heap, Live, f)
    BY <1>6, AllToMeet
  <2>5. ASSUME NEW k \in 1..m + 1 PROVE \E R : StillToMeet(R, heap', Live', walk'[k])
    BY <1>1, <1>2, <1>3, <2>3, <2>4
  <2> QED
    BY <2>3, <2>5 DEF Cleared
<1> QED
  BY <1>1, <1>4, <1>5, <1>6

\* A loop that has returned has nothing left.
LEMMA ReturnClears ==
  ASSUME IInv, Cleared, g_freeAll_return
  PROVE  Cleared'
<1>1. PICK m \in Nat : m = Len(walk)
  BY LenProperties DEF IInv, TypeOK
<1>2. m >= 1 /\ walk \in Seq(Frame) /\ walk' = SubSeq(walk, 1, m - 1)
      /\ heap' = heap /\ Live' = Live
  BY <1>1, EmptySeq, LenProperties DEF g_freeAll_return, IInv, TypeOK, Live
<1>3. Len(walk') = m - 1 /\ \A k \in 1..m - 1 : walk'[k] = walk[k]
  BY <1>1, <1>2
<1> QED
  BY <1>1, <1>2, <1>3 DEF Cleared

-----------------------------------------------------------------------------
(* The theorems *)

LEMMA NextKeepsIInv == IInv /\ [Next]_vars => IInv'
<1> SUFFICES ASSUME IInv, [Next]_vars PROVE IInv'
  OBVIOUS
<1>1. ASSUME NEW request \in Id \cup {NoId}, NEW target \in Id,
             NEW add_action \in AddActions, s_new(request, add_action, target)
      PROVE  IInv'
  BY <1>1, AddActionsAssumption, CreateKeepsIInv DEF s_new
<1>2. ASSUME NEW request \in Id \cup {NoId}, NEW target \in Id,
             NEW add_action \in AddActions, g_new(request, add_action, target)
      PROVE  IInv'
  BY <1>2, AddActionsAssumption, CreateKeepsIInv DEF g_new
<1>3. ASSUME NEW id \in Id, n_free(id) PROVE IInv'
  BY <1>3, NFreeKeepsIInv
<1>4. ASSUME NEW id \in Id, g_freeAll(id) PROVE IInv'
  BY <1>4, CallKeepsIInv
<1>5. ASSUME NEW id \in Id, UseFreedEntry(id) PROVE IInv'
  BY <1>5, FaultKeepsIInv DEF UseFreedEntry
<1>6. CASE g_freeAll_synth
  BY <1>6, SynthStepKeepsIInv
<1>7. CASE g_freeAll_group
  BY <1>7, GroupStepKeepsIInv
<1>8. CASE g_freeAll_return
  BY <1>8, ReturnKeepsIInv
<1>9. CASE UseFreedInWalk
  BY <1>9, FaultKeepsIInv DEF UseFreedInWalk
<1>10. CASE UNCHANGED vars
  BY <1>10, FaultKeepsIInv DEF vars, IInv, TypeOK
<1> QED
  BY <1>1, <1>2, <1>3, <1>4, <1>5, <1>6, <1>7, <1>8, <1>9, <1>10 DEF Next

LEMMA AlwaysIInv == Spec => []IInv
  BY InitIInv, NextKeepsIInv, PTL DEF Spec

\* Every step keeps what the loops have left.
LEMMA NextClears == IInv /\ Cleared /\ [Next]_vars => Cleared'
<1> SUFFICES ASSUME IInv, Cleared, [Next]_vars PROVE Cleared'
  OBVIOUS
<1>1. IInv'
  BY NextKeepsIInv
<1>2. CASE walk' = <<>>
  BY <1>2 DEF Cleared
<1>3. CASE UNCHANGED <<heap, walk>>
  BY <1>3 DEF Cleared, Live
<1>4. ASSUME NEW id \in Id, g_freeAll(id) PROVE Cleared'
  BY <1>4, CallClears
<1>5. CASE g_freeAll_synth
  BY <1>1, <1>5, SynthStepClears
<1>6. CASE g_freeAll_group
  BY <1>6, GroupStepClears
<1>7. CASE g_freeAll_return
  BY <1>7, ReturnClears
<1>8. ASSUME NEW kind, NEW request, NEW add_action, NEW target,
             Create(kind, request, add_action, target)
      PROVE  walk' = <<>>
  BY <1>8 DEF Create, Idle
<1>9. ASSUME NEW id, n_free(id) PROVE walk' = <<>>
  BY <1>9 DEF n_free, Idle
<1> QED
  BY <1>2, <1>3, <1>4, <1>5, <1>6, <1>7, <1>8, <1>9
     DEF Next, s_new, g_new, UseFreedEntry, UseFreedInWalk, vars

\* The variables keep their types.
THEOREM TypeCorrect == Spec => []TypeOK
<1>1. IInv => TypeOK
  BY DEF IInv
<1> QED
  BY <1>1, AlwaysIInv, PTL

\* The sibling lists that Node::insert and ~Node relink by hand stay well
\* formed, however many nodes there are and whichever add actions are used.
THEOREM ListsWellFormed == Spec => []LinksAgree
<1>1. IInv => LinksAgree
  BY DEF IInv
<1> QED
  BY <1>1, AlwaysIInv, PTL

\* ~Node frees all that hangs below a node: no live node is left below a freed
\* one, and parents are always older, so no chain of parents closes.
THEOREM NoOrphans == Spec => []BelowOlderGroup
<1>1. IInv => BelowOlderGroup
  BY DEF IInv
<1> QED
  BY <1>1, AlwaysIInv, PTL

\* A live synth can always be reached by its id, although ids are erased, lost
\* and granted again.
THEOREM SynthsReachable == Spec => []SynthsAddressable
<1>1. IInv => SynthsAddressable
  BY DEF IInv
<1> QED
  BY <1>1, AlwaysIInv, PTL

\* An id always names the newest of the nodes that carry it.
THEOREM IdsNameTheNewest == Spec => []NewestOwnsId
<1>1. IInv => NewestOwnsId
  BY DEF IInv
<1> QED
  BY <1>1, AlwaysIInv, PTL

\* The recursion of g_freeAll never loses the sibling it saved and never meets a
\* group twice: it is no deeper than there are nodes.
THEOREM FreeAllInPlace == Spec => []WalkKeepsItsPlace
<1>1. IInv => WalkKeepsItsPlace
  BY DEF IInv, WalkInPlace, WalkKeepsItsPlace
<1> QED
  BY <1>1, AlwaysIInv, PTL

\* When the loop of g_freeAll is through with a group, it has met every synth in
\* it, although each one it met was deleted under it and calls for groups in
\* between deleted others.
THEOREM LoopsClearGroups == Spec => []LoopClearsGroup
<1>1. Init => Cleared
  BY DEF Init, Cleared
<1>2. IInv /\ Cleared => LoopClearsGroup
  <2> SUFFICES ASSUME IInv, Cleared, NEW k \in 1..Len(walk), walk[k].node = Null,
                      NEW x \in Live, heap[x].parent = walk[k].group, heap[x].kind # "group"
               PROVE  FALSE
    BY DEF LoopClearsGroup
  <2>1. PICK S : StillToMeet(S, heap, Live, walk[k])
    BY DEF Cleared
  <2>2. heap[x].kind = "synth"
    BY DEF IInv, TypeOK, NodeRecord, Kinds, Live, LiveIn
  <2>3. S \subseteq Live /\ x \in S /\ Null \notin S
    BY <2>1, <2>2, NodesArePositive DEF StillToMeet, Live, LiveIn
  <2>4. \A y \in S : heap[y].previous \in S
    BY <2>1, <2>3 DEF StillToMeet
  <2>5. S = {}
    BY <2>3, <2>4, NoCircle
  <2> QED
    BY <2>3, <2>5
<1> QED
  BY <1>1, <1>2, AlwaysIInv, NextClears, PTL DEF Spec

\* No command removes the root group.
THEOREM RootStays == Spec => []RootSurvives
<1>1. IInv => RootSurvives
  BY DEF IInv
<1> QED
  BY <1>1, AlwaysIInv, PTL
-----------------------------------------------------------------------------
(* Without add action 4 nothing dangles *)

\* Linking a node changes the kind and the id of none.
LEMMA PlaceKeepsNames ==
  ASSUME NEW h \in Heaps, NEW a, NEW t, NEW n, NEW x \in Node
  PROVE  /\ Place(h, a, t, n)[x].kind = h[x].kind
         /\ Place(h, a, t, n)[x].id = h[x].id
         /\ {"kind", "id"} \subseteq DOMAIN Place(h, a, t, n)[x]
<1>1. ASSUME NEW p, NEW b, NEW c
      PROVE  /\ Splice(h, p, b, c, n)[x].kind = h[x].kind
             /\ Splice(h, p, b, c, n)[x].id = h[x].id
             /\ {"kind", "id"} \subseteq DOMAIN Splice(h, p, b, c, n)[x]
  <2>1. h[x] \in NodeRecord
    BY DEF Heaps
  <2>2. Splice(h, p, b, c, n)[x] = [h[x] EXCEPT
      !.parent   = IF x = n THEN p ELSE @,
      !.previous = IF x = n THEN b ELSE IF x = c THEN n ELSE @,
      !.next     = IF x = n THEN c ELSE IF x = b THEN n ELSE @,
      !.start    = IF x = p /\ b = Null THEN n ELSE @,
      !.end      = IF x = p /\ c = Null THEN n ELSE @]
    BY DEF Splice
  <2> QED
    BY <2>1, <2>2 DEF NodeRecord
<1>2. CASE a = 0
  BY <1>1, <1>2 DEF Place, push_front
<1>3. CASE a = 1
  BY <1>1, <1>3 DEF Place, push_back
<1>4. CASE a \in {2, 4}
  BY <1>1, <1>4 DEF Place, insert_before
<1>5. CASE a \notin {0, 1, 2, 4}
  BY <1>1, <1>5 DEF Place, insert_after
<1> QED
  BY <1>2, <1>3, <1>4, <1>5

\* Nor does ~Node, of the nodes it leaves.
LEMMA DeleteKeepsNames ==
  ASSUME NEW h, NEW t, NEW S, NEW x \in Node, x \notin S,
         {"kind", "id"} \subseteq DOMAIN h[x]
  PROVE  Delete(h, t, S)[x].kind = h[x].kind /\ Delete(h, t, S)[x].id = h[x].id
<1>1. Delete(h, t, S)[x] = [h[x] EXCEPT
      !.next     = IF x = h[t].previous THEN h[t].next ELSE @,
      !.previous = IF x = h[t].next THEN h[t].previous ELSE @,
      !.start    = IF x = h[t].parent /\ h[t].previous = Null THEN h[t].next ELSE @,
      !.end      = IF x = h[t].parent /\ h[t].next = Null THEN h[t].previous ELSE @]
  BY DEF Delete, Unlink
<1> QED
  BY <1>1

Created(kind, a, i, S) ==
  /\ top + 1 \in Node \ Live
  /\ node_map' = [node_map EXCEPT ![i] = top + 1]
  /\ Live' = (Live \cup {top + 1}) \ S
  /\ a # 4 => S = {}
  /\ \A x \in Live' :
       /\ heap'[x].kind = IF x = top + 1 THEN kind ELSE heap[x].kind
       /\ heap'[x].id = IF x = top + 1 THEN i ELSE heap[x].id

\* What creating a node comes to: one more node, of the kind asked for and with
\* an id that was free, and some fewer if it replaced its target.
LEMMA CreateOutcome ==
  ASSUME IInv, NEW kind \in {"synth", "group"}, NEW request, NEW a \in 0..4,
         NEW target \in Id, Create(kind, request, a, target)
  PROVE  \E i \in FreeIds, S \in SUBSET Node : Created(kind, a, i, S)
<1> DEFINE n == top + 1
           t == node_map[target]
<1>1. PICK i \in FreeIds :
        /\ n \in Node
        /\ \/ heap' = Place([heap EXCEPT ![n] = Fresh(kind, i)], a, t, n)
           \/ heap' = [heap EXCEPT ![n] = Fresh(kind, i)]
           \/ /\ a = 4
              /\ \E S \in SUBSET Node :
                   heap' = Delete(Place([heap EXCEPT ![n] = Fresh(kind, i)], 4, t, n), t, S)
        /\ node_map' = [node_map EXCEPT ![i] = n]
  BY Zenon DEF Create, Granted, next_free_id, FreeIds
<1> DEFINE h == [heap EXCEPT ![n] = Fresh(kind, i)]
<1>2. /\ h \in Heaps /\ h[n].kind = kind /\ h[n].id = i /\ i \in Id
      /\ \A x \in Node \ {n} : h[x] = heap[x]
  <2>1. Fresh(kind, i) \in NodeRecord /\ Fresh(kind, i).kind = kind /\ Fresh(kind, i).id = i
        /\ i \in Id
    BY DEF Fresh, NodeRecord, Kinds, Link, FreeIds
  <2>2. heap \in Heaps
    BY DEF IInv, TypeOK, Heaps
  <2> QED
    BY <1>1, <2>1, <2>2 DEF Heaps
<1>3. n \notin Live
  <2>1. top \in Nat /\ \A x \in Live : x \in Nat /\ x <= top
    BY NodesArePositive DEF IInv, TypeOK, AllocatedSoFar, Live, LiveIn
  <2> QED
    BY <2>1
<1> HIDE DEF h, n, t
<1>4. \A x \in Node : /\ h[x].kind = IF x = n THEN kind ELSE heap[x].kind
                      /\ h[x].id = IF x = n THEN i ELSE heap[x].id
                      /\ {"kind", "id"} \subseteq DOMAIN h[x]
  BY <1>2 DEF Heaps, NodeRecord
<1>5. \E S \in SUBSET Node :
        /\ a # 4 => S = {}
        /\ \A x \in Node :
             IF x \in S THEN heap'[x].kind = "free"
             ELSE heap'[x].kind = h[x].kind /\ heap'[x].id = h[x].id
  <2>0. ASSUME \A x \in Node : heap'[x].kind = h[x].kind /\ heap'[x].id = h[x].id
        PROVE  \E S \in SUBSET Node :
                 /\ a # 4 => S = {}
                 /\ \A x \in Node :
                      IF x \in S THEN heap'[x].kind = "free"
                      ELSE heap'[x].kind = h[x].kind /\ heap'[x].id = h[x].id
    <3>1. {} \in SUBSET Node
      OBVIOUS
    <3> WITNESS {} \in SUBSET Node
    <3> QED
      BY <2>0
  <2>1. CASE heap' = h
    BY <2>0, <2>1
  <2>2. CASE heap' = Place(h, a, t, n)
    <3>1. \A x \in Node : heap'[x].kind = h[x].kind /\ heap'[x].id = h[x].id
      BY <1>2, <2>2, PlaceKeepsNames
    <3> QED
      BY <2>0, <3>1
  <2>3. CASE a = 4 /\ \E S \in SUBSET Node : heap' = Delete(Place(h, 4, t, n), t, S)
    <3> DEFINE s == Place(h, 4, t, n)
    <3>1. PICK S \in SUBSET Node : heap' = Delete(s, t, S)
      BY <2>3
    <3>2. \A x \in Node : /\ s[x].kind = h[x].kind /\ s[x].id = h[x].id
                          /\ {"kind", "id"} \subseteq DOMAIN s[x]
      BY <1>2, PlaceKeepsNames
    <3> HIDE DEF s
    <3>3. \A x \in S : heap'[x].kind = "free"
      BY <3>1 DEF Delete, Freed, Fresh
    <3>4. \A x \in Node \ S : heap'[x].kind = s[x].kind /\ heap'[x].id = s[x].id
      BY <3>1, <3>2, DeleteKeepsNames
    <3> QED
      BY <2>3, <3>2, <3>3, <3>4
  <2> QED
    BY <1>1, <2>1, <2>2, <2>3 DEF h, n, t
<1>6. PICK S \in SUBSET Node :
        /\ a # 4 => S = {}
        /\ \A x \in Node :
             IF x \in S THEN heap'[x].kind = "free"
             ELSE heap'[x].kind = h[x].kind /\ heap'[x].id = h[x].id
  BY <1>5
<1>7. n \in Node
  BY <1>1 DEF n
<1>8. Live' = (Live \cup {n}) \ S
  BY <1>4, <1>6, <1>7 DEF Live, LiveIn
<1>9. \A x \in Live' : /\ heap'[x].kind = IF x = n THEN kind ELSE heap[x].kind
                       /\ heap'[x].id = IF x = n THEN i ELSE heap[x].id
  BY <1>4, <1>6, <1>8, <1>7 DEF Live, LiveIn
<1>10. node_map' = [node_map EXCEPT ![i] = n]
  BY <1>1 DEF n
<1> QED
  BY <1>3, <1>6, <1>7, <1>8, <1>9, <1>10 DEF n, Created

\* Short of add action 4, creating a node frees none.
LEMMA CreateFreesNone ==
  ASSUME IInv, MapLeadsToLiveNodes, NEW kind \in {"synth", "group"}, NEW request,
         NEW a \in 0..3, NEW target \in Id, Create(kind, request, a, target), IInv'
  PROVE  MapLeadsToLiveNodes'
<1>1. a # 4 /\ a \in 0..4
  OBVIOUS
<1>2. PICK i \in FreeIds, S \in SUBSET Node : Created(kind, a, i, S)
  BY <1>1, CreateOutcome
<1>3. /\ Live' = Live \cup {top + 1}
      /\ node_map' = [node_map EXCEPT ![i] = top + 1]
  BY <1>1, <1>2 DEF Created
<1>4. \A j \in Id : node_map'[j] # Null => node_map'[j] \in Live'
  BY <1>3 DEF MapLeadsToLiveNodes, IInv, TypeOK
<1> QED
  BY <1>4 DEF IInv, MapKeyed, MapLeadsToLiveNodes

\* If no client replaces nodes, every id in the map leads to a live node that
\* carries it, and no lookup and no step of g_freeAll reads a freed node.
THEOREM NothingDangles ==
  ASSUME 4 \notin AddActions
  PROVE  Spec => [](MapLeadsToLiveNodes /\ ~fault)
<1> DEFINE J == IInv /\ MapLeadsToLiveNodes /\ ~fault
<1>1. Init => J
  <2> SUFFICES ASSUME Init PROVE J
    OBVIOUS
  <2>1. IInv
    BY InitIInv
  <2>2. /\ RootNode \in Live /\ FirstNode \in Live
    <3>1. RootNode \in Node /\ FirstNode \in Node
      BY BoundsAssumption DEF RootNode, FirstNode, Node
    <3>2. heap = Splice([x \in Node |-> IF x = RootNode THEN Fresh("group", RootId)
                                ELSE IF x = FirstNode THEN Fresh("group", RootId + 1)
                                ELSE Freed], RootNode, Null,
                        [x \in Node |-> IF x = RootNode THEN Fresh("group", RootId)
                                ELSE IF x = FirstNode THEN Fresh("group", RootId + 1)
                                ELSE Freed][RootNode].start, FirstNode)
      BY DEF Init, push_front
    <3>3. heap[RootNode].kind = "group" /\ heap[FirstNode].kind = "group"
      BY <3>1, <3>2 DEF Splice, Fresh, RootNode, FirstNode
    <3> QED
      BY <3>1, <3>3 DEF Live, LiveIn
  <2>3. MapLeadsToLiveNodes
    BY <2>1, <2>2 DEF Init, MapLeadsToLiveNodes, IInv, MapKeyed
  <2> QED
    BY <2>1, <2>3 DEF Init
<1>2. J /\ [Next]_vars => J'
  <2> SUFFICES ASSUME J, [Next]_vars PROVE J'
    OBVIOUS
  <2>1. IInv'
    BY NextKeepsIInv
  <2>2. \A x \in Node : IsDangling(x) => x \notin Live
    BY DEF IsDangling, IsKind, Live, LiveIn
  <2>3. \A i \in Id : ~IsDangling(node_map[i])
    BY <2>2, NodesArePositive DEF MapLeadsToLiveNodes, IsDangling, IsKind
  <2>4. walk # <<>> => ~IsDangling(Running.node)
    <3> SUFFICES ASSUME walk # <<>> PROVE ~IsDangling(Running.node)
      OBVIOUS
    <3>1. Len(walk) \in 1..Len(walk)
      BY EmptySeq, LenProperties DEF IInv, TypeOK
    <3> QED
      BY <2>2, <3>1, NodesArePositive DEF IInv, WalkInPlace, Running, IsDangling, IsKind
  <2>5. \A x \in Node : heap[x].id \in Id
    BY DEF IInv, TypeOK, NodeRecord
  <2>6. ASSUME NEW request \in Id \cup {NoId}, NEW target \in Id,
               NEW a \in AddActions, NEW kind \in {"synth", "group"},
               Create(kind, request, a, target)
        PROVE  J'
    <3>1. a \in 0..3
      BY AddActionsAssumption
    <3>2. fault' = fault
      BY <2>6 DEF Create
    <3> QED
      BY <2>1, <2>6, <3>1, <3>2, CreateFreesNone
  <2>7. ASSUME UNCHANGED <<heap, node_map>>, fault' = fault PROVE J'
    BY <2>1, <2>7 DEF MapLeadsToLiveNodes, Live
  <2>8. ASSUME NEW n \in Live, heap[n].kind = "synth", fault' = fault, top' = top,
               NEW S \in SUBSET Node, IsSubtree(S, n, heap), heap' = Delete(heap, n, S),
               node_map' = [node_map EXCEPT ![heap[n].id] = Null]
        PROVE  J'
    <3>1. Live' = Live \ {n}
      BY <2>8, FreeSynth
    <3>2. heap[n].id \in Id /\ node_map \in [Id -> Link]
      BY <2>5 DEF Live, LiveIn, IInv, TypeOK
    <3>3. \A j \in Id : node_map'[j] # Null => node_map'[j] \in Live'
      BY <2>8, <3>1, <3>2 DEF MapLeadsToLiveNodes
    <3> QED
      BY <2>1, <2>8, <3>3 DEF MapLeadsToLiveNodes, IInv, MapKeyed
  <2>9. ASSUME NEW request \in Id \cup {NoId}, NEW target \in Id, NEW a \in AddActions,
               s_new(request, a, target) \/ g_new(request, a, target)
        PROVE  J'
    BY <2>6, <2>9 DEF s_new, g_new
  <2>10. ASSUME NEW id \in Id, n_free(id) PROVE J'
    <3> DEFINE t == node_map[id]
    <3>1. /\ t \in Live /\ heap[t].id = id /\ fault' = fault /\ top' = top
          /\ node_map' = [node_map EXCEPT ![id] = Null]
      BY <2>10 DEF n_free, IInv, MapKeyed
    <3>2. CASE heap[t].kind = "synth"
      <4>1. PICK S \in SUBSET Node : IsSubtree(S, t, heap) /\ heap' = Delete(heap, t, S)
        BY <2>10, <3>2 DEF n_free
      <4> HIDE DEF t
      <4> QED
        BY <2>8, <3>1, <3>2, <4>1
    <3>3. CASE heap[t].kind # "synth"
      <4>1. heap' = heap /\ Live' = Live
        BY <2>10, <3>3 DEF n_free, Live
      <4>2. node_map \in [Id -> Link]
        BY DEF IInv, TypeOK
      <4> HIDE DEF t
      <4>3. \A j \in Id : node_map'[j] # Null => node_map'[j] \in Live'
        BY <3>1, <4>1, <4>2 DEF MapLeadsToLiveNodes
      <4> QED
        BY <2>1, <3>1, <4>3 DEF MapLeadsToLiveNodes, IInv, MapKeyed
    <3> QED
      BY <3>2, <3>3
  <2>11. ASSUME NEW id \in Id, g_freeAll(id) PROVE J'
    BY <2>7, <2>11 DEF g_freeAll
  <2>12. CASE g_freeAll_synth
    <3> DEFINE n == Running.node
    <3>1. /\ n \in Live /\ heap[n].kind = "synth" /\ fault' = fault /\ top' = top
          /\ node_map' = [node_map EXCEPT ![heap[n].id] = Null]
      BY <2>12 DEF g_freeAll_synth, IsKind, Live, LiveIn
    <3>2. PICK S \in SUBSET Node : IsSubtree(S, n, heap) /\ heap' = Delete(heap, n, S)
      BY <2>12 DEF g_freeAll_synth
    <3> HIDE DEF n
    <3> QED
      BY <2>8, <3>1, <3>2
  <2>13. CASE g_freeAll_group \/ g_freeAll_return \/ UNCHANGED vars
    BY <2>7, <2>13 DEF g_freeAll_group, g_freeAll_return, vars
  <2>14. ASSUME NEW id \in Id PROVE ~UseFreedEntry(id)
    BY <2>3 DEF UseFreedEntry
  <2>15. ~UseFreedInWalk
    BY <2>3, <2>4, <2>5 DEF UseFreedInWalk, IsKind
  <2> QED
    BY <2>9, <2>10, <2>11, <2>12, <2>13, <2>14, <2>15 DEF Next
<1>3. J => MapLeadsToLiveNodes /\ ~fault
  OBVIOUS
<1> QED
  BY <1>1, <1>2, <1>3, PTL DEF Spec
-----------------------------------------------------------------------------
(* The tree implements SynthIds *)

SynthNodes == {n \in Live : heap[n].kind = "synth"}
Named == [x \in SynthNodes |-> heap[x].id]

\* Where the synths that stay keep their ids, it is a step of SynthIds!Free.
LEMMA SynthsGo ==
  ASSUME SynthNodes' \subseteq SynthNodes, \A x \in SynthNodes' : heap'[x].id = heap[x].id
  PROVE  Synths!Free
<1>1. /\ DOMAIN Named = SynthNodes /\ \A x \in SynthNodes : Named[x] = heap[x].id
      /\ Named' = [x \in SynthNodes' |-> heap'[x].id]
  BY DEF Named
<1>2. Named' = [s \in DOMAIN Named \ (SynthNodes \ SynthNodes') |-> Named[s]]
  BY <1>1
<1>3. \E S \in SUBSET DOMAIN Named : Named' = [s \in DOMAIN Named \ S |-> Named[s]]
  BY <1>1, <1>2
<1> QED
  BY <1>3 DEF Synths!Free, Named, SynthNodes

\* A new node that is a synth is a step of SynthIds!New, for its id was in no
\* map entry and all synths are in theirs; any other frees synths at most.
LEMMA CreateImplements ==
  ASSUME IInv, NEW kind \in {"synth", "group"}, NEW request, NEW a \in 0..4,
         NEW target \in Id, Create(kind, request, a, target)
  PROVE  Synths!Next
<1> DEFINE n == top + 1
<1>0. PICK i \in FreeIds, S \in SUBSET Node : Created(kind, a, i, S)
  BY CreateOutcome
<1>1. /\ n \in Node \ Live
      /\ Live' = (Live \cup {n}) \ S
      /\ \A x \in Live' :
           /\ heap'[x].kind = IF x = n THEN kind ELSE heap[x].kind
           /\ heap'[x].id = IF x = n THEN i ELSE heap[x].id
  BY <1>0 DEF Created
<1> HIDE DEF n
<1>2. CASE kind = "synth" /\ n \notin S
  <2>1. /\ DOMAIN Named = SynthNodes /\ \A x \in SynthNodes : Named[x] = heap[x].id
        /\ Named' = [x \in SynthNodes' |-> heap'[x].id]
    BY DEF Named
  <2>2. SynthNodes' = (SynthNodes \ (S \cap SynthNodes)) \cup {n}
    BY <1>1, <1>2 DEF SynthNodes
  <2>3. n \notin SynthNodes
    BY <1>1 DEF SynthNodes
  <2>4. \A x \in SynthNodes' : heap'[x].id = IF x = n THEN i ELSE heap[x].id
    BY <1>1 DEF SynthNodes
  <2>5. Named' = [x \in (DOMAIN Named \ (S \cap SynthNodes)) \cup {n} |->
                     IF x = n THEN i ELSE Named[x]]
    BY <2>1, <2>2, <2>3, <2>4
  <2>6. i \in Id \ Range(Named)
    <3>1. i \in Id /\ node_map[i] = Null
      BY DEF FreeIds
    <3>2. ASSUME NEW x \in SynthNodes PROVE heap[x].id # i
      <4>1. x \in Live /\ node_map[heap[x].id] = x /\ x # Null
        BY NodesArePositive DEF IInv, SynthsAddressable, SynthNodes, Live, LiveIn
      <4> QED
        BY <3>1, <4>1
    <3> QED
      BY <2>1, <3>1, <3>2 DEF Range
  <2>7. \E s \in Node \ DOMAIN Named, j \in Id \ Range(Named) :
          \E T \in SUBSET DOMAIN Named :
            Named' = [x \in (DOMAIN Named \ T) \cup {s} |-> IF x = s THEN j ELSE Named[x]]
    <3> n \in Node \ DOMAIN Named /\ S \cap SynthNodes \in SUBSET DOMAIN Named
      BY <1>1, <2>1, <2>3
    <3> i \in Id \ Range(Named)
      BY <2>6
    <3> WITNESS n \in Node \ DOMAIN Named, i \in Id \ Range(Named)
    <3> WITNESS S \cap SynthNodes \in SUBSET DOMAIN Named
    <3> QED
      BY <2>5
  <2> QED
    BY <2>7 DEF Synths!Next, Synths!New, Range, Synths!Range, Named, SynthNodes
<1>3. CASE ~(kind = "synth" /\ n \notin S)
  <2>1. /\ SynthNodes' \subseteq SynthNodes
        /\ \A x \in SynthNodes' : heap'[x].id = heap[x].id
    BY <1>1, <1>3 DEF SynthNodes
  <2> QED
    BY <2>1, SynthsGo DEF Synths!Next
<1> QED
  BY <1>2, <1>3

\* Deleting a synth is a step of SynthIds!Free.
LEMMA DeleteImplements ==
  ASSUME IInv, NEW n \in Node, NEW S \in SUBSET Node, heap' = Delete(heap, n, S)
  PROVE  Synths!Next
<1>1. Deleted(heap', heap, n, S)
  BY DeleteFields DEF IInv, TypeOK, Heaps
<1>2. /\ SynthNodes' \subseteq SynthNodes
      /\ \A x \in SynthNodes' : heap'[x].id = heap[x].id
  BY <1>1 DEF Deleted, SynthNodes, Live, LiveIn, Freed, Fresh
<1> QED
  BY <1>2, SynthsGo DEF Synths!Next

\* Pointers, map, groups and the recursion of g_freeAll come to no more than
\* creating and freeing uniquely named synths.
THEOREM TreeImplementsSynthIds == Spec => ImplementsSynthIds
<1>1. Init => Synths!Init
  <2> SUFFICES ASSUME Init PROVE Synths!Init
    OBVIOUS
  <2>1. IInv
    BY InitIInv
  <2>2. \A x \in Live : heap[x].kind # "synth"
    <3>1. ASSUME NEW x \in Live PROVE x = RootNode \/ x = FirstNode
      BY DEF Init, push_front, Splice, Freed, Fresh, Live, LiveIn
    <3>2. IsKind(RootNode, "group")
      BY <2>1 DEF IInv, RootSurvives
    <3>3. heap[FirstNode].kind = "group"
      <4>1. FirstNode \in Node /\ RootNode \in Node
        BY BoundsAssumption DEF FirstNode, RootNode, Node
      <4> QED
        BY <4>1 DEF Init, push_front, Splice, Fresh, FirstNode, RootNode
    <3> QED
      BY <2>1, <3>1, <3>2, <3>3 DEF IsKind
  <2> QED
    BY <2>2 DEF Synths!Init
<1>2. IInv /\ [Next]_vars => [Synths!Next]_Named
  <2> SUFFICES ASSUME IInv, [Next]_vars PROVE [Synths!Next]_Named
    OBVIOUS
  <2>1. ASSUME NEW request \in Id \cup {NoId}, NEW target \in Id, NEW a \in AddActions,
               s_new(request, a, target) \/ g_new(request, a, target)
        PROVE  Synths!Next
    BY <2>1, AddActionsAssumption, CreateImplements DEF s_new, g_new
  <2>2. ASSUME UNCHANGED heap PROVE UNCHANGED Named
    BY <2>2 DEF Named, SynthNodes, Live
  <2>3. ASSUME NEW id \in Id, n_free(id) PROVE [Synths!Next]_Named
    <3>1. node_map[id] \in Node
      BY <2>3 DEF n_free, Live, LiveIn
    <3> QED
      BY <2>2, <2>3, <3>1, DeleteImplements DEF n_free
  <2>4. CASE g_freeAll_synth
    <3>1. Running.node \in Node
      BY <2>4 DEF g_freeAll_synth, IsKind
    <3> QED
      BY <2>4, <3>1, DeleteImplements DEF g_freeAll_synth
  <2>5. ASSUME NEW id \in Id, g_freeAll(id) \/ UseFreedEntry(id) PROVE UNCHANGED Named
    BY <2>2, <2>5 DEF g_freeAll, UseFreedEntry
  <2>6. CASE g_freeAll_group \/ g_freeAll_return \/ UseFreedInWalk \/ UNCHANGED vars
    BY <2>2, <2>6 DEF g_freeAll_group, g_freeAll_return, UseFreedInWalk, vars
  <2> QED
    BY <2>1, <2>3, <2>4, <2>5, <2>6 DEF Next
<1>3. ImplementsSynthIds <=> Synths!Init /\ [][Synths!Next]_Named
  BY DEF ImplementsSynthIds, Synths!Spec, Named, SynthNodes
<1> QED
  BY <1>1, <1>2, <1>3, AlwaysIInv, PTL DEF Spec

-----------------------------------------------------------------------------
(* Of the tree, as the walks meet it *)

\* What the invariant says of a live node and those around it.
LEMMA Neighbours ==
  ASSUME IInv, NEW x \in Live
  PROVE  /\ x \in Node /\ x \in Nat /\ x # Null
         /\ heap[x].next # Null => /\ heap[x].next \in Live
                                   /\ heap[heap[x].next].previous = x
                                   /\ heap[heap[x].next].parent = heap[x].parent
         /\ heap[x].previous # Null => /\ heap[x].previous \in Live
                                       /\ heap[heap[x].previous].next = x
                                       /\ heap[heap[x].previous].parent = heap[x].parent
         /\ heap[x].start # Null => /\ heap[x].start \in Live
                                    /\ heap[heap[x].start].parent = x
                                    /\ heap[heap[x].start].previous = Null
         /\ heap[x].parent # Null => /\ heap[x].parent \in Live
                                     /\ heap[heap[x].parent].kind = "group"
                                     /\ heap[x].parent \in Nat /\ heap[x].parent < x
                                     /\ heap[x].previous = Null => heap[heap[x].parent].start = x
         /\ heap[x].parent = Null => heap[x].next = Null /\ heap[x].previous = Null
<1>1. x \in Node /\ x \in Nat /\ x # Null
  BY NodesArePositive DEF Live, LiveIn
<1>2. \A y \in Live : LET l == heap[y] IN
        /\ l.next # Null => /\ l.next \in Live
                            /\ heap[l.next].previous = y
                            /\ heap[l.next].parent = l.parent
        /\ l.previous # Null => /\ l.previous \in Live
                                /\ heap[l.previous].next = y
        /\ l.start # Null => /\ l.start \in Live
                             /\ heap[l.start].parent = y
                             /\ heap[l.start].previous = Null
        /\ l.parent # Null => (l.previous = Null => heap[l.parent].start = y)
        /\ l.parent = Null => l.next = Null /\ l.previous = Null
  BY DEF IInv, LinksAgree, LinksAgreeIn
<1>3. heap[x].parent # Null => /\ heap[x].parent \in Live
                               /\ heap[heap[x].parent].kind = "group"
                               /\ heap[x].parent < x
  BY DEF IInv, BelowOlderGroup, BelowOlderGroupIn, Live
<1>4. heap[x].parent # Null => heap[x].parent \in Nat
  BY <1>3, NodesArePositive DEF Live, LiveIn
<1>5. heap[x].previous # Null => heap[heap[x].previous].parent = heap[x].parent
  BY <1>1, <1>2
<1> QED
  BY <1>1, <1>2, <1>3, <1>4, <1>5

LEMMA RootIsAlone ==
  ASSUME IInv
  PROVE  /\ RootNode \in Live /\ RootNode = 1
         /\ heap[RootNode].parent = Null /\ heap[RootNode].next = Null /\ heap[RootNode].previous = Null
<1>1. RootNode \in Live /\ heap[RootNode].parent = Null
  BY DEF IInv, RootSurvives, IsKind, Live, LiveIn
<1> QED
  BY <1>1, Neighbours DEF RootNode

\* A group whose children, if there are any that are in S, come behind others of
\* S has none in S.
LEMMA NoneLeft ==
  ASSUME IInv, NEW S, NEW p \in Live,
         \A x \in Live : x \in S /\ heap[x].parent = p => heap[x].previous \in S /\ heap[x].previous # Null
  PROVE  \A x \in Live : heap[x].parent = p => x \notin S
<1> DEFINE C == {x \in Live : x \in S /\ heap[x].parent = p}
<1>1. \A x \in C : heap[x].previous \in C
  BY Neighbours
<1>2. C = {}
  BY <1>1, NoCircle
<1> QED
  BY <1>2

LEMMA NoChildren ==
  ASSUME IInv, NEW p \in Live, heap[p].start = Null
  PROVE  \A x \in Live : heap[x].parent # p
<1>1. \A x \in Live : x \in Live /\ heap[x].parent = p => heap[x].previous \in Live /\ heap[x].previous # Null
  BY Neighbours
<1> QED
  BY <1>1, NoneLeft

\* Each node has a subtree: the least set with the node and all children.
LEMMA SubtreeExists ==
  ASSUME NEW n \in Live
  PROVE  /\ Subtree(n) \in SUBSET Live /\ n \in Subtree(n)
         /\ \A x \in Live \ {n} : x \in Subtree(n) <=> heap[x].parent \in Subtree(n)
         /\ IsSubtree(Subtree(n), n, heap)
<1> DEFINE Full(T) == n \in T /\ \A x \in Live : heap[x].parent \in T => x \in T
           S == {x \in Live : \A T \in SUBSET Live : Full(T) => x \in T}
<1>1. n \in S /\ S \in SUBSET Live
  OBVIOUS
<1>2. \A x \in Live : heap[x].parent \in S => x \in S
  OBVIOUS
<1>3. ASSUME NEW x \in S \ {n}, heap[x].parent \notin S PROVE FALSE
  <2>1. Full(S \ {x})
    BY <1>1, <1>2, <1>3
  <2>2. S \ {x} \in SUBSET Live
    OBVIOUS
  <2> HIDE DEF Full
  <2> QED
    BY <2>1, <2>2
<1> HIDE DEF S
<1>4. \E T \in SUBSET Live : IsSubtree(T, n, heap)
  BY <1>1, <1>2, <1>3 DEF IsSubtree, Live
<1>5. Subtree(n) \in SUBSET Live /\ IsSubtree(Subtree(n), n, heap)
  BY <1>4 DEF Subtree
<1> QED
  BY <1>5 DEF IsSubtree, Live

LEMMA OldestInSubtree ==
  ASSUME IInv, NEW n \in Live
  PROVE  \A x \in Subtree(n) : n <= x
<1>1. heap \in Heaps /\ BelowOlderGroupIn(heap) /\ n \in Node
  BY DEF IInv, TypeOK, Heaps, BelowOlderGroup, Live, LiveIn
<1>2. Subtree(n) \in SUBSET Node /\ IsSubtree(Subtree(n), n, heap)
  BY SubtreeExists DEF Live, LiveIn
<1> QED
  BY <1>1, <1>2, SubtreeRootOldest

\* A set of live nodes that is not empty has an oldest one.
LEMMA OldestNode ==
  ASSUME NEW W \in SUBSET Live, W # {}
  PROVE  \E x \in W : \A y \in W : x <= y
<1>1. W \in SUBSET Nat
  BY NodesArePositive DEF Live, LiveIn
<1> QED
  BY <1>1, LeastElement

LEMMA SubtreeInSubtree ==
  ASSUME IInv, NEW n \in Live, NEW m \in Subtree(n)
  PROVE  Subtree(m) \subseteq Subtree(n)
<1>0. m \in Live
  BY SubtreeExists
<1> SUFFICES ASSUME Subtree(m) \ Subtree(n) # {} PROVE FALSE
  OBVIOUS
<1>1. PICK x \in Subtree(m) \ Subtree(n) : \A y \in Subtree(m) \ Subtree(n) : x <= y
  BY <1>0, SubtreeExists, OldestNode
<1>2. x \in Live /\ x # m /\ x # n
  BY <1>0, SubtreeExists
<1>3. heap[x].parent \in Subtree(m) /\ heap[x].parent \notin Subtree(n)
  BY <1>0, <1>1, <1>2, SubtreeExists
<1>4. heap[x].parent \in Live /\ heap[x].parent # Null
  BY <1>0, <1>3, SubtreeExists, NodesArePositive DEF Live, LiveIn
<1>5. heap[x].parent < x /\ x \in Nat /\ heap[x].parent \in Nat
  BY <1>2, <1>4, Neighbours
<1> QED
  BY <1>1, <1>3, <1>5

\* The tree: whose parent is in it is in it, and so are siblings.
LEMMA TreeHas ==
  ASSUME IInv
  PROVE  /\ InTree \in SUBSET Live /\ RootNode \in InTree
         /\ \A x \in Live : heap[x].parent \in InTree => x \in InTree
         /\ \A x \in InTree \ {RootNode} : heap[x].parent \in InTree
         /\ \A x \in InTree : heap[x].next # Null => heap[x].next \in InTree /\ heap[x].parent \in InTree
         /\ \A x \in InTree : heap[x].previous # Null => heap[x].previous \in InTree
<1>1. RootNode \in Live /\ heap[RootNode].parent = Null /\ heap[RootNode].next = Null
      /\ heap[RootNode].previous = Null
  BY RootIsAlone
<1>2. /\ InTree \in SUBSET Live /\ RootNode \in InTree
      /\ \A x \in Live \ {RootNode} : x \in InTree <=> heap[x].parent \in InTree
  BY <1>1, SubtreeExists DEF InTree
<1>3. \A x \in InTree \ {RootNode} : heap[x].parent \in InTree
  BY <1>2
<1>4. \A x \in InTree : heap[x].next # Null => heap[x].next \in InTree /\ heap[x].parent \in InTree
  BY <1>1, <1>2, <1>3, Neighbours
<1>5. \A x \in InTree : heap[x].previous # Null => heap[x].previous \in InTree
  BY <1>1, <1>2, <1>3, Neighbours
<1> QED
  BY <1>2, <1>3, <1>4, <1>5

-----------------------------------------------------------------------------
(* Stacks *)

Stack == Seq(Node) \ {<<>>}

LEMMA StackFacts ==
  ASSUME NEW s \in Stack
  PROVE  /\ Len(s) \in Nat /\ Len(s) >= 1 /\ s \in Seq(Node)
         /\ Top(s) = s[Len(s)] /\ Top(s) \in Node
         /\ \A i \in 1..Len(s) : s[i] \in Node
  BY DEF Stack, Top, Last

LEMMA Pushed ==
  ASSUME NEW s \in Seq(Node), NEW n \in Node
  PROVE  /\ Append(s, n) \in Stack /\ Len(Append(s, n)) = Len(s) + 1
         /\ \A i \in 1..Len(s) : Append(s, n)[i] = s[i]
         /\ Append(s, n)[Len(s) + 1] = n /\ Top(Append(s, n)) = n
<1>1. /\ Append(s, n) \in Seq(Node) /\ Append(s, n) # <<>>
      /\ Len(Append(s, n)) = Len(s) + 1
      /\ \A i \in 1..Len(s) : Append(s, n)[i] = s[i]
      /\ Append(s, n)[Len(s) + 1] = n
  BY AppendProperties
<1> QED
  BY <1>1 DEF Stack, Top, Last

LEMMA Popped ==
  ASSUME NEW s \in Stack
  PROVE  /\ Pop(s) \in Seq(Node) /\ Len(Pop(s)) = Len(s) - 1
         /\ \A i \in 1..Len(s) - 1 : Pop(s)[i] = s[i]
<1>1. Len(s) \in Nat /\ Len(s) >= 1 /\ \A i \in 1..Len(s) : s[i] \in Node
  BY StackFacts
<1>2. \A i \in 1..Len(s) - 1 : s[i] \in Node
  BY <1>1
<1>3. /\ SubSeq(s, 1, Len(s) - 1) \in Seq(Node)
      /\ Len(SubSeq(s, 1, Len(s) - 1)) = IF 1 <= Len(s) - 1 THEN Len(s) - 1 - 1 + 1 ELSE 0
      /\ \A i \in 1..(Len(s) - 1 - 1 + 1) : SubSeq(s, 1, Len(s) - 1)[i] = s[1 + i - 1]
  BY <1>1, <1>2, SubSeqProperties
<1>4. PICK p : p = SubSeq(s, 1, Len(s) - 1)
  OBVIOUS
<1>5. Pop(s) = p
  BY <1>4 DEF Pop, Front
<1>6. /\ p \in Seq(Node) /\ Len(p) = Len(s) - 1
      /\ \A i \in 1..Len(s) - 1 : p[i] = s[i]
  <2>1. \A i \in 1..Len(s) - 1 : i \in 1..(Len(s) - 1 - 1 + 1) /\ 1 + i - 1 = i
    BY <1>1
  <2>2. p \in Seq(Node) /\ \A i \in 1..(Len(s) - 1 - 1 + 1) : p[i] = s[1 + i - 1]
    BY <1>3, <1>4
  <2>3. Len(p) = IF 1 <= Len(s) - 1 THEN Len(s) - 1 - 1 + 1 ELSE 0
    BY <1>3, <1>4
  <2>4. Len(p) = Len(s) - 1
    <3>1. PICK m \in Nat : m = Len(s)
      BY <1>1
    <3>2. PICK l : l = Len(p)
      OBVIOUS
    <3>3. m >= 1 /\ l = IF 1 <= m - 1 THEN m - 1 - 1 + 1 ELSE 0
      BY <1>1, <2>3, <3>1, <3>2
    <3>4. l = m - 1
      BY <3>3
    <3> QED
      BY <3>1, <3>2, <3>4
  <2>5. \A i \in 1..Len(s) - 1 : p[i] = s[i]
    <3> TAKE i \in 1..Len(s) - 1
    <3>1. p[i] = s[1 + i - 1]
      BY <2>1, <2>2
    <3> QED
      BY <2>1, <3>1
  <2> QED
    BY <2>2, <2>4, <2>5
<1> QED
  BY <1>5, <1>6

LEMMA TopIsSet ==
  ASSUME NEW s \in Stack, NEW n \in Node
  PROVE  /\ SetTop(s, n) \in Stack /\ Len(SetTop(s, n)) = Len(s)
         /\ \A i \in 1..Len(s) - 1 : SetTop(s, n)[i] = s[i]
         /\ SetTop(s, n)[Len(s)] = n /\ Top(SetTop(s, n)) = n
<1>1. SetTop(s, n) = Append(Pop(s), n)
  BY DEF SetTop, Pop
<1>2. PICK p : p = Pop(s)
  OBVIOUS
<1>3. p \in Seq(Node) /\ Len(p) = Len(s) - 1 /\ \A i \in 1..Len(s) - 1 : p[i] = s[i]
  BY <1>2, Popped
<1>4. Len(s) \in Nat /\ Len(s) >= 1
  BY StackFacts
<1>5. /\ Append(p, n) \in Stack /\ Len(Append(p, n)) = Len(p) + 1
      /\ \A i \in 1..Len(p) : Append(p, n)[i] = p[i]
      /\ Append(p, n)[Len(p) + 1] = n /\ Top(Append(p, n)) = n
  BY <1>3, Pushed
<1> QED
  BY <1>1, <1>2, <1>3, <1>4, <1>5

\* The stack of an iterator leads from the root down: each node is the parent of
\* the next.
Path(s) ==
  /\ s \in Stack /\ s[1] = RootNode
  /\ \A i \in 1..Len(s) : s[i] \in InTree
  /\ \A i \in 2..Len(s) : heap[s[i]].parent = s[i - 1]

LEMMA PathFacts ==
  ASSUME IInv, NEW s, Path(s)
  PROVE  /\ s \in Stack /\ Len(s) \in Nat /\ Len(s) >= 1
         /\ Top(s) = s[Len(s)] /\ s[1] = RootNode
         /\ \A i \in 1..Len(s) : s[i] \in InTree /\ s[i] \in Live /\ s[i] \in Nat
         /\ \A i, j \in 1..Len(s) : i < j => s[i] < s[j]
<1>1. /\ s \in Stack /\ Len(s) \in Nat /\ Len(s) >= 1 /\ Top(s) = s[Len(s)] /\ s[1] = RootNode
      /\ \A i \in 1..Len(s) : s[i] \in InTree
      /\ \A i \in 2..Len(s) : heap[s[i]].parent = s[i - 1]
  BY StackFacts DEF Path
<1>2. \A i \in 1..Len(s) : s[i] \in Live /\ s[i] \in Nat
  BY <1>1, TreeHas, Neighbours
<1>3. \A i \in 2..Len(s) : s[i - 1] < s[i]
  <2> TAKE i \in 2..Len(s)
  <2>1. i - 1 \in 1..Len(s) /\ i \in 1..Len(s)
    BY <1>1
  <2>2. s[i] \in Live /\ s[i - 1] \in Live /\ heap[s[i]].parent = s[i - 1]
    BY <1>1, <1>2, <2>1
  <2>3. s[i - 1] # Null
    BY <2>2, Neighbours
  <2> QED
    BY <2>2, <2>3, Neighbours
<1>4. ASSUME NEW i \in 1..Len(s) PROVE \A j \in 1..Len(s) : i < j => s[i] < s[j]
  <2> DEFINE T == {k \in 0..Len(s) : \A j \in 1..k : i < j => s[i] < s[j]}
  <2>1. 0 \in T
    BY <1>1
  <2>2. ASSUME NEW k \in 1..Len(s), k - 1 \in T PROVE k \in T
    <3> SUFFICES ASSUME NEW j \in 1..k, i < j PROVE s[i] < s[j]
      BY <1>1
    <3>1. CASE j < k
      BY <1>1, <2>2, <3>1
    <3>2. CASE j = k
      <4>1. k \in 2..Len(s) /\ k - 1 \in 1..Len(s)
        BY <1>1, <3>2
      <4>2. s[k - 1] < s[k] /\ s[k - 1] \in Nat /\ s[k] \in Nat /\ s[i] \in Nat
        BY <1>2, <1>3, <4>1
      <4>3. i = k - 1 \/ s[i] < s[k - 1]
        BY <1>1, <2>2, <3>2, <4>1
      <4> QED
        BY <3>2, <4>2, <4>3
    <3> QED
      BY <1>1, <3>1, <3>2
  <2> HIDE DEF T
  <2>3. 0..Len(s) \subseteq T
    BY <1>1, <2>1, <2>2, EveryTurn
  <2> QED
    BY <1>1, <2>3 DEF T
<1> QED
  BY <1>1, <1>2, <1>4

\* No node is on the stack twice.
LEMMA PathDistinct ==
  ASSUME IInv, NEW s, Path(s), NEW i \in 1..Len(s), NEW j \in 1..Len(s), s[i] = s[j]
  PROVE  i = j
<1>1. i < j \/ j < i \/ i = j
  BY PathFacts
<1>2. s[i] \in Nat /\ s[j] \in Nat
  BY PathFacts
<1>3. (i < j => s[i] < s[j]) /\ (j < i => s[j] < s[i])
  BY PathFacts
<1> QED
  BY <1>1, <1>2, <1>3

\* Of siblings one at most is on the stack.
LEMMA OneSibling ==
  ASSUME IInv, NEW s, Path(s), NEW i \in 1..Len(s), NEW j \in 1..Len(s),
         heap[s[i]].parent = heap[s[j]].parent
  PROVE  i = j
<1>1. /\ Len(s) \in Nat /\ s[1] = RootNode /\ \A k \in 1..Len(s) : s[k] \in Live
      /\ \A k \in 2..Len(s) : heap[s[k]].parent = s[k - 1]
  BY PathFacts DEF Path
<1>2. heap[RootNode].parent = Null /\ \A k \in 1..Len(s) : s[k] # Null
  BY <1>1, RootIsAlone, Neighbours
<1>3. CASE i = 1 /\ j = 1
  BY <1>3
<1>4. CASE i = 1 /\ j # 1
  <2>1. j \in 2..Len(s) /\ j - 1 \in 1..Len(s)
    BY <1>1, <1>4
  <2> QED
    BY <1>1, <1>2, <1>4, <2>1
<1>5. CASE i # 1 /\ j = 1
  <2>1. i \in 2..Len(s) /\ i - 1 \in 1..Len(s)
    BY <1>1, <1>5
  <2> QED
    BY <1>1, <1>2, <1>5, <2>1
<1>6. CASE i # 1 /\ j # 1
  <2>1. i \in 2..Len(s) /\ i - 1 \in 1..Len(s) /\ j \in 2..Len(s) /\ j - 1 \in 1..Len(s)
    BY <1>1, <1>6
  <2>2. s[i - 1] = s[j - 1]
    BY <1>1, <2>1
  <2>3. i - 1 = j - 1
    BY <2>1, <2>2, PathDistinct
  <2> QED
    BY <2>1, <2>3
<1> QED
  BY <1>3, <1>4, <1>5, <1>6

\* The groups that a node of the stack is in are on the stack.
LEMMA AncestorsOnPath ==
  ASSUME IInv, NEW s, Path(s), NEW i \in 1..Len(s), NEW n \in Live, s[i] \in Subtree(n)
  PROVE  \E j \in 1..i : s[j] = n
<1>0. Len(s) \in Nat /\ s[1] = RootNode /\ \A k \in 1..Len(s) : s[k] \in Live
  BY PathFacts
<1> DEFINE K == {k \in 1..i : s[k] \in Subtree(n)}
<1>1. K \in SUBSET Nat /\ i \in K
  BY <1>0
<1>2. PICK k \in K : \A j \in K : k <= j
  <2> HIDE DEF K
  <2> QED
    BY <1>1, LeastElement
<1>3. k \in 1..i /\ k \in 1..Len(s) /\ s[k] \in Subtree(n)
  BY <1>0
<1>4. ASSUME s[k] # n PROVE FALSE
  <2>1. CASE k = 1
    <3>1. n <= RootNode /\ RootNode = 1 /\ n \in Nat /\ n # Null
      BY <1>0, <1>3, <2>1, OldestInSubtree, RootIsAlone, Neighbours
    <3>2. n = RootNode
      BY <3>1 DEF Null
    <3> QED
      BY <1>0, <1>4, <2>1, <3>2
  <2>2. CASE k # 1
    <3>1. k \in 2..Len(s) /\ k - 1 \in 1..i /\ k - 1 < k
      BY <1>0, <1>3, <2>2
    <3>2. heap[s[k]].parent = s[k - 1]
      BY <3>1 DEF Path
    <3>3. s[k - 1] \in Subtree(n)
      BY <1>0, <1>3, <1>4, <3>2, SubtreeExists
    <3>4. k - 1 \in K
      BY <3>1, <3>3
    <3>5. k <= k - 1
      BY <1>2, <3>4
    <3> QED
      BY <3>1, <3>5
  <2> QED
    BY <2>1, <2>2
<1> QED
  BY <1>3, <1>4

-----------------------------------------------------------------------------
(* Loops *)

\* A loop of equal turns.
LEMMA SameTurns ==
  ASSUME NEW X, NEW a \in X, NEW n \in Nat, NEW turn \in [X -> X]
  PROVE  \E f \in [0..n -> X] : f[0] = a /\ \A i \in 1..n : f[i] = turn[f[i - 1]]
<1> PICK turns : turns = [i \in 1..n |-> turn]
  OBVIOUS
<1>1. turns \in [1..n -> [X -> X]] /\ \A i \in 1..n : turns[i] = turn
  OBVIOUS
<1>2. Loops(X, a, n, turns) # {}
  BY <1>1, TurnsAdd
<1> QED
  BY <1>1, <1>2 DEF Loops

\* A loop that is at another node in each turn does not make MaxNode turns.
LEMMA LoopEnds ==
  ASSUME NEW f \in [Turns -> Node]
  PROVE  \E i, j \in Turns : i # j /\ f[i] = f[j]
<1>1. MaxNode \in Nat
  BY BoundsAssumption
<1>2. IsFiniteSet(Turns) /\ Cardinality(Turns) = MaxNode + 1
  BY <1>1, FS_Interval DEF Turns
<1>3. IsFiniteSet(Node) /\ Cardinality(Node) = MaxNode
  BY <1>1, FS_Interval DEF Node
<1> QED
  BY <1>1, <1>2, <1>3, FS_PigeonHole

\* f is what a loop that begins with a has come to after so many of its turns.
IsLoop(f, X, a, turn) ==
  /\ f \in [Turns -> X] /\ f[0] = a
  /\ \A k \in 1..MaxNode : f[k - 1] \in X /\ f[k] = turn[f[k - 1]]

LEMMA LoopExists ==
  ASSUME NEW X, NEW a \in X, NEW turn \in [X -> X]
  PROVE  \E f : IsLoop(f, X, a, turn)
<1> PICK n : n = MaxNode
  OBVIOUS
<1>1. n \in Nat /\ Turns = 0..n
  BY BoundsAssumption DEF Turns
<1>2. PICK f \in [0..n -> X] : f[0] = a /\ \A i \in 1..n : f[i] = turn[f[i - 1]]
  BY <1>1, SameTurns
<1>3. \A k \in 1..n : f[k - 1] \in X /\ f[k] = turn[f[k - 1]]
  BY <1>1, <1>2
<1> QED
  BY <1>1, <1>2, <1>3 DEF IsLoop

-----------------------------------------------------------------------------
(* The post-order iterator *)

OnStack(s) == {s[i] : i \in 1..Len(s)}

\* R is what a loop that has come to stack s has yet to visit: with each node all
\* groups around it and all siblings behind it; with a node whose turn has not
\* come, all in it and all siblings before it.
PostAhead(s, R) ==
  /\ Path(s) /\ R \subseteq InTree /\ OnStack(s) \subseteq R
  /\ \A x \in R \ {RootNode} : heap[x].parent \in R
  /\ \A x \in R : heap[x].next # Null => heap[x].next \in R
  /\ \A x \in R \ OnStack(s), y \in Live : heap[y].parent = x => y \in R
  /\ \A i \in 2..Len(s) : heap[s[i]].previous \notin R
  /\ \A x \in R \ OnStack(s), i \in 1..Len(s) - 1 : heap[x].parent = s[i] => heap[x].previous \in R

\* On the way down none of the children of the last group has been visited; at
\* the end of it all have.
GoingDown(s, R) == PostAhead(s, R) /\ \A y \in Live : heap[y].parent = Top(s) => y \in R
ThereInPost(s, R) == PostAhead(s, R) /\ \A y \in Live : heap[y].parent = Top(s) => y \notin R

LEMMA PostFacts ==
  ASSUME IInv, NEW s, NEW R, PostAhead(s, R)
  PROVE  /\ s \in Stack /\ Len(s) \in Nat /\ Len(s) >= 1 /\ Top(s) = s[Len(s)] /\ s[1] = RootNode
         /\ \A i \in 1..Len(s) : s[i] \in Live /\ s[i] \in R
         /\ R \subseteq Live /\ Null \notin R /\ Top(s) \in Live /\ Top(s) \in R
<1>1. Null \notin Live
  BY NodesArePositive DEF Live, LiveIn
<1> QED
  BY <1>1, PathFacts, TreeHas DEF PostAhead, OnStack

LEMMA DownGoes ==
  ASSUME IInv, NEW s, NEW R, GoingDown(s, R)
  PROVE  IF heap[Top(s)].start = Null THEN ThereInPost(s, R)
         ELSE GoingDown(Append(s, heap[Top(s)].start), R)
<1> PICK m, t : m = Len(s) /\ t = Top(s)
  OBVIOUS
<1>1. PostAhead(s, R) /\ \A y \in Live : heap[y].parent = t => y \in R
  BY DEF GoingDown
<1>2. /\ s \in Stack /\ s \in Seq(Node) /\ m \in Nat /\ m >= 1 /\ t = s[m] /\ t \in Live /\ t \in InTree
      /\ R \subseteq Live /\ Null \notin R /\ s[1] = RootNode
  BY <1>1, PostFacts, PathFacts DEF PostAhead, Stack
<1>3. CASE heap[t].start = Null
  <2>1. \A y \in Live : heap[y].parent # t
    BY <1>2, <1>3, NoChildren
  <2> QED
    BY <1>1, <1>3, <2>1 DEF ThereInPost
<1>4. CASE heap[t].start # Null
  <2> PICK c, a : c = heap[t].start /\ a = Append(s, c)
    OBVIOUS
  <2>1. c \in Live /\ c \in Node /\ heap[c].parent = t /\ heap[c].previous = Null
    BY <1>2, <1>4, Neighbours
  <2>2. c \in R /\ c \in InTree
    BY <1>1, <1>2, <2>1, TreeHas
  <2>3. /\ a \in Stack /\ Len(a) = m + 1
        /\ \A i \in 1..m : a[i] = s[i]
        /\ a[m + 1] = c /\ Top(a) = c
    BY <1>2, <2>1, Pushed
  <2>4. \A i \in 1..m + 1 : a[i] = IF i = m + 1 THEN c ELSE s[i]
    BY <1>2, <2>3
  <2>5. Path(a)
    <3>1. a[1] = RootNode
      BY <1>2, <2>3
    <3>2. \A i \in 1..Len(a) : a[i] \in InTree
      BY <1>1, <1>2, <2>2, <2>3, <2>4 DEF PostAhead, Path
    <3>3. \A i \in 2..Len(a) : heap[a[i]].parent = a[i - 1]
      <4> TAKE i \in 2..Len(a)
      <4>1. CASE i = m + 1
        BY <1>2, <2>1, <2>3, <4>1
      <4>2. CASE i # m + 1
        <5>1. i \in 2..m /\ i - 1 \in 1..m /\ i \in 1..m
          BY <1>2, <2>3, <4>2
        <5> QED
          BY <1>1, <2>3, <5>1 DEF PostAhead, Path
      <4> QED
        BY <4>1, <4>2
    <3> QED
      BY <2>3, <3>1, <3>2, <3>3 DEF Path
  <2>6. OnStack(a) = OnStack(s) \cup {c}
    <3>1. \A i \in 1..m : i \in 1..m + 1 /\ i # m + 1
      BY <1>2
    <3>2. m + 1 \in 1..m + 1
      BY <1>2
    <3>3. \A i \in 1..m + 1 : i = m + 1 \/ i \in 1..m
      BY <1>2
    <3> QED
      BY <2>3, <2>4, <3>1, <3>2, <3>3 DEF OnStack
  <2>7. \A i \in 2..Len(a) : heap[a[i]].previous \notin R
    <3> TAKE i \in 2..Len(a)
    <3>1. CASE i = m + 1
      BY <1>2, <2>1, <2>3, <3>1
    <3>2. CASE i # m + 1
      <4>1. i \in 2..m /\ i \in 1..m
        BY <1>2, <2>3, <3>2
      <4> QED
        BY <1>1, <2>3, <4>1 DEF PostAhead
    <3> QED
      BY <3>1, <3>2
  <2>8. ASSUME NEW x \in R \ OnStack(a), NEW i \in 1..Len(a) - 1, heap[x].parent = a[i]
        PROVE  heap[x].previous \in R
    <3>1. i \in 1..m /\ a[i] = s[i] /\ x \in R \ OnStack(s) /\ x # c /\ x \in Live
      BY <1>2, <2>3, <2>6
    <3>2. CASE i \in 1..m - 1
      BY <1>1, <2>8, <3>1, <3>2 DEF PostAhead
    <3>3. CASE i = m
      <4>1. heap[x].parent = t /\ t # Null
        BY <1>2, <2>8, <3>1, <3>3, Neighbours
      <4>2. heap[x].previous # Null
        BY <3>1, <4>1, Neighbours
      <4>3. heap[x].previous \in Live /\ heap[heap[x].previous].parent = t
        BY <3>1, <4>1, <4>2, Neighbours
      <4> QED
        BY <1>1, <4>3
    <3> QED
      BY <1>2, <3>1, <3>2, <3>3
  <2>9. OnStack(a) \subseteq R
    BY <1>1, <2>2, <2>6 DEF PostAhead
  <2>10. \A x \in R \ OnStack(a), y \in Live : heap[y].parent = x => y \in R
    BY <1>1, <2>6 DEF PostAhead
  <2>11. PostAhead(a, R)
    BY <1>1, <2>5, <2>7, <2>8, <2>9, <2>10 DEF PostAhead
  <2>12. \A y \in Live : heap[y].parent = Top(a) => y \in R
    <3>1. ASSUME c \in OnStack(s) PROVE FALSE
      <4>1. PICK i \in 1..m : s[i] = c
        BY <3>1 DEF OnStack
      <4>2. i \in 1..m + 1 /\ m + 1 \in 1..m + 1 /\ a[i] = a[m + 1] /\ i # m + 1
        BY <1>2, <2>3, <4>1
      <4> QED
        BY <2>3, <2>5, <4>2, PathDistinct
    <3> QED
      BY <1>1, <2>2, <2>3, <3>1 DEF PostAhead
  <2> QED
    BY <1>4, <2>11, <2>12 DEF GoingDown
<1> QED
  BY <1>3, <1>4

LEMMA DescendTurns ==
  ASSUME IInv, NEW s \in Stack
  PROVE  \E at \in [Turns -> Stack] : /\ Descend(s) = at[MaxNode] /\ at[0] = s
                                      /\ \A k \in 1..MaxNode : at[k] = Down(at[k - 1])
<1> DEFINE Body(g) == [k \in Turns |-> IF k = 0 THEN s ELSE Down(g[k - 1])]
           at == CHOOSE g : g = Body(g)
           turn == [c \in Stack |-> Down(c)]
<1>1. MaxNode \in Nat /\ Turns = 0..MaxNode
  BY BoundsAssumption DEF Turns
<1>2. \A c \in Stack : Down(c) \in Stack
  <2> TAKE c \in Stack
  <2>1. Top(c) \in Node /\ c \in Seq(Node)
    BY StackFacts DEF Stack
  <2>2. heap[Top(c)].start \in Node \cup {Null}
    BY <2>1 DEF IInv, TypeOK, NodeRecord, Link
  <2> QED
    BY <2>1, <2>2, Pushed DEF Down
<1>3. Descend(s) = at[MaxNode]
  BY DEF Descend
<1>4. turn \in [Stack -> Stack]
  BY <1>2
<1>5. PICK f \in [0..MaxNode -> Stack] : f[0] = s /\ \A i \in 1..MaxNode : f[i] = turn[f[i - 1]]
  <2> HIDE DEF turn
  <2> QED
    BY <1>1, <1>4, SameTurns
<1>6. \A k \in 1..MaxNode : f[k] = Down(f[k - 1])
  <2> TAKE k \in 1..MaxNode
  <2>1. k - 1 \in 0..MaxNode /\ f[k - 1] \in Stack /\ f[k] = turn[f[k - 1]]
    BY <1>1, <1>5
  <2> QED
    BY <2>1
<1>7. f = Body(f)
  <2>1. f = [k \in Turns |-> f[k]]
    BY <1>1
  <2>2. \A k \in Turns : f[k] = IF k = 0 THEN s ELSE Down(f[k - 1])
    BY <1>1, <1>5, <1>6
  <2> QED
    BY <2>1, <2>2
<1>8. at = Body(at)
  BY <1>7
<1>9. at[0] = s /\ \A k \in 1..MaxNode : at[k] = Down(at[k - 1])
  <2> PICK g : g = at
    OBVIOUS
  <2> HIDE DEF at
  <2>1. g = [k \in Turns |-> IF k = 0 THEN s ELSE Down(g[k - 1])]
    BY <1>8
  <2>2. g[0] = s
    BY <1>1, <2>1
  <2>3. \A k \in 1..MaxNode : g[k] = Down(g[k - 1])
    <3> TAKE k \in 1..MaxNode
    <3>1. k \in Turns /\ k # 0
      BY <1>1
    <3> QED
      BY <2>1, <3>1
  <2> QED
    BY <2>2, <2>3
<1>10. at \in [Turns -> Stack]
  <2> DEFINE T == {k \in Turns : at[k] \in Stack}
  <2> HIDE DEF at
  <2>1. 0 \in T
    BY <1>1, <1>9
  <2>2. \A k \in 1..MaxNode : k - 1 \in T => k \in T
    BY <1>1, <1>2, <1>9
  <2> HIDE DEF T
  <2>3. 0..MaxNode \subseteq T
    BY <1>1, <2>1, <2>2, EveryTurn
  <2> QED
    BY <1>1, <1>8, <2>3 DEF T
<1> HIDE DEF at
<1> QED
  BY <1>3, <1>9, <1>10

\* Each turn goes down to a younger node, so that MaxNode turns are enough.
LEMMA DescendEnds ==
  ASSUME IInv, NEW s, NEW R, GoingDown(s, R)
  PROVE  ThereInPost(Descend(s), R)
<1>1. s \in Stack /\ MaxNode \in Nat /\ Turns = 0..MaxNode
  BY PostFacts, BoundsAssumption DEF GoingDown, Turns
<1>2. PICK at \in [Turns -> Stack] : /\ Descend(s) = at[MaxNode] /\ at[0] = s
                                     /\ \A k \in 1..MaxNode : at[k] = Down(at[k - 1])
  BY <1>1, DescendTurns
<1> DEFINE T == {k \in Turns : GoingDown(at[k], R)
                               /\ (heap[Top(at[k])].start = Null \/ Top(at[k]) > k)}
<1>3. 0 \in T
  <2>1. Top(s) \in Live
    BY PostFacts DEF GoingDown
  <2>2. Top(s) \in Nat /\ Top(s) # 0
    BY <2>1, Neighbours DEF Null
  <2> QED
    BY <1>1, <1>2, <2>2
<1>4. ASSUME NEW k \in 1..MaxNode, k - 1 \in T PROVE k \in T
  <2> PICK c, t, b : c = at[k - 1] /\ t = Top(at[k - 1]) /\ b = heap[Top(at[k - 1])].start
    OBVIOUS
  <2>1. GoingDown(c, R) /\ t = Top(c) /\ b = heap[t].start /\ at[k] = Down(c) /\ k \in Turns
    BY <1>1, <1>2, <1>4
  <2>2. CASE b = Null
    <3>1. at[k] = c
      BY <2>1, <2>2 DEF Down
    <3> QED
      BY <2>1, <2>2, <3>1
  <2>3. CASE b # Null
    <3>1. at[k] = Append(c, b)
      BY <2>1, <2>3 DEF Down
    <3>2. GoingDown(Append(c, b), R)
      BY <2>1, <2>3, DownGoes
    <3>3. t \in Live /\ c \in Seq(Node)
      BY <2>1, PostFacts DEF GoingDown, Stack
    <3>4. b \in Live /\ heap[b].parent = t
      BY <2>1, <2>3, <3>3, Neighbours
    <3>5. t < b /\ t \in Nat /\ b \in Nat /\ b \in Node
      BY <3>3, <3>4, Neighbours
    <3>6. Top(Append(c, b)) = b
      BY <3>3, <3>5, Pushed
    <3>7. t > k - 1
      BY <1>4, <2>1, <2>3
    <3>8. b > k
      BY <1>1, <3>5, <3>7
    <3> QED
      BY <2>1, <3>1, <3>2, <3>6, <3>8
  <2> QED
    BY <2>2, <2>3
<1> HIDE DEF T
<1>5. 0..MaxNode \subseteq T
  BY <1>1, <1>3, <1>4, EveryTurn
<1> PICK d : d = Descend(s)
  OBVIOUS
<1>6. GoingDown(d, R) /\ (heap[Top(d)].start = Null \/ Top(d) > MaxNode)
  BY <1>1, <1>2, <1>5 DEF T
<1>7. Top(d) \in Live
  BY <1>6, PostFacts DEF GoingDown
<1>8. ~(Top(d) > MaxNode)
  BY <1>1, <1>7 DEF Live, LiveIn, Node
<1>9. heap[Top(d)].start = Null
  BY <1>6, <1>8
<1> QED
  BY <1>6, <1>9, DownGoes

\* A visit: what is ahead of the loop loses the node it was at, and the next stack
\* is as far down as the iterator goes.
LEMMA PostNext ==
  ASSUME IInv, NEW s, NEW R, ThereInPost(s, R), NEW Q, Q = R \ {Top(s)}
  PROVE  \/ PostOrderNext(s) = <<>> /\ Q = {}
         \/ ThereInPost(PostOrderNext(s), Q)
<1> PICK m, t : m = Len(s) /\ t = Top(s)
  OBVIOUS
<1>1. PostAhead(s, R) /\ \A y \in Live : heap[y].parent = t => y \notin R
  BY DEF ThereInPost
<1>2. /\ s \in Stack /\ m \in Nat /\ m >= 1 /\ t = s[m] /\ t \in Live /\ t \in R /\ s[1] = RootNode
      /\ R \subseteq Live /\ Null \notin R /\ \A i \in 1..m : s[i] \in Live /\ s[i] \in R
  BY <1>1, PostFacts
<1>3. /\ Path(s) /\ R \subseteq InTree /\ OnStack(s) \subseteq R
      /\ \A x \in R \ {RootNode} : heap[x].parent \in R
      /\ \A x \in R : heap[x].next # Null => heap[x].next \in R
      /\ \A x \in R \ OnStack(s), y \in Live : heap[y].parent = x => y \in R
      /\ \A i \in 2..m : heap[s[i]].previous \notin R
      /\ \A x \in R \ OnStack(s), i \in 1..m - 1 : heap[x].parent = s[i] => heap[x].previous \in R
      /\ \A i \in 2..m : heap[s[i]].parent = s[i - 1]
      /\ \A i \in 1..m : s[i] \in InTree
  BY <1>1 DEF PostAhead, Path
<1>4. \A i \in 1..m : s[i] \in OnStack(s)
  BY DEF OnStack
<1>5. t \in OnStack(s) /\ \A i \in 1..m : s[i] = t => i = m
  <2>1. m \in 1..m
    BY <1>2
  <2>2. \A i \in 1..m : s[i] = s[m] => i = m
    BY <1>3, <2>1, PathDistinct
  <2> QED
    BY <1>2, <1>4, <2>1, <2>2
<1>6. \A x \in Live : x \in OnStack(s) /\ heap[x].parent = heap[t].parent => x = t
  <2> TAKE x \in Live
  <2> HAVE x \in OnStack(s) /\ heap[x].parent = heap[t].parent
  <2>1. PICK i \in 1..m : s[i] = x
    BY DEF OnStack
  <2>2. i = m
    BY <1>2, <1>3, <2>1, OneSibling
  <2> QED
    BY <1>2, <2>1, <2>2
<1>7. \A x \in Q \ {RootNode} : heap[x].parent \in Q
  BY <1>1, <1>2, <1>3
<1>8. CASE heap[t].next = Null /\ m = 1
  <2>1. ASSUME Q # {} PROVE FALSE
    <3>1. PICK x \in Q : \A y \in Q : x <= y
      BY <1>2, <2>1, OldestNode
    <3>2. x \in Live /\ x # RootNode
      BY <1>2, <1>8
    <3>3. heap[x].parent \in Q
      BY <1>7, <3>2
    <3>4. heap[x].parent < x /\ heap[x].parent \in Nat /\ x \in Nat
      BY <1>2, <3>2, <3>3, Neighbours
    <3> QED
      BY <3>1, <3>3, <3>4
  <2>2. PostOrderNext(s) = Pop(s)
    BY <1>2, <1>8 DEF PostOrderNext, Stack
  <2>3. Pop(s) \in Seq(Node) /\ Len(Pop(s)) = 0
    <3>1. Pop(s) \in Seq(Node) /\ Len(Pop(s)) = Len(s) - 1
      BY <1>2, Popped
    <3>2. PICK l : l = Len(Pop(s))
      OBVIOUS
    <3>3. l = m - 1 /\ m = 1
      BY <1>8, <3>1, <3>2
    <3>4. l = 0
      BY <3>3
    <3> QED
      BY <3>1, <3>2, <3>4
  <2>4. Pop(s) = <<>>
    BY <2>3
  <2> QED
    BY <2>1, <2>2, <2>4
<1> DEFINE p == s[m - 1]
<1>9. m # 1 => /\ m - 1 \in 1..m /\ m \in 2..m /\ heap[t].parent = p /\ p \in OnStack(s) /\ p \in Live
               /\ heap[t].previous \notin R
  BY <1>2, <1>3, <1>4
<1> HIDE DEF p
<1>10. m # 1 => \A x \in Q : heap[x].next # Null => heap[x].next \in Q
  BY <1>2, <1>3, <1>9, Neighbours
<1>11. m # 1 => \A x \in Q \ OnStack(s), y \in Live : heap[y].parent = x => y \in Q
  BY <1>3, <1>9
<1>12. CASE heap[t].next = Null /\ m # 1
  <2> PICK b : b = Pop(s)
    OBVIOUS
  <2>1. PostOrderNext(s) = b
    BY <1>2, <1>12 DEF PostOrderNext, Stack
  <2>2. b \in Seq(Node) /\ Len(b) = m - 1 /\ \A i \in 1..m - 1 : b[i] = s[i]
    BY <1>2, Popped
  <2>3. b \in Stack
    BY <1>2, <1>12, <2>2 DEF Stack
  <2>4. Top(b) = p
    BY <1>9, <1>12, <1>2, <2>2, <2>3, StackFacts DEF p
  <2>5. Path(b)
    <3>1. b[1] = RootNode
      BY <1>2, <1>12, <2>2
    <3>2. \A i \in 1..Len(b) : b[i] \in InTree
      BY <1>2, <1>3, <2>2
    <3>3. \A i \in 2..Len(b) : heap[b[i]].parent = b[i - 1]
      <4> TAKE i \in 2..Len(b)
      <4>1. i \in 2..m /\ i \in 1..m - 1 /\ i - 1 \in 1..m - 1
        BY <1>2, <2>2
      <4> QED
        BY <1>3, <2>2, <4>1
    <3> QED
      BY <2>3, <3>1, <3>2, <3>3 DEF Path
  <2>6. OnStack(b) = OnStack(s) \ {t}
    <3>1. \A i \in 1..m : i = m \/ i \in 1..m - 1
      BY <1>2
    <3>2. \A i \in 1..m - 1 : i \in 1..m /\ i # m /\ b[i] = s[i]
      BY <1>2, <2>2
    <3>3. \A x \in OnStack(b) : x \in OnStack(s) \ {t}
      <4> TAKE x \in OnStack(b)
      <4>1. PICK i \in 1..m - 1 : x = b[i]
        BY <2>2 DEF OnStack
      <4>2. i \in 1..m /\ i # m /\ x = s[i]
        BY <3>2, <4>1
      <4> QED
        BY <1>4, <1>5, <4>2
    <3>4. \A x \in OnStack(s) \ {t} : x \in OnStack(b)
      BY <1>2, <2>2, <3>1, <3>2 DEF OnStack
    <3> QED
      BY <3>3, <3>4
  <2>7. OnStack(b) \subseteq Q /\ Q \subseteq InTree
    BY <1>3, <2>6
  <2>8. \A x \in Q \ OnStack(b), y \in Live : heap[y].parent = x => y \in Q
    BY <1>11, <1>12, <2>6
  <2>9. \A i \in 2..Len(b) : heap[b[i]].previous \notin Q
    <3> TAKE i \in 2..Len(b)
    <3>1. i \in 2..m /\ i \in 1..m - 1
      BY <1>2, <2>2
    <3> QED
      BY <1>3, <2>2, <3>1
  <2>10. ASSUME NEW x \in Q \ OnStack(b), NEW i \in 1..Len(b) - 1, heap[x].parent = b[i]
         PROVE  heap[x].previous \in Q
    <3>1. i \in 1..m - 1 /\ i # m - 1 /\ i \in 1..m /\ b[i] = s[i]
      BY <1>2, <2>2
    <3>2. heap[x].previous \in R /\ x \in Live
      BY <1>2, <1>3, <2>6, <2>10, <3>1
    <3>3. ASSUME heap[x].previous = t PROVE FALSE
      <4>1. heap[t].parent = heap[x].parent
        BY <1>2, <3>2, <3>3, Neighbours
      <4>2. s[i] = s[m - 1]
        BY <1>9, <1>12, <2>10, <3>1, <4>1 DEF p
      <4> QED
        BY <1>3, <1>9, <1>12, <3>1, <4>2, PathDistinct
    <3> QED
      BY <3>2, <3>3
  <2>11. \A x \in Live : x \in Q /\ heap[x].parent = p => heap[x].previous \in Q /\ heap[x].previous # Null
    <3> TAKE x \in Live
    <3> HAVE x \in Q /\ heap[x].parent = p
    <3>1. x \notin OnStack(s)
      BY <1>6, <1>9, <1>12
    <3>2. m - 1 \in 1..m - 1 /\ heap[x].parent = s[m - 1]
      BY <1>2, <1>12 DEF p
    <3>3. heap[x].previous \in R
      BY <1>3, <3>1, <3>2
    <3>4. heap[x].previous # Null
      BY <1>2, <3>3
    <3>5. heap[x].previous # t
      BY <1>12, <3>4, Neighbours
    <3> QED
      BY <3>3, <3>4, <3>5
  <2>12. \A y \in Live : heap[y].parent = Top(b) => y \notin Q
    BY <1>9, <1>12, <2>4, <2>11, NoneLeft
  <2>13. PostAhead(b, Q)
    BY <1>7, <1>10, <1>12, <2>5, <2>7, <2>8, <2>9, <2>10 DEF PostAhead
  <2> QED
    BY <2>1, <2>12, <2>13 DEF ThereInPost
<1>13. CASE heap[t].next # Null
  <2> PICK n, b : n = heap[t].next /\ b = SetTop(s, n)
    OBVIOUS
  <2>1. PostOrderNext(s) = Descend(b)
    BY <1>2, <1>13 DEF PostOrderNext, Stack
  <2>2. n \in Live /\ n \in Node /\ heap[n].previous = t /\ heap[n].parent = heap[t].parent
    BY <1>2, <1>13, Neighbours
  <2>3. m # 1
    BY <1>2, <1>13, RootIsAlone
  <2>4. /\ b \in Stack /\ Len(b) = m
        /\ \A i \in 1..m - 1 : b[i] = s[i]
        /\ b[m] = n /\ Top(b) = n
    BY <1>2, <2>2, TopIsSet
  <2>5. n \in R /\ n # t /\ n \in InTree
    BY <1>2, <1>3, <1>9, <1>13, <2>2, <2>3
  <2>6. n \notin OnStack(s)
    BY <1>6, <2>2, <2>5
  <2>7. Path(b)
    <3>1. b[1] = RootNode
      BY <1>2, <2>3, <2>4
    <3>2. \A i \in 1..Len(b) : b[i] \in InTree
      <4> TAKE i \in 1..Len(b)
      <4>1. i = m \/ (i \in 1..m - 1 /\ i \in 1..m)
        BY <1>2, <2>4
      <4> QED
        BY <1>3, <2>4, <2>5, <4>1
    <3>3. \A i \in 2..Len(b) : heap[b[i]].parent = b[i - 1]
      <4> TAKE i \in 2..Len(b)
      <4>1. i \in 2..m /\ i - 1 \in 1..m - 1 /\ b[i - 1] = s[i - 1]
        BY <1>2, <2>4
      <4>2. heap[s[i]].parent = b[i - 1]
        BY <1>3, <4>1
      <4>3. CASE i = m
        BY <1>2, <2>2, <2>4, <4>2, <4>3
      <4>4. CASE i # m
        <5>1. i \in 1..m - 1
          BY <1>2, <4>1, <4>4
        <5> QED
          BY <2>4, <4>2, <5>1
      <4> QED
        BY <4>3, <4>4
    <3> QED
      BY <2>4, <3>1, <3>2, <3>3 DEF Path
  <2>8. OnStack(b) = (OnStack(s) \ {t}) \cup {n}
    <3>1. \A i \in 1..m : i = m \/ i \in 1..m - 1
      BY <1>2
    <3>2. \A i \in 1..m - 1 : i \in 1..m /\ i # m /\ b[i] = s[i]
      BY <1>2, <2>4
    <3>3. m \in 1..m
      BY <1>2
    <3>4. \A x \in OnStack(b) : x \in (OnStack(s) \ {t}) \cup {n}
      BY <1>5, <2>4, <3>1, <3>2 DEF OnStack
    <3>5. \A x \in OnStack(s) \ {t} : x \in OnStack(b)
      BY <1>2, <2>4, <3>1, <3>2 DEF OnStack
    <3>6. n \in OnStack(b)
      BY <2>4, <3>3 DEF OnStack
    <3> QED
      BY <3>4, <3>5, <3>6
  <2>9. OnStack(b) \subseteq Q /\ Q \subseteq InTree
    BY <1>3, <2>5, <2>8
  <2>10. \A x \in Q \ OnStack(b), y \in Live : heap[y].parent = x => y \in Q
    BY <1>11, <2>3, <2>8
  <2>11. \A i \in 2..Len(b) : heap[b[i]].previous \notin Q
    <3> TAKE i \in 2..Len(b)
    <3>1. i \in 2..m /\ (i = m \/ i \in 1..m - 1)
      BY <1>2, <2>4
    <3>2. CASE i = m
      BY <2>2, <2>4, <3>2
    <3>3. CASE i \in 1..m - 1
      BY <1>3, <2>4, <3>1, <3>3
    <3> QED
      BY <3>1, <3>2, <3>3
  <2>12. ASSUME NEW x \in Q \ OnStack(b), NEW i \in 1..Len(b) - 1, heap[x].parent = b[i]
         PROVE  heap[x].previous \in Q
    <3>1. i \in 1..m - 1 /\ b[i] = s[i]
      BY <1>2, <2>4
    <3>2. heap[x].previous \in R /\ x \in Live /\ heap[x].previous # Null
      BY <1>2, <1>3, <2>8, <2>12, <3>1
    <3>3. heap[x].previous # t
      BY <2>8, <3>2, Neighbours
    <3> QED
      BY <3>2, <3>3
  <2>13. \A y \in Live : heap[y].parent = Top(b) => y \in Q
    BY <1>11, <2>3, <2>4, <2>5, <2>6
  <2>14. PostAhead(b, Q)
    BY <1>7, <1>10, <2>3, <2>7, <2>9, <2>10, <2>11, <2>12 DEF PostAhead
  <2>15. GoingDown(b, Q)
    BY <2>13, <2>14 DEF GoingDown
  <2> QED
    BY <2>1, <2>15, DescendEnds
<1> QED
  BY <1>8, <1>12, <1>13

\* What a loop that visits the tree has yet to visit at turn k.
Ahead(loop, k) == InTree \ {Top(loop[j]) : j \in {i \in 0..k - 1 : loop[i] # <<>>}}

\* A loop that is at a node it has not been at, or over with none left, visits
\* each once; what is ahead of it comes later.
LEMMA LoopVisits ==
  ASSUME IInv, NEW loop \in [Turns -> Seq(Node)],
         \A k \in Turns : \/ loop[k] = <<>> /\ Ahead(loop, k) = {}
                          \/ loop[k] # <<>> /\ Top(loop[k]) \in Ahead(loop, k)
  PROVE  /\ VisitsEachOnce(loop, Visits(loop))
         /\ \A k \in Turns, y \in InTree :
              loop[k] # <<>> /\ y \in Ahead(loop, k) /\ y # Top(loop[k])
              => Before(Visits(loop), Top(loop[k]), y)
         /\ \A x \in InTree : \E k \in Turns : loop[k] # <<>> /\ Top(loop[k]) = x
<1> DEFINE At == {k \in Turns : loop[k] # <<>>}
<1>1. MaxNode \in Nat /\ Turns = 0..MaxNode
  BY BoundsAssumption DEF Turns
<1>2. \A k \in Turns : Ahead(loop, k) = InTree \ {Top(loop[j]) : j \in {i \in At : i < k}}
  <2> TAKE k \in Turns
  <2>1. {i \in 0..k - 1 : loop[i] # <<>>} = {i \in At : i < k}
    BY <1>1
  <2> QED
    BY <2>1 DEF Ahead
<1>3. \A k \in At : Top(loop[k]) \in InTree /\ \A i \in At : i < k => Top(loop[i]) # Top(loop[k])
  BY <1>2
<1>4. \A i, j \in At : Top(loop[i]) = Top(loop[j]) => i = j
  BY <1>1, <1>3
<1>5. PICK e \in Turns : loop[e] = <<>>
  <2> SUFFICES ASSUME At = Turns PROVE FALSE
    OBVIOUS
  <2>1. \A k \in Turns : Top(loop[k]) \in Node
    BY <1>3, TreeHas DEF Live, LiveIn
  <2> PICK f : f = [k \in Turns |-> Top(loop[k])]
    OBVIOUS
  <2>2. f \in [Turns -> Node] /\ \A k \in Turns : f[k] = Top(loop[k])
    BY <2>1
  <2>3. PICK i, j \in Turns : i # j /\ f[i] = f[j]
    BY <2>2, LoopEnds
  <2> QED
    BY <1>4, <2>2, <2>3
<1>6. Ahead(loop, e) = {}
  BY <1>5
<1>7. \A x \in InTree : \E j \in At : j < e /\ Top(loop[j]) = x
  BY <1>2, <1>5, <1>6
<1>8. \A k \in At : k < e
  BY <1>1, <1>3, <1>4, <1>7
<1>9. loop[MaxNode] = <<>>
  BY <1>1, <1>8
<1>10. \A v : v \in Visits(loop) <=> \E k \in At : v = <<k, Top(loop[k])>>
  BY DEF Visits
<1> HIDE DEF At
<1>11. {v[2] : v \in Visits(loop)} = InTree
  <2>1. \A v \in Visits(loop) : v[2] \in InTree
    BY <1>3, <1>10
  <2>2. \A x \in InTree : \E v \in Visits(loop) : v[2] = x
    <3> TAKE x \in InTree
    <3>1. PICK j \in At : Top(loop[j]) = x
      BY <1>7
    <3> PICK v : v = <<j, Top(loop[j])>>
      OBVIOUS
    <3>2. v \in Visits(loop) /\ v[2] = x
      BY <1>10, <3>1
    <3> QED
      BY <3>2
  <2> QED
    BY <2>1, <2>2
<1>12. \A v, w \in Visits(loop) : v[2] = w[2] => v = w
  <2> TAKE v, w \in Visits(loop)
  <2> HAVE v[2] = w[2]
  <2>1. PICK i \in At : v = <<i, Top(loop[i])>>
    BY <1>10
  <2>2. PICK j \in At : w = <<j, Top(loop[j])>>
    BY <1>10
  <2>3. i = j
    BY <1>4, <2>1, <2>2
  <2> QED
    BY <2>1, <2>2, <2>3
<1>13. ASSUME NEW k \in Turns, NEW y \in InTree, loop[k] # <<>>, y \in Ahead(loop, k), y # Top(loop[k])
       PROVE  Before(Visits(loop), Top(loop[k]), y)
  <2>1. PICK j \in At : Top(loop[j]) = y
    BY <1>7
  <2>2. k \in At /\ j # k /\ ~(j < k)
    BY <1>2, <1>13, <2>1 DEF At
  <2>3. k < j
    BY <1>1, <2>2 DEF At
  <2> PICK v, w : v = <<k, Top(loop[k])>> /\ w = <<j, y>>
    OBVIOUS
  <2>4. v \in Visits(loop) /\ w \in Visits(loop)
    BY <1>10, <2>1, <2>2
  <2>5. v[1] < w[1] /\ v[2] = Top(loop[k]) /\ w[2] = y
    BY <2>3
  <2> QED
    BY <2>4, <2>5 DEF Before
<1>14. \A x \in InTree : \E k \in Turns : loop[k] # <<>> /\ Top(loop[k]) = x
  BY <1>7 DEF At
<1> QED
  BY <1>9, <1>11, <1>12, <1>13, <1>14 DEF VisitsEachOnce

LEMMA PostOrderTurns ==
  ASSUME IInv
  PROVE  /\ PostOrder \in [Turns -> Seq(Node)] /\ PostOrder[0] = pbegin
         /\ \A k \in 1..MaxNode : PostOrder[k] = PostOrderNext(PostOrder[k - 1])
<1> DEFINE Body(g) == [k \in Turns |-> IF k = 0 THEN pbegin ELSE PostOrderNext(g[k - 1])]
           at == CHOOSE g : g = Body(g)
           turn == [c \in Seq(Node) |-> PostOrderNext(c)]
<1>1. MaxNode \in Nat /\ Turns = 0..MaxNode
  BY BoundsAssumption DEF Turns
<1>2. \A c \in Stack : Descend(c) \in Seq(Node)
  <2> TAKE c \in Stack
  <2>1. PICK f \in [Turns -> Stack] : Descend(c) = f[MaxNode]
    BY DescendTurns
  <2> QED
    BY <1>1, <2>1 DEF Stack
<1>3. \A c \in Seq(Node) : PostOrderNext(c) \in Seq(Node)
  <2> TAKE c \in Seq(Node)
  <2>1. CASE c = <<>>
    BY <2>1 DEF PostOrderNext
  <2>2. CASE c # <<>>
    <3>1. c \in Stack /\ Top(c) \in Node
      BY <2>2, StackFacts DEF Stack
    <3>2. heap[Top(c)].next \in Node \cup {Null}
      BY <3>1 DEF IInv, TypeOK, NodeRecord, Link
    <3>3. Pop(c) \in Seq(Node)
      BY <3>1, Popped
    <3>4. heap[Top(c)].next # Null => SetTop(c, heap[Top(c)].next) \in Stack
      BY <3>1, <3>2, TopIsSet
    <3> QED
      BY <1>2, <2>2, <3>3, <3>4 DEF PostOrderNext
  <2> QED
    BY <2>1, <2>2
<1>4. pbegin \in Seq(Node)
  <2>1. RootNode \in Node
    BY RootIsAlone DEF Live, LiveIn
  <2>2. <<RootNode>> \in Stack
    BY <2>1 DEF Stack
  <2> QED
    BY <1>2, <2>2 DEF pbegin
<1>5. turn \in [Seq(Node) -> Seq(Node)]
  BY <1>3
<1>6. PICK f : IsLoop(f, Seq(Node), pbegin, turn)
  <2> HIDE DEF turn
  <2> QED
    BY <1>4, <1>5, LoopExists
<1>7. /\ f \in [Turns -> Seq(Node)] /\ f[0] = pbegin
      /\ \A k \in 1..MaxNode : f[k] = PostOrderNext(f[k - 1])
  BY <1>6, Zenon DEF IsLoop
<1>8. f = Body(f)
  <2>1. f = [k \in Turns |-> f[k]]
    BY <1>7
  <2>2. \A k \in Turns : f[k] = IF k = 0 THEN pbegin ELSE PostOrderNext(f[k - 1])
    BY <1>1, <1>7
  <2> QED
    BY <2>1, <2>2
<1>9. at = Body(at)
  BY <1>8
<1>10. PostOrder = at
  BY DEF PostOrder
<1> PICK g : g = at
  OBVIOUS
<1> HIDE DEF at
<1>11. g = [k \in Turns |-> IF k = 0 THEN pbegin ELSE PostOrderNext(g[k - 1])]
  BY <1>9
<1>12. g[0] = pbegin
  BY <1>1, <1>11
<1>13. \A k \in 1..MaxNode : g[k] = PostOrderNext(g[k - 1])
  <2> TAKE k \in 1..MaxNode
  <2>1. k \in Turns /\ k # 0
    BY <1>1
  <2> QED
    BY <1>11, <2>1
<1>14. g \in [Turns -> Seq(Node)]
  <2> DEFINE T == {k \in Turns : g[k] \in Seq(Node)}
  <2>1. 0 \in T
    BY <1>1, <1>4, <1>12
  <2>2. \A k \in 1..MaxNode : k - 1 \in T => k \in T
    <3> TAKE k \in 1..MaxNode
    <3> HAVE k - 1 \in T
    <3>1. k \in Turns
      BY <1>1
    <3> QED
      BY <1>3, <1>13, <3>1
  <2> HIDE DEF T
  <2>3. 0..MaxNode \subseteq T
    BY <1>1, <2>1, <2>2, EveryTurn
  <2> QED
    BY <1>1, <1>11, <2>3 DEF T
<1> QED
  BY <1>10, <1>12, <1>13, <1>14

\* The loop begins with all of the tree ahead of it.
LEMMA PostBegins ==
  ASSUME IInv
  PROVE  ThereInPost(pbegin, InTree)
<1> PICK s : s = <<RootNode>>
  OBVIOUS
<1>1. /\ RootNode \in InTree /\ InTree \in SUBSET Live
      /\ \A x \in Live : heap[x].parent \in InTree => x \in InTree
      /\ \A x \in InTree \ {RootNode} : heap[x].parent \in InTree
      /\ \A x \in InTree : heap[x].next # Null => heap[x].next \in InTree
  BY TreeHas
<1>2. /\ s \in Stack /\ Len(s) = 1 /\ s[1] = RootNode
  BY <1>1 DEF Stack, Live, LiveIn
<1>3. Top(s) = RootNode
  BY <1>2, StackFacts
<1>4. Path(s) /\ OnStack(s) \subseteq InTree
  BY <1>1, <1>2 DEF Path, OnStack
<1>5. PostAhead(s, InTree)
  BY <1>1, <1>2, <1>4 DEF PostAhead
<1>6. GoingDown(s, InTree)
  BY <1>1, <1>3, <1>5 DEF GoingDown
<1>7. ThereInPost(Descend(s), InTree)
  BY <1>6, DescendEnds
<1> QED
  BY <1>7 DEF pbegin

\* The nodes behind a sibling that is yet to be visited are ahead too.
LEMMA SiblingsAhead ==
  ASSUME IInv, NEW s, NEW R, PostAhead(s, R), heap[Top(s)].next # Null
  PROVE  Subtree(heap[Top(s)].next) \subseteq R
<1> PICK t, n : t = Top(s) /\ n = heap[t].next
  OBVIOUS
<1>1. /\ s \in Stack /\ Len(s) \in Nat /\ Len(s) >= 1 /\ t = s[Len(s)] /\ t \in Live /\ t \in R /\ Path(s)
      /\ s[1] = RootNode
  BY PostFacts DEF PostAhead
<1>2. n \in Live /\ heap[n].previous = t /\ heap[n].parent = heap[t].parent /\ n \in R
  BY <1>1, Neighbours DEF PostAhead
<1>3. Len(s) \in 2..Len(s) /\ Len(s) \in 1..Len(s)
  BY <1>1, <1>2, RootIsAlone
<1>4. n # t
  BY <1>1, <1>2, <1>3 DEF PostAhead
<1>5. n \notin OnStack(s)
  <2> SUFFICES ASSUME NEW i \in 1..Len(s), s[i] = n PROVE FALSE
    BY DEF OnStack
  <2>1. i = Len(s)
    BY <1>1, <1>2, <1>3, OneSibling
  <2> QED
    BY <1>1, <1>4, <2>1
<1>6. ASSUME Subtree(n) \ R # {} PROVE FALSE
  <2>1. PICK y \in Subtree(n) \ R : \A z \in Subtree(n) \ R : y <= z
    BY <1>2, <1>6, SubtreeExists, OldestNode
  <2>2. y \in Live /\ y # n
    BY <1>2, <2>1, SubtreeExists
  <2>3. heap[y].parent \in Subtree(n)
    BY <1>2, <2>1, <2>2, SubtreeExists
  <2>4. heap[y].parent \in Live
    BY <1>2, <2>3, SubtreeExists
  <2>5. heap[y].parent < y /\ heap[y].parent \in Nat /\ y \in Nat
    BY <2>2, <2>4, Neighbours
  <2>6. heap[y].parent \in R
    BY <2>1, <2>3, <2>5
  <2>7. heap[y].parent \notin OnStack(s)
    <3> SUFFICES ASSUME NEW i \in 1..Len(s), s[i] = heap[y].parent PROVE FALSE
      BY DEF OnStack
    <3>1. PICK j \in 1..i : s[j] = n
      BY <1>1, <1>2, <2>3, AncestorsOnPath
    <3>2. j \in 1..Len(s)
      BY <1>1, <3>1
    <3> QED
      BY <1>5, <3>1, <3>2 DEF OnStack
  <2> QED
    BY <2>1, <2>2, <2>6, <2>7 DEF PostAhead
<1> QED
  BY <1>6

LEMMA PostOrderKept ==
  ASSUME IInv
  PROVE  IteratorIsPostOrder
<1> PICK at : at = PostOrder
  OBVIOUS
<1>1. MaxNode \in Nat /\ Turns = 0..MaxNode
  BY BoundsAssumption DEF Turns
<1>2. /\ at \in [Turns -> Seq(Node)] /\ at[0] = pbegin
      /\ \A k \in 1..MaxNode : at[k] = PostOrderNext(at[k - 1])
  BY PostOrderTurns
<1> DEFINE Right(k) == \/ at[k] = <<>> /\ Ahead(at, k) = {}
                       \/ ThereInPost(at[k], Ahead(at, k))
           T == {k \in Turns : Right(k)}
<1>3. 0 \in T
  <2>1. Ahead(at, 0) = InTree
    BY DEF Ahead
  <2> QED
    BY <1>1, <1>2, <2>1, PostBegins
<1>4. ASSUME NEW k \in 1..MaxNode, k - 1 \in T PROVE k \in T
  <2>0. k \in Turns /\ k - 1 \in Turns /\ k - 1 \in 0..k - 1 /\ at[k] = PostOrderNext(at[k - 1])
        /\ (\A i \in 0..k - 1 : i = k - 1 \/ i \in 0..(k - 1) - 1)
        /\ \A i \in 0..(k - 1) - 1 : i \in 0..k - 1
    BY <1>1, <1>2
  <2>1. CASE at[k - 1] = <<>> /\ Ahead(at, k - 1) = {}
    <3>1. at[k] = <<>>
      BY <2>0, <2>1 DEF PostOrderNext
    <3>2. Ahead(at, k) = {}
      BY <2>0, <2>1 DEF Ahead
    <3> QED
      BY <2>0, <3>1, <3>2
  <2>2. CASE ThereInPost(at[k - 1], Ahead(at, k - 1))
    <3> PICK c, R : c = at[k - 1] /\ R = Ahead(at, k - 1)
      OBVIOUS
    <3>1. c # <<>>
      BY <2>2, PostFacts DEF ThereInPost, Stack
    <3>2. Ahead(at, k) = R \ {Top(c)}
      BY <2>0, <3>1 DEF Ahead
    <3>3. \/ PostOrderNext(c) = <<>> /\ R \ {Top(c)} = {}
          \/ ThereInPost(PostOrderNext(c), R \ {Top(c)})
      BY <2>2, PostNext
    <3> QED
      BY <2>0, <3>2, <3>3
  <2> QED
    BY <1>4, <2>1, <2>2
<1> HIDE DEF T
<1>5. 0..MaxNode \subseteq T
  BY <1>1, <1>3, <1>4, EveryTurn
<1>6. \A k \in Turns : Right(k)
  BY <1>1, <1>5 DEF T
<1> HIDE DEF Right
<1>7. \A k \in Turns : \/ at[k] = <<>> /\ Ahead(at, k) = {}
                       \/ at[k] # <<>> /\ Top(at[k]) \in Ahead(at, k)
  <2> TAKE k \in Turns
  <2>1. CASE ThereInPost(at[k], Ahead(at, k))
    BY <2>1, PostFacts DEF ThereInPost, Stack
  <2> QED
    BY <1>6, <2>1 DEF Right
<1>8. /\ VisitsEachOnce(at, Visits(at))
      /\ \A k \in Turns, y \in InTree :
           at[k] # <<>> /\ y \in Ahead(at, k) /\ y # Top(at[k]) => Before(Visits(at), Top(at[k]), y)
      /\ \A x \in InTree : \E k \in Turns : at[k] # <<>> /\ Top(at[k]) = x
  BY <1>2, <1>7, LoopVisits
<1>9. \A x \in InTree \ {RootNode} : Before(Visits(at), x, heap[x].parent)
  <2> TAKE x \in InTree \ {RootNode}
  <2>1. PICK k \in Turns : at[k] # <<>> /\ Top(at[k]) = x
    BY <1>8
  <2>2. ThereInPost(at[k], Ahead(at, k))
    BY <1>6, <2>1 DEF Right
  <2>3. heap[x].parent \in Ahead(at, k) /\ heap[x].parent # x /\ heap[x].parent \in InTree
    <3>1. x \in Live /\ x \in Ahead(at, k)
      BY <2>1, <2>2, PostFacts DEF ThereInPost
    <3>2. heap[x].parent \in Ahead(at, k)
      BY <2>2, <3>1 DEF ThereInPost, PostAhead
    <3>3. heap[x].parent \in InTree /\ heap[x].parent # Null
      BY <2>2, <3>2, PostFacts DEF ThereInPost, PostAhead
    <3>4. heap[x].parent < x /\ x \in Nat
      BY <3>1, <3>3, Neighbours
    <3> QED
      BY <3>2, <3>3, <3>4
  <2> QED
    BY <1>8, <2>1, <2>3
<1>10. \A x \in InTree : heap[x].next # Null =>
         \A y \in Subtree(heap[x].next) : Before(Visits(at), x, y)
  <2> TAKE x \in InTree
  <2> HAVE heap[x].next # Null
  <2> TAKE y \in Subtree(heap[x].next)
  <2>1. PICK k \in Turns : at[k] # <<>> /\ Top(at[k]) = x
    BY <1>8
  <2>2. ThereInPost(at[k], Ahead(at, k))
    BY <1>6, <2>1 DEF Right
  <2>3. y \in Ahead(at, k) /\ y \in InTree
    BY <2>1, <2>2, SiblingsAhead DEF ThereInPost, PostAhead
  <2>4. ASSUME y = x PROVE FALSE
    <3> PICK n : n = heap[x].next
      OBVIOUS
    <3>1. x \in Live /\ n \in Live /\ heap[n].parent = heap[x].parent /\ heap[n].previous = x
      BY TreeHas, Neighbours
    <3>2. x \in Subtree(n)
      BY <2>4
    <3>3. PICK R : R = Ahead(at, k)
      OBVIOUS
    <3>4. n # x
      <4>1. PICK s : s = at[k]
        OBVIOUS
      <4>2. /\ PostAhead(s, R) /\ Len(s) \in Nat /\ Len(s) >= 1 /\ s[Len(s)] = x /\ s[1] = RootNode /\ x \in R
        BY <2>1, <2>2, <3>3, <4>1, PostFacts DEF ThereInPost
      <4>3. Len(s) \in 2..Len(s)
        BY <3>1, <4>2, RootIsAlone
      <4> QED
        BY <3>1, <4>2, <4>3 DEF PostAhead
    <3>5. heap[x].parent \in Subtree(n)
      BY <3>1, <3>2, <3>4, SubtreeExists
    <3>6. heap[x].parent \in Live /\ n <= heap[x].parent
      BY <3>1, <3>5, SubtreeExists, OldestInSubtree
    <3>7. heap[n].parent < n /\ n \in Nat /\ heap[n].parent \in Nat
      BY <3>1, <3>6, Neighbours
    <3> QED
      BY <3>1, <3>6, <3>7
  <2> QED
    BY <1>8, <2>1, <2>3, <2>4
<1> QED
  BY <1>8, <1>9, <1>10 DEF IteratorIsPostOrder

-----------------------------------------------------------------------------
(* The pre-order iterator *)

\* R is what a loop that has come to stack s has yet to visit, the top of s first:
\* with each node all below it and all siblings behind it, and below a group that
\* has been visited only what comes behind the stack.
PreAhead(s, R) ==
  /\ Path(s) /\ R \subseteq InTree /\ s[Len(s)] \in R
  /\ \A i \in 1..Len(s) - 1 : s[i] \notin R
  /\ \A x \in R, y \in Live : heap[y].parent = x => y \in R
  /\ \A x \in R \cup OnStack(s) : heap[x].next # Null => heap[x].next \in R
  /\ \A i \in 2..Len(s) : heap[s[i]].previous \notin R
  /\ \A x \in R \ {RootNode} : heap[x].parent \notin R =>
       \E i \in 1..Len(s) - 1 : /\ heap[x].parent = s[i]
                                /\ x = s[i + 1] \/ heap[x].previous \in R \/ heap[x].previous = s[i + 1]

LEMMA PreFacts ==
  ASSUME IInv, NEW s, NEW R, PreAhead(s, R)
  PROVE  /\ s \in Stack /\ Len(s) \in Nat /\ Len(s) >= 1 /\ Top(s) = s[Len(s)] /\ s[1] = RootNode
         /\ \A i \in 1..Len(s) : s[i] \in Live /\ s[i] \in InTree
         /\ \A i \in 2..Len(s) : heap[s[i]].parent = s[i - 1]
         /\ R \subseteq Live /\ Null \notin R /\ Top(s) \in Live /\ Top(s) \in R
<1>1. Null \notin Live
  BY NodesArePositive DEF Live, LiveIn
<1> QED
  BY <1>1, PathFacts, TreeHas DEF PreAhead, Path

\* No node that is left points at the one that is visited.
LEMMA NoneBefore ==
  ASSUME IInv, NEW s, NEW R, PreAhead(s, R)
  PROVE  /\ \A x \in R \cup OnStack(s) : heap[x].next # Top(s)
         /\ heap[Top(s)].parent \notin R
         /\ heap[Top(s)].next # Top(s)
<1> PICK m, t : m = Len(s) /\ t = Top(s)
  OBVIOUS
<1>1. /\ s \in Stack /\ m \in Nat /\ m >= 1 /\ t = s[m] /\ s[1] = RootNode
      /\ \A i \in 1..m : s[i] \in Live
      /\ \A i \in 2..m : heap[s[i]].parent = s[i - 1]
      /\ R \subseteq Live /\ Null \notin R /\ t \in Live /\ t \in R
  BY PreFacts
<1>2. CASE m = 1
  <2>1. heap[t].parent = Null /\ heap[t].previous = Null /\ heap[t].next = Null /\ t # Null
    BY <1>1, <1>2, RootIsAlone, Neighbours
  <2>2. \A x \in Live : heap[x].next # t
    BY <1>1, <2>1, Neighbours
  <2>3. OnStack(s) \subseteq Live
    BY <1>1 DEF OnStack
  <2> QED
    BY <1>1, <2>1, <2>2, <2>3
<1>3. CASE m # 1
  <2>1. m \in 2..m /\ m \in 1..m /\ m - 1 \in 1..m - 1
    BY <1>1, <1>3
  <2>2. heap[t].previous \notin R /\ heap[t].parent \notin R
    BY <1>1, <2>1 DEF PreAhead
  <2>3. ASSUME NEW x \in R \cup OnStack(s), heap[x].next = t PROVE FALSE
    <3>1. x \in Live
      BY <1>1 DEF OnStack
    <3>2. heap[t].previous = x /\ heap[t].parent = heap[x].parent
      BY <1>1, <2>3, <3>1, Neighbours
    <3>3. PICK i \in 1..m : s[i] = x
      BY <2>2, <3>2 DEF OnStack
    <3>4. i = m
      BY <1>1, <2>1, <3>2, <3>3, OneSibling DEF PreAhead
    <3> QED
      BY <1>1, <2>2, <3>2, <3>3, <3>4
  <2>4. t \in R \cup OnStack(s)
    BY <1>1
  <2> QED
    BY <2>2, <2>3, <2>4
<1> QED
  BY <1>2, <1>3

\* Down to the first child.
LEMMA PreDown ==
  ASSUME IInv, NEW s, NEW R, PreAhead(s, R), heap[Top(s)].start # Null, NEW Q, Q = R \ {Top(s)}
  PROVE  PreAhead(Append(s, heap[Top(s)].start), Q)
<1> PICK m, t, c, a : m = Len(s) /\ t = Top(s) /\ c = heap[t].start /\ a = Append(s, c)
  OBVIOUS
<1>1. /\ s \in Stack /\ s \in Seq(Node) /\ m \in Nat /\ m >= 1 /\ t = s[m] /\ s[1] = RootNode
      /\ \A i \in 1..m : s[i] \in Live /\ s[i] \in InTree
      /\ \A i \in 2..m : heap[s[i]].parent = s[i - 1]
      /\ R \subseteq Live /\ Null \notin R /\ t \in Live /\ t \in R /\ t # Null
  BY PreFacts, Neighbours DEF Stack
<1>2. /\ Path(s) /\ R \subseteq InTree
      /\ \A i \in 1..m - 1 : s[i] \notin R
      /\ \A x \in R, y \in Live : heap[y].parent = x => y \in R
      /\ \A x \in R \cup OnStack(s) : heap[x].next # Null => heap[x].next \in R
      /\ \A i \in 2..m : heap[s[i]].previous \notin R
      /\ \A x \in R \ {RootNode} : heap[x].parent \notin R =>
           \E i \in 1..m - 1 : /\ heap[x].parent = s[i]
                               /\ x = s[i + 1] \/ heap[x].previous \in R \/ heap[x].previous = s[i + 1]
  BY DEF PreAhead
<1>3. /\ \A x \in R \cup OnStack(s) : heap[x].next # t
      /\ heap[t].parent \notin R
  BY NoneBefore
<1>4. c \in Live /\ c \in Node /\ heap[c].parent = t /\ heap[c].previous = Null /\ c \in R
  BY <1>1, <1>2, Neighbours
<1>5. c # t /\ c # RootNode
  BY <1>1, <1>3, <1>4, RootIsAlone
<1>6. /\ a \in Stack /\ Len(a) = m + 1
      /\ \A i \in 1..m : a[i] = s[i]
      /\ a[m + 1] = c
  BY <1>1, <1>4, Pushed
<1>7. \A i \in 1..m + 1 : i = m + 1 \/ (i \in 1..m /\ a[i] = s[i])
  BY <1>1, <1>6
<1>8. Path(a)
  <2>1. a[1] = RootNode
    BY <1>1, <1>6
  <2>2. \A i \in 1..m + 1 : a[i] \in InTree
    BY <1>1, <1>2, <1>4, <1>6, <1>7
  <2>3. \A i \in 2..m + 1 : heap[a[i]].parent = a[i - 1]
    <3> TAKE i \in 2..m + 1
    <3>1. CASE i = m + 1
      BY <1>1, <1>4, <1>6, <3>1
    <3>2. CASE i # m + 1
      <4>1. i \in 2..m /\ i - 1 \in 1..m /\ i \in 1..m
        BY <1>1, <3>2
      <4> QED
        BY <1>1, <1>6, <4>1
    <3> QED
      BY <3>1, <3>2
  <2> QED
    BY <1>6, <2>1, <2>2, <2>3 DEF Path
<1>9. \A i \in 1..m : a[i] \notin Q
  <2> TAKE i \in 1..m
  <2>1. i = m \/ i \in 1..m - 1
    BY <1>1
  <2> QED
    BY <1>1, <1>2, <1>6, <2>1
<1>10. \A x \in Q, y \in Live : heap[y].parent = x => y \in Q
  BY <1>2, <1>3
<1>11. \A x \in Q \cup OnStack(a) : heap[x].next # Null => heap[x].next \in Q
  <2>1. OnStack(a) \subseteq R \cup OnStack(s)
    <3> SUFFICES ASSUME NEW i \in 1..m + 1 PROVE a[i] \in R \cup OnStack(s)
      BY <1>6 DEF OnStack
    <3> QED
      BY <1>4, <1>6, <1>7 DEF OnStack
  <2> QED
    BY <1>2, <1>3, <2>1
<1>12. \A i \in 2..m + 1 : heap[a[i]].previous \notin Q
  <2> TAKE i \in 2..m + 1
  <2>1. CASE i = m + 1
    BY <1>1, <1>4, <1>6, <2>1
  <2>2. CASE i # m + 1
    <3>1. i \in 2..m /\ i \in 1..m
      BY <1>1, <2>2
    <3> QED
      BY <1>2, <1>6, <3>1
  <2> QED
    BY <2>1, <2>2
<1>13. ASSUME NEW x \in Q \ {RootNode}, heap[x].parent \notin Q
       PROVE  \E i \in 1..m : /\ heap[x].parent = a[i]
                              /\ x = a[i + 1] \/ heap[x].previous \in Q \/ heap[x].previous = a[i + 1]
  <2>0. x \in Live /\ x \in R /\ x # t
    BY <1>1
  <2>1. CASE heap[x].parent = t
    <3>1. m \in 1..m /\ heap[x].parent = a[m]
      BY <1>1, <1>6, <2>1
    <3>2. CASE heap[x].previous = Null
      <4>1. x = c
        BY <1>1, <2>0, <2>1, <3>2, Neighbours
      <4> QED
        BY <1>6, <3>1, <4>1
    <3>3. CASE heap[x].previous # Null
      <4>1. heap[x].previous \in Live /\ heap[heap[x].previous].parent = t
        BY <2>0, <2>1, <3>3, Neighbours
      <4>2. heap[x].previous \in R /\ heap[x].previous # t
        BY <1>1, <1>2, <1>3, <4>1
      <4> QED
        BY <3>1, <4>2
    <3> QED
      BY <3>2, <3>3
  <2>2. CASE heap[x].parent # t
    <3>1. heap[x].parent \notin R
      BY <1>13, <2>2
    <3>2. PICK i \in 1..m - 1 : /\ heap[x].parent = s[i]
                                /\ x = s[i + 1] \/ heap[x].previous \in R \/ heap[x].previous = s[i + 1]
      BY <1>2, <2>0, <3>1
    <3>3. i \in 1..m /\ i + 1 \in 1..m /\ a[i] = s[i] /\ a[i + 1] = s[i + 1] /\ i + 1 \in 2..m /\ i + 1 - 1 = i
      BY <1>1, <1>6
    <3>4. ASSUME heap[x].previous = t PROVE t = s[i + 1]
      <4>1. heap[t].parent = heap[x].parent
        BY <1>1, <2>0, <3>4, Neighbours
      <4>2. heap[s[i + 1]].parent = heap[s[m]].parent
        BY <1>1, <3>2, <3>3, <4>1
      <4>3. m \in 1..m
        BY <1>1
      <4>4. i + 1 = m
        BY <1>2, <3>3, <4>2, <4>3, OneSibling
      <4> QED
        BY <1>1, <4>4
    <3> QED
      BY <3>2, <3>3, <3>4
  <2> QED
    BY <2>1, <2>2
<1>14. /\ a[m + 1] \in Q /\ Q \subseteq InTree /\ (m + 1) - 1 = m
  BY <1>1, <1>2, <1>4, <1>5, <1>6
<1>15. PreAhead(a, Q)
  BY <1>6, <1>8, <1>9, <1>10, <1>11, <1>12, <1>13, <1>14 DEF PreAhead
<1> QED
  BY <1>15

\* With no child and no sibling on the way up, nothing is left below the groups
\* on the way.
LEMMA NoneLeftBelow ==
  ASSUME IInv, NEW s, NEW R, PreAhead(s, R), heap[Top(s)].start = Null,
         NEW i \in 1..Len(s), \A j \in i + 1..Len(s) : heap[s[j]].next = Null
  PROVE  \A x \in R \ {Top(s)} : heap[x].parent # s[i]
<1> PICK m, t, Q : m = Len(s) /\ t = Top(s) /\ Q = R \ {t}
  OBVIOUS
<1>1. /\ m \in Nat /\ m >= 1 /\ t = s[m] /\ s[1] = RootNode /\ Path(s)
      /\ \A k \in 1..m : s[k] \in Live
      /\ R \subseteq Live /\ Null \notin R /\ t \in Live /\ t \in R /\ Null \notin Live
  BY PreFacts, Neighbours DEF PreAhead
<1>2. CASE i = m
  BY <1>1, <1>2, NoChildren
<1>3. CASE i # m
  <2>1. i \in 1..m - 1 /\ i + 1 \in i + 1..m /\ m \in i + 1..m /\ i \in 1..m
    BY <1>1, <1>3
  <2>2. s[i] \notin R /\ (i + 1 = m \/ s[i + 1] \notin R)
    <3>1. i + 1 = m \/ i + 1 \in 1..m - 1
      BY <1>1, <2>1
    <3> QED
      BY <2>1, <3>1 DEF PreAhead
  <2>3. heap[t].next = Null /\ heap[s[i + 1]].next = Null
    BY <1>1, <2>1
  <2>4. \A x \in Live : x \in Q /\ heap[x].parent = s[i] => heap[x].previous \in Q /\ heap[x].previous # Null
    <3> TAKE x \in Live
    <3> HAVE x \in Q /\ heap[x].parent = s[i]
    <3>1. x # RootNode
      BY <1>1, <2>1, RootIsAlone, Neighbours
    <3>2. PICK k \in 1..m - 1 : /\ heap[x].parent = s[k]
                                /\ x = s[k + 1] \/ heap[x].previous \in R \/ heap[x].previous = s[k + 1]
      BY <2>2, <3>1 DEF PreAhead
    <3>3. k = i
      <4>1. k \in 1..m
        BY <1>1
      <4> QED
        BY <1>1, <2>1, <3>2, <4>1, PathDistinct
    <3>4. x # s[i + 1]
      BY <1>1, <2>2
    <3>5. s[i + 1] \in Live
      BY <1>1, <2>1
    <3>6. heap[x].previous # Null
      <4>1. heap[x].previous \in R \/ heap[x].previous = s[i + 1]
        BY <3>2, <3>3, <3>4
      <4> QED
        BY <1>1, <3>5, <4>1
    <3>7. heap[heap[x].previous].next = x /\ x # Null
      BY <3>6, Neighbours
    <3>8. heap[x].previous # t /\ heap[x].previous # s[i + 1]
      BY <2>3, <3>7
    <3> QED
      BY <3>2, <3>3, <3>4, <3>6, <3>8
  <2>5. \A x \in Live : heap[x].parent = s[i] => x \notin Q
    BY <1>1, <2>1, <2>4, NoneLeft
  <2> QED
    BY <1>1, <2>5
<1> QED
  BY <1>2, <1>3

\* The end: no sibling on the whole way up.
LEMMA PreEnds ==
  ASSUME IInv, NEW s, NEW R, PreAhead(s, R), heap[Top(s)].start = Null,
         \A j \in 1..Len(s) : heap[s[j]].next = Null
  PROVE  R \ {Top(s)} = {}
<1> PICK m, t, Q : m = Len(s) /\ t = Top(s) /\ Q = R \ {t}
  OBVIOUS
<1>1. /\ m \in Nat /\ m >= 1 /\ t = s[m] /\ s[1] = RootNode
      /\ R \subseteq Live /\ Null \notin R /\ t \in Live /\ t \in R
  BY PreFacts
<1>2. \A i \in 1..m : \A x \in Q : heap[x].parent # s[i]
  <2> TAKE i \in 1..m
  <2>1. \A j \in i + 1..m : heap[s[j]].next = Null
    BY <1>1
  <2> QED
    BY <2>1, NoneLeftBelow
<1>3. ASSUME Q # {} PROVE FALSE
  <2>1. PICK x \in Q : \A y \in Q : x <= y
    BY <1>1, <1>3, OldestNode
  <2>2. x \in Live /\ x \in R /\ x # t
    BY <1>1
  <2>3. x # RootNode
    <3>1. m = 1 \/ 1 \in 1..m - 1
      BY <1>1
    <3> QED
      BY <1>1, <2>2, <3>1 DEF PreAhead
  <2>4. heap[x].parent \in InTree /\ heap[x].parent \in Live
    BY <2>2, <2>3, TreeHas DEF PreAhead
  <2>5. heap[x].parent < x /\ heap[x].parent \in Nat /\ x \in Nat
    BY <2>2, <2>4, Neighbours
  <2>6. heap[x].parent \notin Q
    BY <2>1, <2>5
  <2>7. heap[x].parent # t
    <3>1. m \in 1..m
      BY <1>1
    <3> QED
      BY <1>1, <1>2, <3>1
  <2>8. PICK i \in 1..m - 1 : heap[x].parent = s[i]
    BY <2>2, <2>3, <2>6, <2>7 DEF PreAhead
  <2>9. i \in 1..m
    BY <1>1
  <2> QED
    BY <1>2, <2>8, <2>9
<1> QED
  BY <1>3

\* On to the next sibling, of the node or of the first group on the way up that
\* has one.
LEMMA PreOn ==
  ASSUME IInv, NEW s, NEW R, PreAhead(s, R), heap[Top(s)].start = Null,
         NEW k \in 1..Len(s), heap[s[k]].next # Null,
         \A j \in k + 1..Len(s) : heap[s[j]].next = Null,
         NEW a \in Stack, Len(a) = k, \A i \in 1..k - 1 : a[i] = s[i], a[k] = heap[s[k]].next,
         NEW Q, Q = R \ {Top(s)}
  PROVE  PreAhead(a, Q)
<1> PICK m, t, n : m = Len(s) /\ t = Top(s) /\ n = heap[s[k]].next
  OBVIOUS
<1>1. /\ m \in Nat /\ m >= 1 /\ t = s[m] /\ s[1] = RootNode /\ k \in 1..m
      /\ \A i \in 1..m : s[i] \in Live /\ s[i] \in InTree
      /\ \A i \in 2..m : heap[s[i]].parent = s[i - 1]
      /\ R \subseteq Live /\ Null \notin R /\ t \in Live /\ t \in R /\ t # Null
  BY PreFacts, Neighbours
<1>2. /\ Path(s) /\ R \subseteq InTree
      /\ \A i \in 1..m - 1 : s[i] \notin R
      /\ \A x \in R, y \in Live : heap[y].parent = x => y \in R
      /\ \A x \in R \cup OnStack(s) : heap[x].next # Null => heap[x].next \in R
      /\ \A i \in 2..m : heap[s[i]].previous \notin R
      /\ \A x \in R \ {RootNode} : heap[x].parent \notin R =>
           \E i \in 1..m - 1 : /\ heap[x].parent = s[i]
                               /\ x = s[i + 1] \/ heap[x].previous \in R \/ heap[x].previous = s[i + 1]
  BY DEF PreAhead
<1>3. /\ \A x \in R \cup OnStack(s) : heap[x].next # t
      /\ heap[t].parent \notin R
  BY NoneBefore
<1>4. s[k] \in Live /\ s[k] \in OnStack(s)
  BY <1>1 DEF OnStack
<1>5. /\ n # Null /\ n \in Live /\ heap[n].parent = heap[s[k]].parent /\ heap[n].previous = s[k]
      /\ n \in R /\ n # t /\ n \in InTree
  BY <1>2, <1>3, <1>4, Neighbours
<1>6. k # 1 /\ k \in 2..m
  BY <1>1, <1>5, RootIsAlone
<1>7. a[k] = n /\ \A i \in 1..k : i = k \/ (i \in 1..k - 1 /\ i \in 1..m - 1 /\ i \in 1..m /\ a[i] = s[i])
  BY <1>1
<1>8. Path(a)
  <2>1. a[1] = RootNode
    BY <1>1, <1>6
  <2>2. \A i \in 1..k : a[i] \in InTree
    BY <1>1, <1>5, <1>7
  <2>3. \A i \in 2..k : heap[a[i]].parent = a[i - 1]
    <3> TAKE i \in 2..k
    <3>1. i \in 2..m /\ i - 1 \in 1..k - 1 /\ i \in 1..k
      BY <1>1
    <3>2. heap[s[i]].parent = a[i - 1]
      BY <1>1, <3>1
    <3>3. CASE i = k
      BY <1>5, <1>7, <3>2, <3>3
    <3>4. CASE i # k
      BY <1>7, <3>1, <3>2, <3>4
    <3> QED
      BY <3>3, <3>4
  <2> QED
    BY <2>1, <2>2, <2>3 DEF Path
<1>9. \A i \in 1..k - 1 : a[i] \notin Q
  <2> TAKE i \in 1..k - 1
  <2>1. i \in 1..m - 1
    BY <1>1
  <2> QED
    BY <1>2, <2>1
<1>10. \A x \in Q, y \in Live : heap[y].parent = x => y \in Q
  BY <1>2, <1>3
<1>11. \A x \in Q \cup OnStack(a) : heap[x].next # Null => heap[x].next \in Q
  <2>1. OnStack(a) \subseteq R \cup OnStack(s)
    <3> SUFFICES ASSUME NEW i \in 1..k PROVE a[i] \in R \cup OnStack(s)
      BY DEF OnStack
    <3> QED
      BY <1>5, <1>7 DEF OnStack
  <2> QED
    BY <1>2, <1>3, <2>1
<1>12. \A i \in 2..k : heap[a[i]].previous \notin Q
  <2> TAKE i \in 2..k
  <2>1. CASE i = k
    <3>1. k = m \/ k \in 1..m - 1
      BY <1>1
    <3> QED
      BY <1>1, <1>2, <1>5, <1>7, <2>1, <3>1
  <2>2. CASE i # k
    <3>1. i \in 2..m /\ i \in 1..k
      BY <1>1
    <3> QED
      BY <1>2, <1>7, <2>2, <3>1
  <2> QED
    BY <2>1, <2>2
<1>13. ASSUME NEW x \in Q \ {RootNode}, heap[x].parent \notin Q
       PROVE  \E i \in 1..k - 1 : /\ heap[x].parent = a[i]
                                  /\ x = a[i + 1] \/ heap[x].previous \in Q \/ heap[x].previous = a[i + 1]
  <2>1. x \in Live /\ x \in R /\ x # t
    BY <1>1
  <2>2. heap[x].parent # t
    BY <1>1, <2>1, NoChildren
  <2>3. PICK i \in 1..m - 1 : /\ heap[x].parent = s[i]
                              /\ x = s[i + 1] \/ heap[x].previous \in R \/ heap[x].previous = s[i + 1]
    BY <1>2, <1>13, <2>1, <2>2
  <2>4. i \in 1..m /\ i + 1 \in 2..m /\ i + 1 \in 1..m /\ i + 1 - 1 = i
    BY <1>1
  <2>5. i < k
    <3> SUFFICES ASSUME i >= k PROVE FALSE
      BY <1>1, <2>4
    <3>1. \A j \in i + 1..m : j \in k + 1..m
      BY <1>1, <2>4
    <3>2. \A j \in i + 1..m : heap[s[j]].next = Null
      BY <3>1
    <3> QED
      BY <2>3, <2>4, <3>2, NoneLeftBelow
  <2>6. i \in 1..k - 1 /\ i + 1 \in 1..k /\ a[i] = s[i]
    BY <1>1, <2>4, <2>5
  <2>7. x # s[i + 1]
    <3>1. i + 1 = m \/ i + 1 \in 1..m - 1
      BY <1>1, <2>4
    <3> QED
      BY <1>1, <1>2, <2>1, <3>1
  <2>8. heap[x].previous # Null => heap[heap[x].previous].next = x /\ heap[heap[x].previous].parent = heap[x].parent
    BY <2>1, Neighbours
  <2>9. heap[x].previous # Null
    BY <1>1, <2>3, <2>4, <2>7, Neighbours
  <2>10. ASSUME heap[x].previous = s[i + 1] PROVE heap[x].previous = a[i + 1] \/ x = a[i + 1]
    BY <1>7, <2>6, <2>8, <2>9, <2>10
  <2>11. ASSUME heap[x].previous = t PROVE x = a[i + 1]
    <3>1. heap[t].next = x /\ heap[t].parent = heap[x].parent /\ x # Null
      BY <2>1, <2>8, <2>9, <2>11, Neighbours
    <3>2. k = m
      <4> SUFFICES ASSUME k # m PROVE FALSE
        OBVIOUS
      <4>1. m \in k + 1..m
        BY <1>1
      <4> QED
        BY <1>1, <3>1, <4>1
    <3>3. i + 1 = k
      <4>1. heap[s[i + 1]].parent = heap[s[m]].parent /\ m \in 1..m
        BY <1>1, <2>3, <2>4, <3>1
      <4> QED
        BY <1>2, <2>4, <3>2, <4>1, OneSibling
    <3> QED
      BY <1>1, <1>7, <3>1, <3>2, <3>3
  <2> QED
    BY <2>3, <2>6, <2>7, <2>10, <2>11
<1>14. a[k] \in Q /\ Q \subseteq InTree
  BY <1>1, <1>2, <1>5, <1>7
<1>15. PreAhead(a, Q)
  BY <1>8, <1>9, <1>10, <1>11, <1>12, <1>13, <1>14 DEF PreAhead
<1> QED
  BY <1>15

LEMMA AscendGoes ==
  ASSUME NEW s \in Seq(Node)
  PROVE  \E k \in 0..Len(s) : /\ Ascend(s) = SubSeq(s, 1, k)
                              /\ k # 0 => heap[s[k]].next # Null
                              /\ \A j \in k + 1..Len(s) : heap[s[j]].next = Null
<1> PICK m : m = Len(s)
  OBVIOUS
<1>1. m \in Nat
  OBVIOUS
<1> DEFINE K == {k \in 0..m : \A j \in k + 1..m : heap[s[j]].next = Null}
           W == {k \in 1..m : heap[s[k]].next # Null} \cup {0}
<1>2. m \in K /\ K \in SUBSET Nat
  BY <1>1
<1>3. PICK k \in K : \A j \in K : k <= j
  <2> HIDE DEF K
  <2> QED
    BY <1>2, LeastElement
<1>4. k \in 0..m /\ \A j \in k + 1..m : heap[s[j]].next = Null
  OBVIOUS
<1>5. ASSUME k # 0 PROVE heap[s[k]].next # Null
  <2> SUFFICES ASSUME heap[s[k]].next = Null PROVE FALSE
    OBVIOUS
  <2>1. k - 1 \in 0..m /\ \A j \in k - 1 + 1..m : j = k \/ j \in k + 1..m
    BY <1>1, <1>4, <1>5
  <2>2. k - 1 \in K
    BY <1>4, <2>1
  <2>3. k <= k - 1
    BY <1>3, <2>2
  <2> QED
    BY <1>1, <1>4, <2>3
<1> HIDE DEF K
<1>6. k \in W
  BY <1>4, <1>5
<1>7. ASSUME NEW j \in W PROVE j <= k
  <2> SUFFICES ASSUME j > k PROVE FALSE
    BY <1>1, <1>4
  <2>1. j \in k + 1..m
    BY <1>1, <1>4
  <2> QED
    BY <1>4, <2>1
<1>8. \A j \in W : j \in Int /\ k \in Int
  BY <1>1, <1>4
<1>9. Max(W) = k
  <2> HIDE DEF W
  <2>1. \A x : (x \in W /\ \A y \in W : x >= y) <=> x = k
    BY <1>6, <1>7, <1>8
  <2> QED
    BY <2>1 DEF Max
<1>10. Ascend(s) = SubSeq(s, 1, k)
  BY <1>9 DEF Ascend
<1> QED
  BY <1>4, <1>5, <1>10

LEMMA Prefix ==
  ASSUME NEW s \in Seq(Node), NEW k \in 0..Len(s), NEW u, u = SubSeq(s, 1, k)
  PROVE  u \in Seq(Node) /\ Len(u) = k /\ \A i \in 1..k : u[i] = s[i]
<1>1. \A i \in 1..k : s[i] \in Node
  OBVIOUS
<1>2. /\ SubSeq(s, 1, k) \in Seq(Node)
      /\ Len(SubSeq(s, 1, k)) = IF 1 <= k THEN k - 1 + 1 ELSE 0
      /\ \A i \in 1..(k - 1 + 1) : SubSeq(s, 1, k)[i] = s[1 + i - 1]
  BY <1>1, SubSeqProperties
<1>3. PICK l : l = Len(u)
  OBVIOUS
<1>4. l = IF 1 <= k THEN k - 1 + 1 ELSE 0
  BY <1>2, <1>3
<1>5. l = k
  BY <1>4
<1>6. \A i \in 1..k : i \in 1..(k - 1 + 1) /\ 1 + i - 1 = i
  OBVIOUS
<1>7. \A i \in 1..(k - 1 + 1) : u[i] = s[1 + i - 1]
  BY <1>2
<1>8. \A i \in 1..k : u[i] = s[i]
  <2> TAKE i \in 1..k
  <2>1. u[i] = s[1 + i - 1]
    BY <1>6, <1>7
  <2> QED
    BY <1>6, <2>1
<1> QED
  BY <1>2, <1>3, <1>5, <1>8

LEMMA PreNext ==
  ASSUME IInv, NEW s, NEW R, PreAhead(s, R), NEW Q, Q = R \ {Top(s)}
  PROVE  \/ PreOrderNext(s) = <<>> /\ Q = {}
         \/ PreAhead(PreOrderNext(s), Q)
<1> PICK m, t, b : m = Len(s) /\ t = Top(s) /\ b = PreOrderNext(s)
  OBVIOUS
<1>1. /\ s \in Stack /\ s \in Seq(Node) /\ s # <<>> /\ m \in Nat /\ m >= 1 /\ t = s[m]
      /\ t \in Live /\ Path(s)
  BY PreFacts DEF PreAhead, Stack
<1>2. CASE heap[t].start # Null
  <2>1. b = Append(s, heap[t].start)
    BY <1>1, <1>2 DEF PreOrderNext
  <2> QED
    BY <1>2, <2>1, PreDown
<1>3. CASE heap[t].start = Null /\ heap[t].next # Null
  <2> PICK n : n = heap[t].next
    OBVIOUS
  <2>1. b = SetTop(s, n)
    BY <1>1, <1>3 DEF PreOrderNext
  <2>2. n \in Node
    BY <1>1, <1>3, Neighbours DEF Live, LiveIn
  <2>3. b \in Stack /\ Len(b) = m /\ (\A i \in 1..m - 1 : b[i] = s[i]) /\ b[m] = n
    <3>1. ASSUME NEW c \in Stack, NEW d, d = SetTop(c, n)
          PROVE  d \in Stack /\ Len(d) = Len(c) /\ (\A i \in 1..Len(c) - 1 : d[i] = c[i]) /\ d[Len(c)] = n
      BY <2>2, <3>1, TopIsSet
    <3>2. b \in Stack /\ Len(b) = Len(s) /\ (\A i \in 1..Len(s) - 1 : b[i] = s[i]) /\ b[Len(s)] = n
      BY <1>1, <2>1, <3>1
    <3> QED
      BY <3>2
  <2>4. m \in 1..m /\ \A j \in m + 1..m : heap[s[j]].next = Null
    BY <1>1
  <2>5. PreAhead(b, Q)
    BY <1>1, <1>3, <2>3, <2>4, PreOn
  <2> QED
    BY <2>5
<1>4. CASE heap[t].start = Null /\ heap[t].next = Null
  <2>1. PICK k \in 0..m : /\ Ascend(s) = SubSeq(s, 1, k)
                          /\ k # 0 => heap[s[k]].next # Null
                          /\ \A j \in k + 1..m : heap[s[j]].next = Null
    BY <1>1, AscendGoes
  <2> PICK u : u = SubSeq(s, 1, k)
    OBVIOUS
  <2>2. u \in Seq(Node) /\ Len(u) = k /\ \A i \in 1..k : u[i] = s[i]
    BY <1>1, Prefix
  <2>3. CASE k = 0
    <3>1. u = <<>>
      BY <2>2, <2>3
    <3>2. b = <<>>
      BY <1>1, <1>4, <2>1, <3>1 DEF PreOrderNext
    <3>3. \A j \in 1..m : heap[s[j]].next = Null
      BY <2>1, <2>3
    <3>4. Q = {}
      BY <1>4, <3>3, PreEnds
    <3> QED
      BY <3>2, <3>4
  <2>4. CASE k # 0
    <3>1. k \in 1..m /\ k \in 1..k /\ k \in Nat
      BY <1>1, <2>4
    <3>2. u # <<>>
      BY <2>2, <2>4
    <3>3. u \in Stack /\ Top(u) = s[k]
      <4>1. u \in Stack
        BY <2>2, <3>2 DEF Stack
      <4>2. Top(u) = u[Len(u)]
        BY <4>1, StackFacts
      <4> QED
        BY <2>2, <3>1, <4>1, <4>2
    <3> PICK n : n = heap[s[k]].next
      OBVIOUS
    <3>4. b = SetTop(u, n)
      BY <1>1, <1>4, <2>1, <3>2, <3>3 DEF PreOrderNext
    <3>5. s[k] \in Live
      BY <1>1, <3>1, PathFacts
    <3>6. n # Null /\ n \in Node
      BY <2>1, <2>4, <3>5, Neighbours DEF Live, LiveIn
    <3>7. b \in Stack /\ Len(b) = Len(u) /\ (\A i \in 1..Len(u) - 1 : b[i] = u[i]) /\ b[Len(u)] = n
      <4>1. ASSUME NEW c \in Stack, NEW d, d = SetTop(c, n)
            PROVE  d \in Stack /\ Len(d) = Len(c) /\ (\A i \in 1..Len(c) - 1 : d[i] = c[i]) /\ d[Len(c)] = n
        BY <3>6, <4>1, TopIsSet
      <4> QED
        BY <3>3, <3>4, <4>1
    <3>8. b \in Stack /\ Len(b) = k /\ (\A i \in 1..k - 1 : b[i] = s[i]) /\ b[k] = n
      <4>1. \A i \in 1..k - 1 : i \in 1..k
        BY <3>1
      <4> QED
        BY <2>2, <3>7, <4>1
    <3>9. PreAhead(b, Q)
      BY <1>4, <2>1, <2>4, <3>1, <3>8, PreOn
    <3> QED
      BY <3>9
  <2> QED
    BY <2>3, <2>4
<1> QED
  BY <1>2, <1>3, <1>4

LEMMA PreOrderTurns ==
  ASSUME IInv
  PROVE  /\ PreOrder \in [Turns -> Seq(Node)] /\ PreOrder[0] = begin
         /\ \A k \in 1..MaxNode : PreOrder[k] = PreOrderNext(PreOrder[k - 1])
<1> DEFINE Body(g) == [k \in Turns |-> IF k = 0 THEN begin ELSE PreOrderNext(g[k - 1])]
           at == CHOOSE g : g = Body(g)
           turn == [c \in Seq(Node) |-> PreOrderNext(c)]
<1>1. MaxNode \in Nat /\ Turns = 0..MaxNode
  BY BoundsAssumption DEF Turns
<1>2. \A n \in Node : heap[n].next \in Node \cup {Null} /\ heap[n].start \in Node \cup {Null}
  BY DEF IInv, TypeOK, NodeRecord, Link
<1>3. \A c \in Seq(Node) : PreOrderNext(c) \in Seq(Node)
  <2> TAKE c \in Seq(Node)
  <2>1. CASE c = <<>>
    BY <2>1 DEF PreOrderNext
  <2>2. CASE c # <<>>
    <3>1. c \in Stack /\ Top(c) \in Node
      BY <2>2, StackFacts DEF Stack
    <3>2. heap[Top(c)].start # Null => Append(c, heap[Top(c)].start) \in Seq(Node)
      BY <1>2, <3>1
    <3>3. heap[Top(c)].next # Null => SetTop(c, heap[Top(c)].next) \in Stack
      BY <1>2, <3>1, TopIsSet
    <3>4. PICK k \in 0..Len(c) : Ascend(c) = SubSeq(c, 1, k) /\ (k # 0 => heap[c[k]].next # Null)
      BY AscendGoes
    <3>5. PICK u : u = Ascend(c)
      OBVIOUS
    <3>6. u \in Seq(Node) /\ Len(u) = k /\ \A i \in 1..k : u[i] = c[i]
      BY <3>4, <3>5, Prefix
    <3>7. u # <<>> => SetTop(u, heap[Top(u)].next) \in Stack
      <4> HAVE u # <<>>
      <4>1. u \in Stack /\ Top(u) \in Node /\ Top(u) = u[Len(u)] /\ Len(u) \in Nat /\ Len(u) >= 1
        BY <3>6, StackFacts DEF Stack
      <4>2. k \in Nat /\ k # 0 /\ k \in 1..k
        BY <3>6, <4>1
      <4>3. Top(u) = c[k]
        BY <3>6, <4>1, <4>2
      <4>4. heap[Top(u)].next \in Node
        BY <1>2, <3>4, <4>1, <4>2, <4>3
      <4> QED
        BY <4>1, <4>4, TopIsSet
    <3>8. \A d \in Stack : d \in Seq(Node)
      BY DEF Stack
    <3> QED
      BY <2>2, <3>2, <3>3, <3>5, <3>6, <3>7, <3>8 DEF PreOrderNext
  <2> QED
    BY <2>1, <2>2
<1>4. begin \in Seq(Node)
  <2>1. RootNode \in Node
    BY RootIsAlone DEF Live, LiveIn
  <2> QED
    BY <2>1 DEF begin
<1>5. turn \in [Seq(Node) -> Seq(Node)]
  BY <1>3
<1>6. PICK f : IsLoop(f, Seq(Node), begin, turn)
  <2> HIDE DEF turn
  <2> QED
    BY <1>4, <1>5, LoopExists
<1>7. /\ f \in [Turns -> Seq(Node)] /\ f[0] = begin
      /\ \A k \in 1..MaxNode : f[k] = PreOrderNext(f[k - 1])
  BY <1>6, Zenon DEF IsLoop
<1>8. f = Body(f)
  <2>1. f = [k \in Turns |-> f[k]]
    BY <1>7
  <2>2. \A k \in Turns : f[k] = IF k = 0 THEN begin ELSE PreOrderNext(f[k - 1])
    BY <1>1, <1>7
  <2> QED
    BY <2>1, <2>2
<1>9. at = Body(at)
  BY <1>8
<1>10. PreOrder = at
  BY DEF PreOrder
<1> PICK g : g = at
  OBVIOUS
<1> HIDE DEF at
<1>11. g = [k \in Turns |-> IF k = 0 THEN begin ELSE PreOrderNext(g[k - 1])]
  BY <1>9
<1>12. g[0] = begin
  BY <1>1, <1>11
<1>13. \A k \in 1..MaxNode : g[k] = PreOrderNext(g[k - 1])
  <2> TAKE k \in 1..MaxNode
  <2>1. k \in Turns /\ k # 0
    BY <1>1
  <2> QED
    BY <1>11, <2>1
<1>14. g \in [Turns -> Seq(Node)]
  <2> DEFINE T == {k \in Turns : g[k] \in Seq(Node)}
  <2>1. 0 \in T
    BY <1>1, <1>4, <1>12
  <2>2. \A k \in 1..MaxNode : k - 1 \in T => k \in T
    <3> TAKE k \in 1..MaxNode
    <3> HAVE k - 1 \in T
    <3>1. k \in Turns
      BY <1>1
    <3> QED
      BY <1>3, <1>13, <3>1
  <2> HIDE DEF T
  <2>3. 0..MaxNode \subseteq T
    BY <1>1, <2>1, <2>2, EveryTurn
  <2> QED
    BY <1>1, <1>11, <2>3 DEF T
<1> QED
  BY <1>10, <1>12, <1>13, <1>14

LEMMA PreBegins ==
  ASSUME IInv
  PROVE  PreAhead(begin, InTree)
<1> PICK s : s = begin
  OBVIOUS
<1>1. /\ RootNode \in InTree /\ InTree \in SUBSET Live
      /\ \A x \in Live : heap[x].parent \in InTree => x \in InTree
      /\ \A x \in InTree \ {RootNode} : heap[x].parent \in InTree
      /\ \A x \in InTree : heap[x].next # Null => heap[x].next \in InTree
  BY TreeHas
<1>2. /\ s \in Stack /\ Len(s) = 1 /\ s[1] = RootNode
  BY <1>1 DEF begin, Stack, Live, LiveIn
<1>3. Path(s) /\ OnStack(s) \subseteq InTree
  BY <1>1, <1>2 DEF Path, OnStack
<1>4. PreAhead(s, InTree)
  BY <1>1, <1>2, <1>3 DEF PreAhead
<1> QED
  BY <1>4

LEMMA PreOrderKept ==
  ASSUME IInv
  PROVE  IteratorIsPreOrder
<1> PICK at : at = PreOrder
  OBVIOUS
<1>1. MaxNode \in Nat /\ Turns = 0..MaxNode
  BY BoundsAssumption DEF Turns
<1>2. /\ at \in [Turns -> Seq(Node)] /\ at[0] = begin
      /\ \A k \in 1..MaxNode : at[k] = PreOrderNext(at[k - 1])
  BY PreOrderTurns
<1> DEFINE Right(k) == \/ at[k] = <<>> /\ Ahead(at, k) = {}
                       \/ PreAhead(at[k], Ahead(at, k))
           T == {k \in Turns : Right(k)}
<1>3. 0 \in T
  <2>1. Ahead(at, 0) = InTree
    BY DEF Ahead
  <2> QED
    BY <1>1, <1>2, <2>1, PreBegins
<1>4. ASSUME NEW k \in 1..MaxNode, k - 1 \in T PROVE k \in T
  <2>0. k \in Turns /\ k - 1 \in Turns /\ k - 1 \in 0..k - 1 /\ at[k] = PreOrderNext(at[k - 1])
        /\ (\A i \in 0..k - 1 : i = k - 1 \/ i \in 0..(k - 1) - 1)
        /\ \A i \in 0..(k - 1) - 1 : i \in 0..k - 1
    BY <1>1, <1>2
  <2>1. CASE at[k - 1] = <<>> /\ Ahead(at, k - 1) = {}
    <3>1. at[k] = <<>>
      BY <2>0, <2>1 DEF PreOrderNext
    <3>2. Ahead(at, k) = {}
      BY <2>0, <2>1 DEF Ahead
    <3> QED
      BY <2>0, <3>1, <3>2
  <2>2. CASE PreAhead(at[k - 1], Ahead(at, k - 1))
    <3> PICK c, R : c = at[k - 1] /\ R = Ahead(at, k - 1)
      OBVIOUS
    <3>1. c # <<>>
      BY <2>2, PreFacts DEF Stack
    <3>2. Ahead(at, k) = R \ {Top(c)}
      BY <2>0, <3>1 DEF Ahead
    <3>3. \/ PreOrderNext(c) = <<>> /\ R \ {Top(c)} = {}
          \/ PreAhead(PreOrderNext(c), R \ {Top(c)})
      BY <2>2, PreNext
    <3> QED
      BY <2>0, <3>2, <3>3
  <2> QED
    BY <1>4, <2>1, <2>2
<1> HIDE DEF T
<1>5. 0..MaxNode \subseteq T
  BY <1>1, <1>3, <1>4, EveryTurn
<1>6. \A k \in Turns : Right(k)
  BY <1>1, <1>5 DEF T
<1> HIDE DEF Right
<1>7. \A k \in Turns : \/ at[k] = <<>> /\ Ahead(at, k) = {}
                       \/ at[k] # <<>> /\ Top(at[k]) \in Ahead(at, k)
  <2> TAKE k \in Turns
  <2>1. CASE PreAhead(at[k], Ahead(at, k))
    BY <2>1, PreFacts DEF Stack
  <2> QED
    BY <1>6, <2>1 DEF Right
<1>8. /\ VisitsEachOnce(at, Visits(at))
      /\ \A k \in Turns, y \in InTree :
           at[k] # <<>> /\ y \in Ahead(at, k) /\ y # Top(at[k]) => Before(Visits(at), Top(at[k]), y)
      /\ \A x \in InTree : \E k \in Turns : at[k] # <<>> /\ Top(at[k]) = x
  BY <1>2, <1>7, LoopVisits
<1>9. \A x \in InTree \ {RootNode} : Before(Visits(at), heap[x].parent, x)
  <2> TAKE x \in InTree \ {RootNode}
  <2> PICK p : p = heap[x].parent
    OBVIOUS
  <2>1. p \in InTree /\ x \in Live /\ p \in Live
    BY TreeHas
  <2>2. PICK k \in Turns : at[k] # <<>> /\ Top(at[k]) = p
    BY <1>8, <2>1
  <2>3. PreAhead(at[k], Ahead(at, k))
    BY <1>6, <2>2 DEF Right
  <2>4. p \in Ahead(at, k)
    BY <2>2, <2>3, PreFacts
  <2>5. x \in Ahead(at, k)
    BY <2>1, <2>3, <2>4 DEF PreAhead
  <2>6. p < x /\ x \in Nat
    BY <2>1, Neighbours
  <2> QED
    BY <1>8, <2>2, <2>5, <2>6
<1>10. \A x \in InTree : heap[x].next # Null =>
         \A y \in Subtree(x) : Before(Visits(at), y, heap[x].next)
  <2> TAKE x \in InTree
  <2> HAVE heap[x].next # Null
  <2> TAKE y \in Subtree(x)
  <2> PICK n : n = heap[x].next
    OBVIOUS
  <2>1. /\ x \in Live /\ n \in Live /\ n \in InTree /\ heap[n].parent = heap[x].parent
        /\ heap[n].previous = x
    BY TreeHas, Neighbours
  <2>2. y \in InTree
    BY SubtreeInSubtree, RootIsAlone DEF InTree
  <2>3. PICK k \in Turns : at[k] # <<>> /\ Top(at[k]) = y
    BY <1>8, <2>2
  <2> PICK s, R : s = at[k] /\ R = Ahead(at, k)
    OBVIOUS
  <2>4. PreAhead(s, R)
    BY <1>6, <2>3 DEF Right
  <2>5. Path(s) /\ Len(s) \in Nat /\ Len(s) >= 1 /\ s[Len(s)] = y
    BY <2>3, <2>4, PreFacts DEF PreAhead
  <2>6. PICK i \in 1..Len(s) : s[i] = x
    <3>1. Len(s) \in 1..Len(s)
      BY <2>5
    <3>2. PICK j \in 1..Len(s) : s[j] = x
      BY <2>1, <2>5, <3>1, AncestorsOnPath
    <3> QED
      BY <3>2
  <2>7. n \in R
    BY <2>4, <2>6 DEF PreAhead, OnStack
  <2>8. n # y
    BY <2>3, <2>4, <2>6, NoneBefore DEF OnStack
  <2> QED
    BY <1>8, <2>1, <2>3, <2>7, <2>8
<1> QED
  BY <1>8, <1>9, <1>10 DEF IteratorIsPreOrder

-----------------------------------------------------------------------------
(* n_set *)

\* The loop over the children of a group.
LEMMA ChildrenTurns ==
  ASSUME IInv, NEW n \in Live
  PROVE  \E at \in [Turns -> Link] : /\ Children(n) = {at[k] : k \in Turns} \ {Null}
                                     /\ at[0] = heap[n].start
                                     /\ \A k \in 1..MaxNode : at[k] = NextSibling(at[k - 1])
<1> DEFINE Body(g) == [k \in Turns |-> IF k = 0 THEN heap[n].start ELSE NextSibling(g[k - 1])]
           at == CHOOSE g : g = Body(g)
           turn == [c \in Link |-> NextSibling(c)]
<1>1. MaxNode \in Nat /\ Turns = 0..MaxNode
  BY BoundsAssumption DEF Turns
<1>2. \A x \in Node : heap[x].next \in Link /\ heap[x].start \in Link
  BY DEF IInv, TypeOK, NodeRecord
<1>3. \A c \in Link : NextSibling(c) \in Link
  BY <1>2 DEF NextSibling, Link
<1>4. heap[n].start \in Link
  BY <1>2 DEF Live, LiveIn
<1>5. turn \in [Link -> Link]
  BY <1>3
<1>6. PICK f : IsLoop(f, Link, heap[n].start, turn)
  <2> HIDE DEF turn
  <2> QED
    BY <1>4, <1>5, LoopExists
<1>7. /\ f \in [Turns -> Link] /\ f[0] = heap[n].start
      /\ \A k \in 1..MaxNode : f[k] = NextSibling(f[k - 1])
  BY <1>6, Zenon DEF IsLoop
<1>8. f = Body(f)
  <2>1. f = [k \in Turns |-> f[k]]
    BY <1>7
  <2>2. \A k \in Turns : f[k] = IF k = 0 THEN heap[n].start ELSE NextSibling(f[k - 1])
    BY <1>1, <1>7
  <2> QED
    BY <2>1, <2>2
<1>9. at = Body(at)
  BY <1>8
<1>10. Children(n) = {at[k] : k \in Turns} \ {Null}
  BY DEF Children
<1> PICK g : g = at
  OBVIOUS
<1> HIDE DEF at
<1>11. g = [k \in Turns |-> IF k = 0 THEN heap[n].start ELSE NextSibling(g[k - 1])]
  BY <1>9
<1>12. g[0] = heap[n].start
  BY <1>1, <1>11
<1>13. \A k \in 1..MaxNode : g[k] = NextSibling(g[k - 1])
  <2> TAKE k \in 1..MaxNode
  <2>1. k \in Turns /\ k # 0
    BY <1>1
  <2> QED
    BY <1>11, <2>1
<1>14. g \in [Turns -> Link]
  <2> DEFINE T == {k \in Turns : g[k] \in Link}
  <2>1. 0 \in T
    BY <1>1, <1>4, <1>12
  <2>2. \A k \in 1..MaxNode : k - 1 \in T => k \in T
    <3> TAKE k \in 1..MaxNode
    <3> HAVE k - 1 \in T
    <3>1. k \in Turns
      BY <1>1
    <3> QED
      BY <1>3, <1>13, <3>1
  <2> HIDE DEF T
  <2>3. 0..MaxNode \subseteq T
    BY <1>1, <2>1, <2>2, EveryTurn
  <2> QED
    BY <1>1, <1>11, <2>3 DEF T
<1> QED
  BY <1>10, <1>12, <1>13, <1>14

\* It comes to every child and ends.
LEMMA ChildrenAre ==
  ASSUME IInv, NEW n \in Live
  PROVE  Children(n) = {x \in Live : heap[x].parent = n}
<1>1. MaxNode \in Nat /\ Turns = 0..MaxNode /\ n # Null
  BY BoundsAssumption, Neighbours DEF Turns
<1>2. PICK at \in [Turns -> Link] : /\ Children(n) = {at[k] : k \in Turns} \ {Null}
                                    /\ at[0] = heap[n].start
                                    /\ \A k \in 1..MaxNode : at[k] = NextSibling(at[k - 1])
  BY ChildrenTurns
<1> DEFINE T == {k \in Turns : at[k] # Null => at[k] \in Live /\ heap[at[k]].parent = n}
<1>3. 0 \in T
  BY <1>1, <1>2, Neighbours
<1>4. ASSUME NEW k \in 1..MaxNode, k - 1 \in T PROVE k \in T
  <2>1. k \in Turns /\ at[k] = NextSibling(at[k - 1])
    BY <1>1, <1>2
  <2>2. CASE at[k - 1] = Null
    BY <2>1, <2>2 DEF NextSibling
  <2>3. CASE at[k - 1] # Null
    <3>1. at[k - 1] \in Live /\ heap[at[k - 1]].parent = n /\ at[k] = heap[at[k - 1]].next
      BY <1>4, <2>1, <2>3 DEF NextSibling
    <3> QED
      BY <2>1, <3>1, Neighbours
  <2> QED
    BY <2>2, <2>3
<1> HIDE DEF T
<1>5. 0..MaxNode \subseteq T
  BY <1>1, <1>3, <1>4, EveryTurn
<1>6. \A k \in Turns : at[k] # Null => at[k] \in Live /\ heap[at[k]].parent = n
  BY <1>1, <1>5 DEF T
<1>7. PICK e \in Turns : at[e] = Null
  <2> SUFFICES ASSUME \A k \in Turns : at[k] # Null PROVE FALSE
    OBVIOUS
  <2>1. \A k \in 1..MaxNode : at[k - 1] = heap[at[k]].previous
    <3> TAKE k \in 1..MaxNode
    <3>1. k \in Turns /\ k - 1 \in Turns
      BY <1>1
    <3>2. at[k - 1] \in Live /\ at[k - 1] # Null /\ at[k] # Null /\ at[k] = heap[at[k - 1]].next
      BY <1>2, <1>6, <3>1 DEF NextSibling
    <3> QED
      BY <3>2, Neighbours
  <2>2. at \in [Turns -> Node]
    BY <1>2, <1>6 DEF Live, LiveIn
  <2>3. PICK a, b \in Turns : a # b /\ at[a] = at[b]
    BY <2>2, LoopEnds
  <2> DEFINE M == {i \in Turns : \E j \in Turns : i < j /\ at[i] = at[j]}
  <2>4. M # {} /\ M \in SUBSET Nat
    <3>1. a < b \/ b < a
      BY <1>1, <2>3
    <3>2. a \in M \/ b \in M
      BY <2>3, <3>1
    <3> QED
      BY <1>1, <3>2
  <2>5. PICK i \in M : \A j \in M : i <= j
    <3> HIDE DEF M
    <3> QED
      BY <2>4, LeastElement
  <2>6. PICK j \in Turns : i < j /\ at[i] = at[j]
    BY <2>5
  <2>7. j \in 1..MaxNode /\ j - 1 \in Turns /\ i \in Turns
    BY <1>1, <2>6
  <2>8. at[j - 1] = heap[at[i]].previous /\ at[j - 1] # Null
    BY <2>1, <2>6, <2>7
  <2>9. CASE i = 0
    <3>1. heap[n].start # Null /\ at[i] = heap[n].start
      BY <1>1, <1>2, <2>7, <2>9
    <3>2. heap[at[i]].previous = Null
      BY <3>1, Neighbours
    <3> QED
      BY <2>8, <3>2
  <2>10. CASE i # 0
    <3>1. i \in 1..MaxNode /\ i - 1 \in Turns /\ i - 1 < j - 1
      BY <1>1, <2>6, <2>7, <2>10
    <3>2. at[i - 1] = at[j - 1]
      BY <2>1, <2>8, <3>1
    <3>3. i - 1 \in M
      BY <2>7, <3>1, <3>2
    <3>4. i <= i - 1
      BY <2>5, <3>3
    <3> QED
      BY <1>1, <2>7, <3>4
  <2> QED
    BY <2>9, <2>10
<1>8. at[MaxNode] = Null
  <2> DEFINE U == {k \in Turns : k >= e => at[k] = Null}
  <2>1. 0 \in U
    BY <1>1, <1>7
  <2>2. ASSUME NEW k \in 1..MaxNode, k - 1 \in U PROVE k \in U
    <3>1. k = e \/ (k > e => k - 1 >= e)
      BY <1>1
    <3>2. at[k] = NextSibling(at[k - 1]) /\ k \in Turns
      BY <1>1, <1>2
    <3>3. k > e => at[k] = Null
      BY <1>1, <2>2, <3>1, <3>2 DEF NextSibling
    <3> QED
      BY <1>1, <1>7, <3>2, <3>3
  <2> HIDE DEF U
  <2>3. 0..MaxNode \subseteq U
    BY <1>1, <2>1, <2>2, EveryTurn
  <2> QED
    BY <1>1, <2>3 DEF U
<1> DEFINE C == {x \in Live : heap[x].parent = n /\ \A k \in Turns : at[k] # x}
<1>9. \A x \in C : heap[x].previous \in C
  <2> TAKE x \in C
  <2>1. x \in Live /\ heap[x].parent = n /\ x # Null
    BY <1>1, Neighbours
  <2>2. heap[x].previous # Null
    <3> SUFFICES ASSUME heap[x].previous = Null PROVE FALSE
      OBVIOUS
    <3>1. heap[n].start = x
      BY <1>1, <2>1, Neighbours
    <3> QED
      BY <1>1, <1>2, <3>1
  <2>3. heap[x].previous \in Live /\ heap[heap[x].previous].parent = n /\ heap[heap[x].previous].next = x
    BY <2>1, <2>2, Neighbours
  <2>4. ASSUME NEW k \in Turns, at[k] = heap[x].previous PROVE FALSE
    <3>1. k # MaxNode
      BY <1>8, <2>2, <2>4
    <3>2. k + 1 \in 1..MaxNode /\ k + 1 \in Turns /\ (k + 1) - 1 = k
      BY <1>1, <3>1
    <3>3. at[k + 1] = NextSibling(at[k])
      BY <1>2, <3>2
    <3>4. at[k + 1] = x
      BY <2>2, <2>3, <2>4, <3>3 DEF NextSibling
    <3> QED
      BY <3>2, <3>4
  <2> QED
    BY <2>3, <2>4
<1>10. C = {}
  BY <1>9, NoCircle
<1>11. \A x \in Live : heap[x].parent = n => x \in Children(n)
  BY <1>2, <1>10, Neighbours
<1>12. \A x \in Children(n) : x \in Live /\ heap[x].parent = n
  BY <1>2, <1>6
<1> QED
  BY <1>11, <1>12

\* A call of n_set calls it again for younger nodes only.
LEMMA CallsYounger ==
  ASSUME IInv, NEW n \in Node
  PROVE  \A x \in CalledBy(n) : x \in Node /\ n < x
<1> SUFFICES ASSUME NEW x \in CalledBy(n) PROVE x \in Node /\ n < x
  OBVIOUS
<1>1. IsKind(n, "group") /\ \E c \in Children(n) : x = node_map[heap[c].id]
  BY DEF CalledBy
<1>2. n \in Live
  BY <1>1 DEF IsKind, Live, LiveIn
<1>3. PICK c \in Live : heap[c].parent = n /\ x = node_map[heap[c].id]
  BY <1>1, <1>2, ChildrenAre
<1>4. x # Null
  BY DEF CalledBy
<1>5. heap[c].id \in Id
  BY DEF IInv, TypeOK, NodeRecord, Live, LiveIn
<1>6. x \in Node
  BY <1>3, <1>4, <1>5 DEF IInv, TypeOK, Link
<1>7. c <= x
  BY <1>3, <1>4 DEF IInv, NewestOwnsId
<1>8. n < c /\ n \in Nat /\ c \in Nat
  BY <1>2, <1>3, Neighbours
<1>9. x \in Nat
  BY <1>6, NodesArePositive
<1> QED
  BY <1>6, <1>7, <1>8, <1>9

AllCalledBy(S) == UNION {CalledBy(n) : n \in S}

LEMMA CalledTurns ==
  ASSUME IInv, NEW id \in Id, node_map[id] \in Node
  PROVE  /\ Called(id) \in [Turns -> SUBSET Node] /\ Called(id)[0] = {node_map[id]}
         /\ \A d \in 1..MaxNode : Called(id)[d] = AllCalledBy(Called(id)[d - 1])
<1> PICK t : t = {node_map[id]}
  OBVIOUS
<1> DEFINE Body(g) == [d \in Turns |-> IF d = 0 THEN t ELSE AllCalledBy(g[d - 1])]
           by == CHOOSE g : g = Body(g)
           turn == [S \in SUBSET Node |-> AllCalledBy(S)]
<1>1. MaxNode \in Nat /\ Turns = 0..MaxNode
  BY BoundsAssumption DEF Turns
<1>2. \A S \in SUBSET Node : AllCalledBy(S) \in SUBSET Node
  BY CallsYounger DEF AllCalledBy
<1>3. t \in SUBSET Node
  OBVIOUS
<1>4. turn \in [SUBSET Node -> SUBSET Node]
  BY <1>2
<1>5. PICK f : IsLoop(f, SUBSET Node, t, turn)
  <2> HIDE DEF turn
  <2> QED
    BY <1>3, <1>4, LoopExists
<1>6. /\ f \in [Turns -> SUBSET Node] /\ f[0] = t
      /\ \A d \in 1..MaxNode : f[d] = AllCalledBy(f[d - 1])
  BY <1>5, Zenon DEF IsLoop
<1>7. f = Body(f)
  <2>1. f = [d \in Turns |-> f[d]]
    BY <1>6
  <2>2. \A d \in Turns : f[d] = IF d = 0 THEN t ELSE AllCalledBy(f[d - 1])
    BY <1>1, <1>6
  <2> QED
    BY <2>1, <2>2
<1>8. by = Body(by)
  BY <1>7
<1>9. Called(id) = by
  BY DEF Called, AllCalledBy
<1> PICK g : g = by
  OBVIOUS
<1> HIDE DEF by
<1>10. g = [d \in Turns |-> IF d = 0 THEN t ELSE AllCalledBy(g[d - 1])]
  BY <1>8
<1>11. g[0] = t
  BY <1>1, <1>10
<1>12. \A d \in 1..MaxNode : g[d] = AllCalledBy(g[d - 1])
  <2> TAKE d \in 1..MaxNode
  <2>1. d \in Turns /\ d # 0
    BY <1>1
  <2> QED
    BY <1>10, <2>1
<1>13. g \in [Turns -> SUBSET Node]
  <2> DEFINE T == {d \in Turns : g[d] \in SUBSET Node}
  <2>1. 0 \in T
    BY <1>1, <1>3, <1>11
  <2>2. \A d \in 1..MaxNode : d - 1 \in T => d \in T
    <3> TAKE d \in 1..MaxNode
    <3> HAVE d - 1 \in T
    <3>1. d \in Turns
      BY <1>1
    <3> QED
      BY <1>2, <1>12, <3>1
  <2> HIDE DEF T
  <2>3. 0..MaxNode \subseteq T
    BY <1>1, <2>1, <2>2, EveryTurn
  <2> QED
    BY <1>1, <1>10, <2>3 DEF T
<1> QED
  BY <1>9, <1>11, <1>12, <1>13

LEMMA SetReaches ==
  ASSUME IInv
  PROVE  SetReachesGroup
<1> SUFFICES ASSUME NEW id \in Id, IsKind(node_map[id], "group")
             PROVE  /\ Called(id)[MaxNode] = {}
                    /\ \A x \in Below(node_map[id]) :
                         /\ heap[x].kind = "synth"
                         /\ \A g \in Below(node_map[id]) :
                              x \in Below(g) => g \in {y \in Live : node_map[heap[y].id] = y}
                         => x \in n_set(id)
                    /\ \A x \in n_set(id) : x > node_map[id]
  BY DEF SetReachesGroup
<1> PICK t, by : t = node_map[id] /\ by = Called(id)
  OBVIOUS
<1>1. MaxNode \in Nat /\ Turns = 0..MaxNode
  BY BoundsAssumption DEF Turns
<1>2. t \in Live /\ t \in Node /\ t \in Nat /\ t >= 1 /\ heap[t].kind = "group"
  <2>1. t \in Node /\ heap[t].kind = "group"
    BY DEF IsKind
  <2>2. t \in Live
    BY <2>1 DEF Live, LiveIn
  <2>3. t \in Nat /\ t # Null
    BY <2>2, Neighbours
  <2> QED
    BY <2>1, <2>2, <2>3 DEF Null
<1>3. /\ by \in [Turns -> SUBSET Node] /\ by[0] = {t}
      /\ \A d \in 1..MaxNode : by[d] = AllCalledBy(by[d - 1])
  BY <1>2, CalledTurns
<1> DEFINE T == {d \in Turns : \A x \in by[d] : x >= t + d}
<1>4. 0 \in T
  BY <1>1, <1>2, <1>3
<1>5. ASSUME NEW d \in 1..MaxNode, d - 1 \in T PROVE d \in T
  <2>1. d \in Turns /\ d \in Nat
    BY <1>1
  <2> SUFFICES ASSUME NEW x \in by[d] PROVE x >= t + d
    BY <2>1
  <2>2. PICK n \in by[d - 1] : x \in CalledBy(n)
    BY <1>3 DEF AllCalledBy
  <2>3. n \in Node /\ n >= t + (d - 1)
    BY <1>3, <1>5
  <2>4. n < x /\ n \in Nat /\ x \in Nat
    BY <2>2, <2>3, CallsYounger, NodesArePositive
  <2> QED
    BY <1>2, <2>1, <2>3, <2>4
<1> HIDE DEF T
<1>6. 0..MaxNode \subseteq T
  BY <1>1, <1>4, <1>5, EveryTurn
<1>7. \A d \in Turns : \A x \in by[d] : x >= t + d /\ x \in Node
  BY <1>1, <1>3, <1>6 DEF T
<1>8. by[MaxNode] = {}
  <2> SUFFICES ASSUME NEW x \in by[MaxNode] PROVE FALSE
    OBVIOUS
  <2>1. x >= t + MaxNode /\ x \in 1..MaxNode
    BY <1>1, <1>7 DEF Node
  <2> QED
    BY <1>1, <1>2, <2>1
<1>9. \A x : x \in n_set(id) <=> (\E d \in Turns : x \in by[d]) /\ IsKind(x, "synth")
  BY DEF n_set
<1>10. ASSUME NEW x \in n_set(id) PROVE x > t
  <2>1. PICK d \in Turns : x \in by[d]
    BY <1>9
  <2>2. d # 0
    BY <1>2, <1>3, <1>9, <2>1 DEF IsKind
  <2>3. x >= t + d /\ x \in Nat /\ d \in Nat
    <3>1. x >= t + d /\ x \in Node
      BY <1>7, <2>1
    <3> QED
      BY <1>1, <3>1 DEF Node
  <2> QED
    BY <1>2, <2>2, <2>3
<1>11. ASSUME NEW x \in Below(t), heap[x].kind = "synth",
              \A g \in Below(t) : x \in Below(g) => node_map[heap[g].id] = g,
              x \notin n_set(id)
       PROVE  FALSE
  <2>1. x \in Subtree(t) /\ x # t /\ x \in Live
    BY <1>2, SubtreeExists DEF Below
  <2> DEFINE W == {y \in Subtree(t) : x \in Subtree(y) /\ \A d \in Turns : y \notin by[d]}
  <2>2. x \in W
    <3>1. x \in Subtree(x)
      BY <2>1, SubtreeExists
    <3>2. IsKind(x, "synth")
      BY <1>11, <2>1 DEF IsKind, Live, LiveIn
    <3> QED
      BY <1>9, <1>11, <2>1, <3>1, <3>2
  <2>3. W \in SUBSET Live
    BY <1>2, SubtreeExists
  <2>4. PICK y \in W : \A z \in W : y <= z
    <3> HIDE DEF W
    <3> QED
      BY <2>2, <2>3, OldestNode
  <2>5. y \in Live /\ y \in Subtree(t) /\ x \in Subtree(y) /\ \A d \in Turns : y \notin by[d]
    BY <2>3
  <2>6. y # t
    BY <1>1, <1>3, <2>5
  <2> PICK p : p = heap[y].parent
    OBVIOUS
  <2>7. p \in Subtree(t) /\ p \in Live
    BY <1>2, <2>5, <2>6, SubtreeExists
  <2>8. p < y /\ p \in Nat /\ y \in Nat /\ heap[p].kind = "group" /\ p # Null /\ p \in Node
    BY <2>5, <2>7, Neighbours
  <2>9. y \in Subtree(p)
    BY <2>5, <2>7, <2>8, SubtreeExists
  <2>10. x \in Subtree(p)
    BY <2>5, <2>7, <2>9, SubtreeInSubtree
  <2>11. PICK d \in Turns : p \in by[d]
    <3>1. p \notin W
      BY <2>4, <2>8
    <3> QED
      BY <2>7, <2>10, <3>1
  <2>12. d # MaxNode /\ d + 1 \in 1..MaxNode /\ d + 1 \in Turns /\ (d + 1) - 1 = d
    BY <1>1, <1>8, <2>11
  <2>13. node_map[heap[y].id] = y
    <3>1. CASE y = x
      BY <1>11, <2>5, <3>1 DEF IInv, SynthsAddressable
    <3>2. CASE y # x
      <4>1. y \in Below(t) /\ x \in Below(y)
        BY <2>5, <2>6, <3>2 DEF Below
      <4> QED
        BY <1>11, <4>1
    <3> QED
      BY <3>1, <3>2
  <2>14. y \in Children(p) /\ y # Null
    BY <2>5, <2>7, ChildrenAre, Neighbours
  <2>15. y \in CalledBy(p)
    BY <2>8, <2>13, <2>14 DEF CalledBy, IsKind
  <2>16. y \in by[d + 1]
    BY <1>3, <2>11, <2>12, <2>15 DEF AllCalledBy
  <2> QED
    BY <2>5, <2>12, <2>16
<1> QED
  BY <1>8, <1>10, <1>11

-----------------------------------------------------------------------------
(* The walks in every state *)

\* Whatever commands have made of the tree, both iterators visit each of its nodes
\* once, in their order, and end: the cycles miss no synth and run none twice.
THEOREM IteratorsInOrder == Spec => []IteratorsKeepOrder
<1>1. IInv => IteratorsKeepOrder
  BY PostOrderKept, PreOrderKept DEF IteratorsKeepOrder
<1> QED
  BY <1>1, AlwaysIInv, PTL

\* n_set on a group ends and reaches every synth below it that is named on the way,
\* whichever groups have lost their ids before.
THEOREM SetsReach == Spec => []SetReachesGroup
<1>1. IInv => SetReachesGroup
  BY SetReaches
<1> QED
  BY <1>1, AlwaysIInv, PTL
=============================================================================

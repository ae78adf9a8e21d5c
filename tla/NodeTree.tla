------------------------------ MODULE NodeTree ------------------------------
(***************************************************************************)
(* The node tree of the server: class NodeTree (node_tree.cc) over the     *)
(* intrusive n-ary tree of tree.h.                                         *)
(*                                                                         *)
(* A node is known by two names that the code keeps in step by hand: its   *)
(* address (the Tree::Node that next/previous/parent pointers hold) and    *)
(* its id (the key of _node_map, and the number clients send).  An address *)
(* is a positive integer here, handed out in allocation order and never    *)
(* handed out twice, so that a stale pointer stays recognisable.           *)
(*                                                                         *)
(* Every operation runs to its end under the server's write lock.  Only    *)
(* g_freeAll, whose loop and recursion are the interesting part, is split  *)
(* into its iterations; the others wait until it is over.                  *)
(***************************************************************************)
EXTENDS Integers, Sequences

CONSTANTS
  MaxNode,      (* bound: allocations in a behaviour                       *)
  MaxId,        (* bound: the largest id a client sends                    *)
  AddActions    (* the add actions clients send, some of 0..4              *)

ASSUME BoundsAssumption == MaxNode \in Nat /\ MaxNode >= 2
                           /\ MaxId \in Nat /\ MaxId >= 1
ASSUME AddActionsAssumption == AddActions \subseteq 0..4

VARIABLES
  heap,         (* address -> the Tree::Node there, or a freed one         *)
  top,          (* the address handed out last                             *)
  node_map,     (* _node_map: id -> address, Null where the id is absent   *)
  walk,         (* the activation records of the g_freeAll under way       *)
  fault         (* a freed node has been dereferenced                      *)

vars == <<heap, top, node_map, walk, fault>>

-----------------------------------------------------------------------------
(* Data *)

Null == 0
Node == 1..MaxNode
Link == Node \cup {Null}
Id   == 0..MaxId
NoId == -1            \* "let the server choose", as a client writes it

RootId    == 0        \* SCGRAPH_DEFAULT_GROUP_ID
RootNode  == 1
FirstNode == 2        \* the group the constructor adds below the root

Kinds == {"free", "synth", "group"}

NodeRecord == [kind: Kinds, id: Id, parent: Link, next: Link, previous: Link,
               start: Link, end: Link]

\* Mutant: the node of a synth is not told its id.
FreshWithoutId(kind, id) ==
  [kind |-> kind, id |-> IF kind = "synth" THEN RootId ELSE id, parent |-> Null,
   next |-> Null, previous |-> Null, start |-> Null, end |-> Null]

Fresh(kind, id) ==
  [kind |-> kind, id |-> id, parent |-> Null, next |-> Null, previous |-> Null,
   start |-> Null, end |-> Null]

Freed == Fresh("free", RootId)

LiveIn(h) == {n \in Node : h[n].kind # "free"}
Live == LiveIn(heap)

IsKind(n, kind) == n \in Node /\ heap[n].kind = kind

\* The entry of an id whose node has been deleted behind the map's back.
IsDangling(n) == IsKind(n, "free")

-----------------------------------------------------------------------------
(* tree.h: the links of Tree::Node *)

\* Node::insert, both forms: `what' goes between the siblings before and after
\* (Null at either end) below parent p.
Splice(h, p, before, after, what) ==
  [x \in Node |->
    [h[x] EXCEPT
      !.parent   = IF x = what THEN p ELSE @,
      !.previous = IF x = what THEN before ELSE IF x = after THEN what ELSE @,
      !.next     = IF x = what THEN after ELSE IF x = before THEN what ELSE @,
      !.start    = IF x = p /\ before = Null THEN what ELSE @,
      !.end      = IF x = p /\ after = Null THEN what ELSE @]]

push_front(h, p, what) == Splice(h, p, Null, h[p].start, what)
push_back(h, p, what)  == Splice(h, p, h[p].end, Null, what)

insert_before(h, n, what) == Splice(h, h[n].parent, h[n].previous, n, what)
insert_after(h, n, what)  == Splice(h, h[n].parent, n, h[n].next, what)

\* Mutant: ~Node leaves the end pointer of the parent alone.
UnlinkNotAtEnd(h, n) ==
  LET l == h[n] IN
  [x \in Node |->
    [h[x] EXCEPT
      !.next     = IF x = l.previous THEN l.next ELSE @,
      !.previous = IF x = l.next THEN l.previous ELSE @,
      !.start    = IF x = l.parent /\ l.previous = Null THEN l.next ELSE @]]

\* The part of ~Node that takes n out of its parent's list of children.
Unlink(h, n) ==
  LET l == h[n] IN
  [x \in Node |->
    [h[x] EXCEPT
      !.next     = IF x = l.previous THEN l.next ELSE @,
      !.previous = IF x = l.next THEN l.previous ELSE @,
      !.start    = IF x = l.parent /\ l.previous = Null THEN l.next ELSE @,
      !.end      = IF x = l.parent /\ l.next = Null THEN l.previous ELSE @]]

\* S is the subtree of n: n, and of the other live nodes those whose parent is
\* in it.  A parent is older than its children, so there is exactly one.
IsSubtree(S, n, h) ==
  /\ n \in S
  /\ S \subseteq LiveIn(h)
  /\ \A x \in LiveIn(h) \ {n} : x \in S <=> h[x].parent \in S

\* Mutant: ~Node does not free the children.
DeleteNodeOnly(h, n, S) ==
  [x \in Node |-> IF x = n THEN Freed ELSE Unlink(h, n)[x]]

\* ~Node: the subtree S of n is freed and n leaves its parent.
Delete(h, n, S) ==
  [x \in Node |-> IF x \in S THEN Freed ELSE Unlink(h, n)[x]]

-----------------------------------------------------------------------------
(* node_tree.cc: creating nodes *)

\* An operation may begin: no g_freeAll is half way, nothing undefined happened.
Idle == walk = <<>> /\ ~fault

FreeIds == {i \in Id : node_map[i] = Null}

\* next_free_id: the smallest id that is not in the map.
next_free_id(i) == i \in FreeIds /\ \A j \in FreeIds : i <= j

\* Mutant: an id in use is granted again.
GrantedInUse(request, i) ==
  IF request = NoId THEN next_free_id(i) ELSE i = request

\* The id a request is granted: its own if unused, the next free one for -1.
Granted(request, i) ==
  IF request = NoId THEN next_free_id(i) ELSE i = request /\ i \in FreeIds

\* The new node n is linked where the add action says; 4 puts it before its
\* target, which Create then deletes.
Place(h, add_action, t, n) ==
  CASE add_action = 0        -> push_front(h, t, n)
    [] add_action = 1        -> push_back(h, t, n)
    [] add_action \in {2, 4} -> insert_before(h, t, n)
    [] OTHER                 -> insert_after(h, t, n)

\* What s_new and g_new share: the node is made, entered in the map, and only
\* then linked, so that the sibling insert that throws "No parent" leaves a
\* node that is in the map and not in the tree.  A request that fails earlier
\* (id in use, target unknown or no group, unknown synthdef) changes nothing.
Create(kind, request, add_action, target) ==
  \E i \in Id :
    LET t == node_map[target]
        n == top + 1
        h == [heap EXCEPT ![n] = Fresh(kind, i)]
    IN
    /\ Idle
    /\ n \in Node
    /\ Granted(request, i)
    /\ t \in Live
    /\ \/ /\ add_action \in {0, 1}
          /\ heap[t].kind = "group"
          /\ heap' = Place(h, add_action, t, n)
       \/ /\ add_action \in {2, 3}
          /\ heap[t].parent # Null
          /\ heap' = Place(h, add_action, t, n)
       \/ /\ add_action = 4
          /\ heap[t].parent # Null
          /\ \E S \in SUBSET Node :
               /\ IsSubtree(S, t, Place(h, 4, t, n))
               /\ heap' = Delete(Place(h, 4, t, n), t, S)
       \/ /\ add_action \in {2, 3, 4}
          /\ heap[t].parent = Null
          /\ heap' = h
    /\ top' = n
    /\ node_map' = [node_map EXCEPT ![i] = n]
    /\ UNCHANGED <<walk, fault>>

s_new(request, add_action, target) == Create("synth", request, add_action, target)
g_new(request, add_action, target) == Create("group", request, add_action, target)

-----------------------------------------------------------------------------
(* node_tree.cc: freeing nodes *)

\* n_free deletes a synth; of a group it removes the map entry and nothing else.
n_free(id) ==
  LET t == node_map[id] IN
  /\ Idle
  /\ t \in Live
  /\ \/ /\ heap[t].kind = "synth"
        /\ \E S \in SUBSET Node : IsSubtree(S, t, heap) /\ heap' = Delete(heap, t, S)
     \/ /\ heap[t].kind = "group"
        /\ UNCHANGED heap
  /\ node_map' = [node_map EXCEPT ![id] = Null]
  /\ UNCHANGED <<top, walk, fault>>

\* The activation record of g_freeAll that is running: the group it was called
\* on and the child its loop has reached, Null after the last one.
Frame == [group: Node, node: Link]

Running == walk[Len(walk)]

\* g_freeAll: the call.  On a group without children it returns at once.
g_freeAll(id) ==
  LET t == node_map[id] IN
  /\ Idle
  /\ IsKind(t, "group")
  /\ heap[t].start # Null
  /\ walk' = <<[group |-> t, node |-> heap[t].start]>>
  /\ UNCHANGED <<heap, top, node_map, fault>>

\* Mutant: the loop does not move on.
AdvanceNot == walk

\* Mutant: every other child is passed over.
AdvanceByTwo ==
  LET y == heap[Running.node].next IN
  [walk EXCEPT ![Len(walk)].node = IF y = Null THEN Null ELSE heap[y].next]

\* The loop goes on with the sibling saved before the child was dealt with.
Advance == [walk EXCEPT ![Len(walk)].node = heap[Running.node].next]

\* A synth child: its id leaves the map, then the node is deleted.
g_freeAll_synth ==
  /\ walk # <<>> /\ ~fault
  /\ IsKind(Running.node, "synth")
  /\ \E S \in SUBSET Node :
       IsSubtree(S, Running.node, heap) /\ heap' = Delete(heap, Running.node, S)
  /\ node_map' = [node_map EXCEPT ![heap[Running.node].id] = Null]
  /\ walk' = Advance
  /\ UNCHANGED <<top, fault>>

\* Mutant: g_freeAll goes on when no group has the id.
g_freeAll_groupUnknown ==
  /\ walk # <<>> /\ ~fault
  /\ IsKind(Running.node, "group")
  /\ LET g == node_map[heap[Running.node].id] IN
     walk' = Append(Advance, [group |-> g,
                              node |-> IF g = Null THEN Null ELSE heap[g].start])
  /\ UNCHANGED <<heap, top, node_map, fault>>

\* A group child: g_freeAll is called on the group its id names, which is not
\* always the child.  No such group: the exception ends the whole call.
g_freeAll_group ==
  /\ walk # <<>> /\ ~fault
  /\ IsKind(Running.node, "group")
  /\ LET g == node_map[heap[Running.node].id] IN
     /\ ~IsDangling(g)
     /\ walk' = IF ~IsKind(g, "group") THEN <<>>
                ELSE IF heap[g].start = Null THEN Advance
                ELSE Append(Advance, [group |-> g, node |-> heap[g].start])
  /\ UNCHANGED <<heap, top, node_map, fault>>

\* The loop is over: the caller's loop goes on.
g_freeAll_return ==
  /\ walk # <<>> /\ ~fault
  /\ Running.node = Null
  /\ walk' = SubSeq(walk, 1, Len(walk) - 1)
  /\ UNCHANGED <<heap, top, node_map, fault>>

-----------------------------------------------------------------------------
(* Undefined behaviour *)

\* A lookup by id hands out a freed node and the dynamic_cast of
\* find_synth_by_id or find_group_by_id, or Node::insert, reads it.  What the
\* process does from here on is not modelled: the behaviour ends.
UseFreedEntry(id) ==
  /\ Idle
  /\ IsDangling(node_map[id])
  /\ fault' = TRUE
  /\ UNCHANGED <<heap, top, node_map, walk>>

\* The same inside g_freeAll: the saved sibling, or the map entry of a child.
UseFreedInWalk ==
  /\ walk # <<>> /\ ~fault
  /\ \/ IsDangling(Running.node)
     \/ IsKind(Running.node, "group") /\ IsDangling(node_map[heap[Running.node].id])
  /\ fault' = TRUE
  /\ UNCHANGED <<heap, top, node_map, walk>>

-----------------------------------------------------------------------------
(* The constructor: a root group and one group below it *)

Init ==
  /\ heap = push_front([x \in Node |-> IF x = RootNode THEN Fresh("group", RootId)
                                       ELSE IF x = FirstNode THEN Fresh("group", RootId + 1)
                                       ELSE Freed],
                       RootNode, FirstNode)
  /\ top = FirstNode
  /\ node_map = [i \in Id |-> CASE i = RootId -> RootNode
                                [] i = RootId + 1 -> FirstNode
                                [] OTHER -> Null]
  /\ walk = <<>>
  /\ fault = FALSE

g_freeAll_step == g_freeAll_synth \/ g_freeAll_group \/ g_freeAll_return

Next ==
  \/ \E request \in Id \cup {NoId}, target \in Id, add_action \in AddActions :
        \/ s_new(request, add_action, target)
        \/ g_new(request, add_action, target)
  \/ \E id \in Id : n_free(id) \/ g_freeAll(id) \/ UseFreedEntry(id)
  \/ g_freeAll_synth \/ g_freeAll_group \/ g_freeAll_return
  \/ UseFreedInWalk

Spec == Init /\ [][Next]_vars

\* A call, once begun, runs on: nothing else runs in its thread.
FairSpec == Spec /\ WF_vars(g_freeAll_step \/ UseFreedInWalk)

-----------------------------------------------------------------------------
(* Properties *)

TypeOK ==
  /\ heap \in [Node -> NodeRecord]
  /\ top \in Node
  /\ node_map \in [Id -> Link]
  /\ walk \in Seq(Frame)
  /\ fault \in BOOLEAN

\* The pointers of the nodes L of h agree with those of their neighbours.
LinksAgreeIn(h, L) ==
  \A x \in L :
    LET l == h[x] IN
    /\ l.next # Null => /\ l.next \in L
                        /\ h[l.next].previous = x
                        /\ h[l.next].parent = l.parent
    /\ l.previous # Null => /\ l.previous \in L
                            /\ h[l.previous].next = x
    /\ l.start # Null => /\ l.start \in L
                         /\ h[l.start].parent = x
                         /\ h[l.start].previous = Null
    /\ l.end # Null => /\ l.end \in L
                       /\ h[l.end].parent = x
                       /\ h[l.end].next = Null
    /\ l.start = Null <=> l.end = Null
    /\ l.parent # Null => /\ l.previous = Null => h[l.parent].start = x
                          /\ l.next = Null => h[l.parent].end = x
    /\ l.parent = Null => l.next = Null /\ l.previous = Null

\* A live node of h with a parent hangs below a live, older group.
BelowOlderGroupIn(h) ==
  \A x \in LiveIn(h) : h[x].parent # Null => /\ h[x].parent \in LiveIn(h)
                                             /\ h[h[x].parent].kind = "group"
                                             /\ h[x].parent < x

\* The sibling lists stay well formed: what Node::insert and ~Node maintain by
\* hand, pointer by pointer, over any sequence of operations.
LinksAgree == LinksAgreeIn(heap, Live)

\* Freeing a node frees all below it, for no live node hangs below a freed one,
\* and no chain of parents closes on itself, for each is older than the last.
BelowOlderGroup == BelowOlderGroupIn(heap)

\* Whatever is created and freed, and under whatever ids, a synth that is alive
\* is the one its id names, so that /n_free and done actions can reach it.
SynthsAddressable ==
  \A x \in Live : heap[x].kind = "synth" => node_map[heap[x].id] = x

\* An entry of the map never leads to a node older than another that carries
\* the id: a group that lost its entry does not get it back.
NewestOwnsId ==
  \A x \in Live : node_map[heap[x].id] # Null => x <= node_map[heap[x].id]

\* g_freeAll keeps its place: the sibling it saved before a recursive call has
\* not been freed by that call, and the recursion meets no group twice.
WalkKeepsItsPlace ==
  \A k \in 1..Len(walk) :
    /\ walk[k].group \in Live
    /\ walk[k].node # Null => walk[k].node \in Live
    /\ \A j \in 1..(k - 1) : walk[j].group < walk[k].group

\* When the loop of g_freeAll is through with a group, no synth is left in it.
LoopClearsGroup ==
  \A k \in 1..Len(walk) :
    walk[k].node = Null =>
      \A x \in Live : heap[x].parent = walk[k].group => heap[x].kind = "group"

\* The root group survives every command, also those that name it.
RootSurvives == IsKind(RootNode, "group") /\ heap[RootNode].parent = Null

\* The entries of the map lead to live nodes with the id they are filed under.
MapLeadsToLiveNodes ==
  \A i \in Id : node_map[i] # Null => /\ node_map[i] \in Live
                                      /\ heap[node_map[i]].id = i

\* The synths of the tree are a set of uniquely named synths: pointers, map,
\* groups and recursion come to no more than creating and freeing such.
Synths == INSTANCE SynthIds
  WITH Synth <- Node, named <- [x \in {n \in Live : heap[n].kind = "synth"} |-> heap[x].id]

ImplementsSynthIds == Synths!Spec

\* Every call of g_freeAll ends, also when ids lead it out of its group.
FreeAllEnds == walk # <<>> ~> (walk = <<>> \/ fault)
=============================================================================

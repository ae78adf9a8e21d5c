------------------------------ MODULE TreeWalk ------------------------------
(***************************************************************************)
(* Walking the node tree: the iterators of tree.h, with which both cycles  *)
(* visit the synths, and n_set, which recurses over groups.  They change   *)
(* no node: they are operators on NodeTree's states.  An iterator is the   *)
(* stack it keeps.                                                         *)
(*                                                                         *)
(* Loops are functions of the number of turns made, MaxNode at most: that  *)
(* they are over by then is part of the properties.                        *)
(***************************************************************************)
EXTENDS NodeTree, SequencesExt

Turns == 0..MaxNode

Top(stack)       == Last(stack)
Pop(stack)       == Front(stack)
SetTop(stack, n) == Append(Front(stack), n)

-----------------------------------------------------------------------------
(* The post-order iterator: pbegin, ++, pend *)

\* Down the first children to the end.
Down(stack) ==
  IF heap[Top(stack)].start = Null THEN stack ELSE Append(stack, heap[Top(stack)].start)

Descend(stack) ==
  LET at[k \in Turns] == IF k = 0 THEN stack ELSE Down(at[k - 1])
  IN at[MaxNode]

pbegin == Descend(<<RootNode>>)

\* Mutant: the next sibling is visited without going down to its children.
PostOrderNextNoDescent(stack) ==
  IF stack = <<>> THEN stack
  ELSE IF heap[Top(stack)].next = Null THEN Pop(stack)
  ELSE SetTop(stack, heap[Top(stack)].next)

PostOrderNext(stack) ==
  IF stack = <<>> THEN stack
  ELSE IF heap[Top(stack)].next = Null THEN Pop(stack)
  ELSE Descend(SetTop(stack, heap[Top(stack)].next))

\* The stacks of a loop that begins with pbegin.
PostOrder == LET at[k \in Turns] == IF k = 0 THEN pbegin ELSE PostOrderNext(at[k - 1]) IN at

-----------------------------------------------------------------------------
(* The pre-order iterator: begin, ++, end *)

\* Up until there is a sibling to go on with, or to the end.
Ascend(stack) ==
  LET withNext == {k \in 1..Len(stack) : heap[stack[k]].next # Null}
  IN SubSeq(stack, 1, Max(withNext \cup {0}))

PreOrderNext(stack) ==
  LET top_ == heap[Top(stack)]
      up   == Ascend(stack)
  IN
  IF stack = <<>> THEN stack
  ELSE IF top_.start # Null THEN Append(stack, top_.start)
  ELSE IF top_.next # Null THEN SetTop(stack, top_.next)
  ELSE IF up = <<>> THEN up
  ELSE SetTop(up, heap[Top(up)].next)

begin == <<RootNode>>

\* The stacks of a loop that begins with begin.
PreOrder == LET at[k \in Turns] == IF k = 0 THEN begin ELSE PreOrderNext(at[k - 1]) IN at

-----------------------------------------------------------------------------
(* n_set: the synths whose parameter it sets *)

\* Mutant: the loop ends before the last child.
ButLastSibling(n) ==
  IF n = Null \/ heap[n].next = Null \/ heap[heap[n].next].next = Null THEN Null ELSE heap[n].next

NextSibling(n) == IF n = Null THEN Null ELSE heap[n].next

\* The children of a node, as Node::Iterator goes from the first to the last.
Children(n) ==
  LET at[k \in Turns] == IF k = 0 THEN heap[n].start ELSE NextSibling(at[k - 1])
  IN {at[k] : k \in Turns} \ {Null}

\* The nodes that n_set for node n is called for in its turn: it looks each child
\* up by its id, as it does the node it is called for.
CalledBy(n) ==
  IF IsKind(n, "group") THEN {node_map[heap[c].id] : c \in Children(n)} \ {Null} ELSE {}

\* The nodes of the calls, by the depth of the recursion.
Called(id) ==
  LET by[d \in Turns] == IF d = 0 THEN {node_map[id]} ELSE UNION {CalledBy(n) : n \in by[d - 1]}
  IN by

n_set(id) == {n \in UNION {Called(id)[d] : d \in Turns} : IsKind(n, "synth")}

-----------------------------------------------------------------------------
(* What the walks are to do, by the parents of the nodes alone *)

Subtree(n) == CHOOSE S \in SUBSET Live : IsSubtree(S, n, heap)

Below(n) == Subtree(n) \ {n}

InTree == Subtree(RootNode)

\* The turns of a loop, with the nodes they visit.
Visits(loop) == {<<k, Top(loop[k])>> : k \in {j \in Turns : loop[j] # <<>>}}

\* The loop ends, and has been at each node of the tree in one turn.
VisitsEachOnce(loop, visits) ==
  /\ loop[MaxNode] = <<>>
  /\ {v[2] : v \in visits} = InTree
  /\ \A v, w \in visits : v[2] = w[2] => v = w

Before(visits, x, y) == \E v, w \in visits : v[1] < w[1] /\ v[2] = x /\ w[2] = y

\* Every node once, children before their group, siblings in the order of the list.
IteratorIsPostOrder ==
  LET visits == Visits(PostOrder)
  IN
  /\ VisitsEachOnce(PostOrder, visits)
  /\ \A x \in InTree \ {RootNode} : Before(visits, x, heap[x].parent)
  /\ \A x \in InTree : heap[x].next # Null =>
       \A y \in Subtree(heap[x].next) : Before(visits, x, y)

\* The same nodes, groups before their children.
IteratorIsPreOrder ==
  LET visits == Visits(PreOrder)
  IN
  /\ VisitsEachOnce(PreOrder, visits)
  /\ \A x \in InTree \ {RootNode} : Before(visits, heap[x].parent, x)
  /\ \A x \in InTree : heap[x].next # Null =>
       \A y \in Subtree(x) : Before(visits, y, heap[x].next)

\* The iterator of the cycles and the default one, each with a stack of siblings
\* for its place, visit the nodes of any tree that commands can make, each node
\* once and in its order (tree.h Iterator).
IteratorsKeepOrder == IteratorIsPostOrder /\ IteratorIsPreOrder

\* /n_set on a group ends and reaches every synth below it whose groups in between
\* are still the ones their ids name; through an id that names another group it
\* reaches only nodes younger than that group.
SetReachesGroup ==
  Idle => \A id \in Id :
    LET t == node_map[id]
        named == {x \in Live : node_map[heap[x].id] = x}
    IN IsKind(t, "group") =>
         /\ Called(id)[MaxNode] = {}
         /\ \A x \in Below(t) :
              /\ heap[x].kind = "synth"
              /\ \A g \in Below(t) : x \in Below(g) => g \in named
              => x \in n_set(id)
         /\ \A x \in n_set(id) : x > t
=============================================================================

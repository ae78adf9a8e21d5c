--------------------------- MODULE PicturesProofs ---------------------------
(***************************************************************************)
(* The cells of Pictures stand for values, for every set of synths, any    *)
(* number of cells and places and every length of run.                     *)
(*                                                                         *)
(* A memory is well formed when its pointers lead to cells.  Every         *)
(* operator of Pictures keeps it so, and changes the pictures of one place *)
(* only (OnlyAt): copying pointers, touching a cell before it is written,  *)
(* writing a face or a command, the loops of filters, by induction over    *)
(* their turns.  So a unit changes what it makes, what it puts out and the *)
(* bus as the kind says, and nothing else (ProcessOK).  The invariant IInv *)
(* adds that every cell is held, that the units of synths in the tree have *)
(* what their constructors made, and that what was drawn last came out of  *)
(* settled pictures.  The theorems about frames follow from it by          *)
(* induction over what a window visits; the refinement of PictureValues    *)
(* goes action by action.                                                  *)
(***************************************************************************)
EXTENDS Pictures, FiniteSetTheorems, DataLemmas, TLAPS

\* A face: its vertices and its colour.
Face == [vertices : Int, color : Int]

GraphicsCell == [kind : Shapes \cup Commands, on : Modes \cup {4}, commands : Seq(Nat), face : Nat]

\* The cells of one kind.
Cell == Nat \ {0}

\* Functions on some of the cells.
Tables(S) == UNION {[D -> S] : D \in SUBSET Cell}

\* What a memory is made of.
Memories == [graphics : Tables(GraphicsCell), faces : Tables(Face), commands : Tables(Int),
             at : [Place -> Seq(Nat)]]

\* Pointers lead to cells.
Linked(m) ==
  /\ \A p \in GraphicsPlace : \A i \in DOMAIN m.at[p] : m.at[p][i] \in DOMAIN m.graphics
  /\ \A x \in Unit : \A i \in DOMAIN m.at[Cmd(x)] : m.at[Cmd(x)][i] \in DOMAIN m.commands
  /\ \A r \in DOMAIN m.graphics :
       /\ m.graphics[r].face \in IF IsShape(m, r) THEN DOMAIN m.faces ELSE {0}
       /\ \A i \in DOMAIN m.graphics[r].commands : m.graphics[r].commands[i] \in DOMAIN m.commands

\* A memory has finitely many cells.
Finite(m) == /\ IsFiniteSet(DOMAIN m.graphics) /\ IsFiniteSet(DOMAIN m.faces)
             /\ IsFiniteSet(DOMAIN m.commands)

\* What the lemmas need of a memory.
WellFormed(m) == m \in Memories /\ Finite(m) /\ Linked(m)

------------------------------------------------------------------------------
(* Places and cells                                                        *)

\* The places of the units, the bus and its past are different ones; only a
\* command is held at Cmd.
LEMMA PlacesDiffer ==
  /\ \A x \in Unit : Own(x) \in GraphicsPlace /\ Outs(x) \in GraphicsPlace /\ Cmd(x) \in Place
  /\ Bus \in GraphicsPlace /\ Past \in GraphicsPlace /\ Bus # Past /\ GraphicsPlace \subseteq Place
  /\ \A x \in Unit : Cmd(x) \notin GraphicsPlace
  /\ \A x, y \in Unit : /\ Own(x) # Outs(y) /\ (Own(x) = Own(y) => x = y)
                        /\ (Outs(x) = Outs(y) => x = y) /\ (Cmd(x) = Cmd(y) => x = y)
  /\ \A x \in Unit : Own(x) \notin {Bus, Past} /\ Outs(x) \notin {Bus, Past}
<1>1. \A x, y : /\ Own(x) # Outs(y) /\ Own(x) # Cmd(y) /\ Outs(x) # Cmd(y)
                /\ (Own(x) = Own(y) => x = y) /\ (Outs(x) = Outs(y) => x = y)
                /\ (Cmd(x) = Cmd(y) => x = y)
  BY DEF Own, Outs, Cmd
<1>2. \A x : /\ Own(x) \notin {Bus, Past} /\ Outs(x) \notin {Bus, Past} /\ Cmd(x) \notin {Bus, Past}
             /\ Bus # Past
  BY DEF Own, Outs, Cmd, Bus, Past
<1>0. /\ \A q : q \in GraphicsPlace <=> (\E x \in Unit : q = Own(x) \/ q = Outs(x)) \/ q \in {Bus, Past}
      /\ \A q : q \in Place <=> q \in GraphicsPlace \/ \E x \in Unit : q = Cmd(x)
  BY DEF GraphicsPlace, Place
<1>3. \A x \in Unit : Cmd(x) \notin GraphicsPlace
  BY <1>0, <1>1, <1>2
<1>4. \A x \in Unit : Own(x) \in GraphicsPlace /\ Outs(x) \in GraphicsPlace /\ Cmd(x) \in Place
  BY <1>0
<1>5. Bus \in GraphicsPlace /\ Past \in GraphicsPlace /\ GraphicsPlace \subseteq Place
  BY <1>0
<1> QED
  BY <1>1, <1>2, <1>3, <1>4, <1>5

\* A table is a function on cells.
LEMMA TableFacts ==
  ASSUME NEW S, NEW f \in Tables(S)
  PROVE  /\ DOMAIN f \subseteq Cell /\ f = [r \in DOMAIN f |-> f[r]]
         /\ \A r \in DOMAIN f : f[r] \in S
<1>1. PICK D \in SUBSET Cell : f \in [D -> S]
  BY DEF Tables
<1> QED
  BY <1>1

\* A function on cells is a table.
LEMMA IsTable ==
  ASSUME NEW S, NEW D \in SUBSET Cell, NEW f \in [D -> S]
  PROVE  f \in Tables(S)
BY DEF Tables

\* g is f with s for k.
IsWith(S, f, k, s, g) ==
  /\ g \in Tables(S) /\ DOMAIN g = DOMAIN f \cup {k} /\ g[k] = s
  /\ \A r \in DOMAIN f : r # k => g[r] = f[r]
  /\ IsFiniteSet(DOMAIN f) => IsFiniteSet(DOMAIN g)

\* With adds an entry, or gives one another value.
LEMMA WithOK ==
  ASSUME NEW S, NEW f \in Tables(S), NEW k \in Cell, NEW s \in S
  PROVE  IsWith(S, f, k, s, With(f, k, s))
<1> PICK g : g = With(f, k, s)
  OBVIOUS
<1>1. DOMAIN f \subseteq Cell /\ \A r \in DOMAIN f : f[r] \in S
  BY TableFacts
<1>2. g \in [DOMAIN f \cup {k} -> S]
  BY <1>1 DEF With
<1>3. g \in Tables(S)
  BY <1>1, <1>2, IsTable
<1>4. DOMAIN g = DOMAIN f \cup {k} /\ g[k] = s /\ \A r \in DOMAIN f : r # k => g[r] = f[r]
  BY DEF With
<1>5. IsFiniteSet(DOMAIN f) => IsFiniteSet(DOMAIN g)
  BY <1>4, FS_AddElement
<1> QED
  BY <1>3, <1>4, <1>5 DEF IsWith

\* Keep leaves a table with the entries that are kept.
LEMMA KeepIsTable ==
  ASSUME NEW S, NEW f \in Tables(S), NEW D \in SUBSET (DOMAIN f)
  PROVE  /\ Keep(f, D) \in Tables(S) /\ DOMAIN Keep(f, D) = D /\ \A r \in D : Keep(f, D)[r] = f[r]
         /\ IsFiniteSet(DOMAIN f) => IsFiniteSet(D)
<1>1. D \subseteq Cell /\ \A r \in D : f[r] \in S
  BY TableFacts
<1>2. Keep(f, D) \in [D -> S]
  BY <1>1 DEF Keep
<1>3. IsFiniteSet(DOMAIN f) => IsFiniteSet(D)
  BY FS_Subset
<1> QED
  BY <1>1, <1>2, <1>3, IsTable DEF Keep

\* g is f with s for k, where f has k.
IsChanged(S, f, k, s, g) ==
  /\ g \in Tables(S) /\ DOMAIN g = DOMAIN f /\ g[k] = s
  /\ \A r \in DOMAIN f : r # k => g[r] = f[r]

\* EXCEPT gives the entry of a cell another value.
LEMMA ChangedOK ==
  ASSUME NEW S, NEW f \in Tables(S), NEW k \in DOMAIN f, NEW s \in S
  PROVE  IsChanged(S, f, k, s, [f EXCEPT ![k] = s])
<1> PICK g : g = [f EXCEPT ![k] = s]
  OBVIOUS
<1>1. DOMAIN f \subseteq Cell /\ f = [r \in DOMAIN f |-> f[r]] /\ \A r \in DOMAIN f : f[r] \in S
  BY TableFacts
<1>2. g \in [DOMAIN f -> S] /\ g[k] = s /\ \A r \in DOMAIN f : r # k => g[r] = f[r]
  BY <1>1
<1>3. g \in Tables(S)
  BY <1>1, <1>2, IsTable
<1> QED
  BY <1>2, <1>3 DEF IsChanged

\* There is always a cell to allocate, and nothing leads to it yet.
LEMMA NewIsNew ==
  ASSUME NEW cells, IsFiniteSet(DOMAIN cells)
  PROVE  New(cells) \in Cell /\ New(cells) \notin DOMAIN cells
<1> DEFINE n == Cardinality(DOMAIN cells) + 1
<1>1. Cardinality(DOMAIN cells) \in Nat
  BY FS_CardinalityType
<1>2. ~(1..n \subseteq DOMAIN cells)
  <2> SUFFICES ASSUME 1..n \subseteq DOMAIN cells
               PROVE  FALSE
    OBVIOUS
  <2>1. Cardinality(1..n) <= Cardinality(DOMAIN cells)
    BY FS_Subset
  <2>2. Cardinality(1..n) = n
    <3>1. n \in Int /\ 1 \in Int /\ 1 <= n
      BY <1>1
    <3>2. Cardinality(1..n) = n - 1 + 1
      BY <3>1, FS_Interval, SMT
    <3> QED
      BY <3>2, <1>1
  <2> QED
    BY <1>1, <2>1, <2>2
<1>3. PICK r \in 1..n : r \notin DOMAIN cells
  BY <1>2
<1>4. New(cells) \in 1..n /\ New(cells) \notin DOMAIN cells
  BY <1>3 DEF New
<1> QED
  BY <1>1, <1>4 DEF Cell

\* A memory is its four fields, and what each of them is.
LEMMA MemoryFacts ==
  ASSUME NEW m \in Memories
  PROVE  /\ m = [graphics |-> m.graphics, faces |-> m.faces, commands |-> m.commands, at |-> m.at]
         /\ m.graphics \in Tables(GraphicsCell) /\ m.faces \in Tables(Face)
         /\ m.commands \in Tables(Int) /\ m.at \in [Place -> Seq(Nat)]
         /\ \A r \in DOMAIN m.graphics : r \in Cell /\ m.graphics[r] \in GraphicsCell
         /\ \A f \in DOMAIN m.faces : f \in Cell /\ m.faces[f] \in Face
         /\ \A c \in DOMAIN m.commands : c \in Cell /\ m.commands[c] \in Int
         /\ \A p \in Place : \A i \in DOMAIN m.at[p] : i \in Nat /\ i > 0
<1>1. /\ m = [graphics |-> m.graphics, faces |-> m.faces, commands |-> m.commands, at |-> m.at]
      /\ m.graphics \in Tables(GraphicsCell) /\ m.faces \in Tables(Face)
      /\ m.commands \in Tables(Int) /\ m.at \in [Place -> Seq(Nat)]
  BY DEF Memories
<1>2. \A r \in DOMAIN m.graphics : r \in Cell /\ m.graphics[r] \in GraphicsCell
  BY <1>1, TableFacts
<1>3. \A f \in DOMAIN m.faces : f \in Cell /\ m.faces[f] \in Face
  BY <1>1, TableFacts
<1>4. \A c \in DOMAIN m.commands : c \in Cell /\ m.commands[c] \in Int
  BY <1>1, TableFacts
<1>5. \A p \in Place : \A i \in DOMAIN m.at[p] : i \in Nat /\ i > 0
  <2> TAKE p \in Place
  <2>1. m.at[p] \in Seq(Nat)
    BY <1>1
  <2> QED
    BY <2>1
<1> QED
  BY <1>1, <1>2, <1>3, <1>4, <1>5

\* A cell and what it leads to stay as they are.
LEMMA PictureSame ==
  ASSUME NEW m, NEW w, NEW r, NEW s, w.graphics[s] = m.graphics[r],
         m.graphics[r].face = 0 \/ w.faces[m.graphics[r].face] = m.faces[m.graphics[r].face],
         \A i \in DOMAIN m.graphics[r].commands :
            w.commands[m.graphics[r].commands[i]] = m.commands[m.graphics[r].commands[i]]
  PROVE  Picture(w, s) = Picture(m, r)
<1> PICK g : g = m.graphics[r]
  OBVIOUS
<1>1. [i \in DOMAIN g.commands |-> w.commands[g.commands[i]]] =
      [i \in DOMAIN g.commands |-> m.commands[g.commands[i]]]
  OBVIOUS
<1>2. (IF g.face = 0 THEN NoFace ELSE w.faces[g.face]) = IF g.face = 0 THEN NoFace ELSE m.faces[g.face]
  OBVIOUS
<1> QED
  BY <1>1, <1>2 DEF Picture

\* What a place holds depends on its pointers and their pictures.
LEMMA PicturesAtSame ==
  ASSUME NEW m, NEW w, NEW p, w.at[p] = m.at[p],
         \A i \in DOMAIN m.at[p] : Picture(w, m.at[p][i]) = Picture(m, m.at[p][i])
  PROVE  PicturesAt(w, p) = PicturesAt(m, p)
BY DEF PicturesAt

------------------------------------------------------------------------------
(* What nobody holds is deleted                                            *)

\* The cells that a place leads to.
GraphicsHeld(m) == UNION {Elements(m.at[p]) : p \in GraphicsPlace}

FacesHeld(m) == {m.graphics[r].face : r \in GraphicsHeld(m)} \ {0}

CommandsHeld(m) == (UNION {Elements(m.graphics[r].commands) : r \in GraphicsHeld(m)})
                     \cup (UNION {Elements(m.at[Cmd(x)]) : x \in Unit})

\* All places hold the same cells and pictures.
SameHeld(m, w) == w.at = m.at /\ \A p \in GraphicsPlace : PicturesAt(w, p) = PicturesAt(m, p)

\* Deleting the cells that no cow_ptr leads to changes nothing that is held
\* (cow_ptr.h: the destructor of the last holder deletes).
LEMMA HeldOK ==
  ASSUME NEW m, WellFormed(m)
  PROVE  /\ WellFormed(Held(m)) /\ SameHeld(m, Held(m))
         /\ DOMAIN Held(m).graphics = GraphicsHeld(m)
<1> PICK h : h = Held(m)
  OBVIOUS
<1> PICK g, f, c : g = GraphicsHeld(m) /\ f = FacesHeld(m) /\ c = CommandsHeld(m)
  OBVIOUS
<1>1. /\ m.graphics \in Tables(GraphicsCell) /\ m.faces \in Tables(Face)
      /\ m.commands \in Tables(Int) /\ m.at \in [Place -> Seq(Nat)] /\ Linked(m) /\ Finite(m)
      /\ m = [graphics |-> m.graphics, faces |-> m.faces, commands |-> m.commands, at |-> m.at]
  BY MemoryFacts DEF WellFormed
<1>2. h = [m EXCEPT !.graphics = Keep(@, g), !.faces = Keep(@, f), !.commands = Keep(@, c)]
  BY DEF Held, GraphicsHeld, FacesHeld, CommandsHeld
<1>3. h = [graphics |-> Keep(m.graphics, g), faces |-> Keep(m.faces, f),
           commands |-> Keep(m.commands, c), at |-> m.at]
  BY <1>1, <1>2
<1>4. /\ \A p \in GraphicsPlace : \A i \in DOMAIN m.at[p] : m.at[p][i] \in g
      /\ g \subseteq DOMAIN m.graphics
  BY <1>1 DEF GraphicsHeld, Elements, Linked
<1>5. /\ \A r \in g : m.graphics[r].face # 0 => m.graphics[r].face \in f
      /\ f \subseteq DOMAIN m.faces
  BY <1>1, <1>4 DEF FacesHeld, Linked
<1>6. /\ \A r \in g : \A i \in DOMAIN m.graphics[r].commands : m.graphics[r].commands[i] \in c
      /\ \A x \in Unit : \A i \in DOMAIN m.at[Cmd(x)] : m.at[Cmd(x)][i] \in c
      /\ c \subseteq DOMAIN m.commands
  <2>1. PICK a : a = UNION {Elements(m.graphics[r].commands) : r \in GraphicsHeld(m)}
    OBVIOUS
  <2>2. PICK b : b = UNION {Elements(m.at[Cmd(x)]) : x \in Unit}
    OBVIOUS
  <2>3. c = a \cup b
    BY <2>1, <2>2 DEF CommandsHeld
  <2>4. \A q : q \in a <=> \E r \in g : q \in Elements(m.graphics[r].commands)
    BY <2>1
  <2>5. \A q : q \in b <=> \E x \in Unit : q \in Elements(m.at[Cmd(x)])
    BY <2>2
  <2> QED
    BY <1>1, <1>4, <2>3, <2>4, <2>5 DEF Elements, Linked
<1>7. /\ h.graphics \in Tables(GraphicsCell) /\ DOMAIN h.graphics = g /\ IsFiniteSet(g)
      /\ \A r \in g : h.graphics[r] = m.graphics[r]
  BY <1>1, <1>3, <1>4, KeepIsTable DEF Finite
<1>8. /\ h.faces \in Tables(Face) /\ DOMAIN h.faces = f /\ IsFiniteSet(f)
      /\ \A r \in f : h.faces[r] = m.faces[r]
  BY <1>1, <1>3, <1>5, KeepIsTable DEF Finite
<1>9. /\ h.commands \in Tables(Int) /\ DOMAIN h.commands = c /\ IsFiniteSet(c)
      /\ \A r \in c : h.commands[r] = m.commands[r]
  BY <1>1, <1>3, <1>6, KeepIsTable DEF Finite
<1>10. h.at = m.at /\ h \in Memories
  BY <1>1, <1>3, <1>7, <1>8, <1>9 DEF Memories
<1>11. Linked(h)
  <2>1. \A r \in g : h.graphics[r].face \in IF IsShape(h, r) THEN f ELSE {0}
    <3> TAKE r \in g
    <3>1. m.graphics[r].face \in IF IsShape(m, r) THEN DOMAIN m.faces ELSE {0}
      BY <1>1, <1>4 DEF Linked
    <3>2. \A x \in DOMAIN m.faces : x # 0
      BY <1>1, TableFacts DEF Cell
    <3> QED
      BY <1>5, <1>7, <3>1, <3>2 DEF IsShape
  <2> QED
    BY <1>4, <1>6, <1>7, <1>8, <1>9, <1>10, <2>1 DEF Linked
<1>12. \A r \in g : Picture(h, r) = Picture(m, r)
  BY <1>5, <1>6, <1>7, <1>8, <1>9, PictureSame
<1>13. \A p \in GraphicsPlace : PicturesAt(h, p) = PicturesAt(m, p)
  BY <1>4, <1>10, <1>12, PicturesAtSame
<1>14. WellFormed(h) /\ SameHeld(m, h) /\ DOMAIN h.graphics = g
  BY <1>7, <1>8, <1>9, <1>10, <1>11, <1>13 DEF WellFormed, Finite, SameHeld
<1> QED
  BY <1>14

------------------------------------------------------------------------------
(* Pointers are copied                                                     *)

\* Nothing but what place p holds is another one.
OnlyAt(m, w, p) ==
  /\ \A q \in GraphicsPlace \ {p} : w.at[q] = m.at[q] /\ PicturesAt(w, q) = PicturesAt(m, q)
  /\ \A x \in Unit : Len(w.at[Cmd(x)]) = Len(m.at[Cmd(x)])

\* Two operations on the same place change nothing else.
LEMMA OnlyAtTwice ==
  ASSUME NEW m, NEW w, NEW v, NEW p, OnlyAt(m, w, p), OnlyAt(w, v, p)
  PROVE  OnlyAt(m, v, p)
BY DEF OnlyAt

\* Nor does deleting what nobody holds afterwards.
LEMMA OnlyAtHeld ==
  ASSUME NEW m, NEW w, NEW h, NEW p, OnlyAt(m, w, p), SameHeld(w, h)
  PROVE  OnlyAt(m, h, p)
BY DEF OnlyAt, SameHeld

\* The same cells, and what the pointers of place p are now.
Repointed(m, w, p, refs) ==
  /\ w.graphics = m.graphics /\ w.at[p] = refs
  /\ \A r : Picture(w, r) = Picture(m, r)
  /\ PicturesAt(w, p) = [i \in DOMAIN refs |-> Picture(m, refs[i])]

Repoint(m, p, refs) == [m EXCEPT !.at[p] = refs]

\* Copying cow_ptrs into a place changes what that place holds, no cell.
LEMMA RepointedOK ==
  ASSUME NEW m, WellFormed(m), NEW p \in GraphicsPlace, NEW refs \in Seq(DOMAIN m.graphics)
  PROVE  /\ WellFormed(Repoint(m, p, refs)) /\ OnlyAt(m, Repoint(m, p, refs), p)
         /\ Repointed(m, Repoint(m, p, refs), p, refs)
<1> PICK w : w = Repoint(m, p, refs)
  OBVIOUS
<1>1. /\ m.at \in [Place -> Seq(Nat)] /\ Linked(m) /\ Finite(m) /\ m \in Memories
      /\ m = [graphics |-> m.graphics, faces |-> m.faces, commands |-> m.commands, at |-> m.at]
      /\ DOMAIN m.graphics \subseteq Nat
  BY MemoryFacts DEF WellFormed, Cell
<1>2. w = [graphics |-> m.graphics, faces |-> m.faces, commands |-> m.commands,
           at |-> [m.at EXCEPT ![p] = refs]]
  BY <1>1 DEF Repoint
<1>3. refs \in Seq(Nat) /\ \A i \in DOMAIN refs : refs[i] \in DOMAIN m.graphics
  <2>1. PICK n \in Nat : n = Len(refs)
    OBVIOUS
  <2>2. refs \in [1..n -> DOMAIN m.graphics]
    BY <2>1
  <2> QED
    BY <1>1, <2>2
<1>4. p \in Place
  BY PlacesDiffer
<1>5. w.at \in [Place -> Seq(Nat)] /\ w.at[p] = refs /\ \A q \in Place \ {p} : w.at[q] = m.at[q]
  BY <1>1, <1>2, <1>3, <1>4
<1>6. w \in Memories
  BY <1>1, <1>2, <1>5 DEF Memories
<1>7. Linked(w)
  <2>1. \A q \in GraphicsPlace : \A i \in DOMAIN w.at[q] : w.at[q][i] \in DOMAIN w.graphics
    BY <1>1, <1>2, <1>3, <1>5, PlacesDiffer DEF Linked
  <2>2. \A x \in Unit : w.at[Cmd(x)] = m.at[Cmd(x)]
    BY <1>5, PlacesDiffer
  <2>3. w.graphics = m.graphics /\ w.faces = m.faces /\ w.commands = m.commands
    BY <1>2
  <2> QED
    BY <1>1, <2>1, <2>2, <2>3 DEF Linked, IsShape
<1>8. Finite(w)
  BY <1>1, <1>2 DEF Finite
<1>9. \A r : Picture(w, r) = Picture(m, r)
  BY <1>2 DEF Picture
<1>10. \A q \in GraphicsPlace \ {p} : PicturesAt(w, q) = PicturesAt(m, q)
  <2> TAKE q \in GraphicsPlace \ {p}
  <2>1. w.at[q] = m.at[q]
    BY <1>5, PlacesDiffer
  <2> QED
    BY <1>9, <2>1, PicturesAtSame
<1>11. PicturesAt(w, p) = [i \in DOMAIN refs |-> Picture(m, refs[i])]
  BY <1>5, <1>9 DEF PicturesAt
<1>12. \A x \in Unit : Len(w.at[Cmd(x)]) = Len(m.at[Cmd(x)])
  BY <1>5, PlacesDiffer
<1>13. WellFormed(w) /\ OnlyAt(m, w, p) /\ Repointed(m, w, p, refs)
  <2>1. WellFormed(w)
    BY <1>6, <1>7, <1>8 DEF WellFormed
  <2>2. OnlyAt(m, w, p)
    BY <1>5, <1>10, <1>12, PlacesDiffer DEF OnlyAt
  <2>3. Repointed(m, w, p, refs)
    <3>1. w.graphics = m.graphics /\ w.at[p] = refs
      BY <1>2, <1>5
    <3> QED
      BY <3>1, <1>9, <1>11 DEF Repointed
  <2> QED
    BY <2>1, <2>2, <2>3
<1> QED
  BY <1>13

\* What a cell can stand for.
PictureSet == [kind : Shapes \cup Commands, on : Modes \cup {4}, commands : Seq(Int), face : Face]

\* A cell that is there stands for a picture.
LEMMA PictureTyped ==
  ASSUME NEW m, WellFormed(m), NEW r \in DOMAIN m.graphics
  PROVE  Picture(m, r) \in PictureSet
<1> PICK g : g = m.graphics[r]
  OBVIOUS
<1>1. /\ g \in GraphicsCell /\ Linked(m) /\ \A f \in DOMAIN m.faces : m.faces[f] \in Face
      /\ \A c \in DOMAIN m.commands : m.commands[c] \in Int
  BY MemoryFacts DEF WellFormed
<1>2. /\ g.face = 0 \/ g.face \in DOMAIN m.faces
      /\ \A i \in DOMAIN g.commands : g.commands[i] \in DOMAIN m.commands
  BY <1>1 DEF Linked
<1>3. NoFace \in Face
  BY DEF NoFace, Face
<1>4. (IF g.face = 0 THEN NoFace ELSE m.faces[g.face]) \in Face
  BY <1>1, <1>2, <1>3
<1>5. [i \in DOMAIN g.commands |-> m.commands[g.commands[i]]] \in Seq(Int)
  <2>1. g.commands \in Seq(Nat)
    BY <1>1 DEF GraphicsCell
  <2>2. PICK n \in Nat : n = Len(g.commands)
    BY <2>1
  <2>3. DOMAIN g.commands = 1..n
    BY <2>1, <2>2
  <2>4. \A i \in 1..n : m.commands[g.commands[i]] \in Int
    BY <1>1, <1>2, <2>3
  <2>5. [i \in 1..n |-> m.commands[g.commands[i]]] \in Seq(Int)
    BY <2>4
  <2> QED
    BY <2>3, <2>5
<1>6. g.kind \in Shapes \cup Commands /\ g.on \in Modes \cup {4}
  BY <1>1 DEF GraphicsCell
<1> QED
  BY <1>4, <1>5, <1>6 DEF Picture, PictureSet

\* So do the cells of a sequence of pointers.
LEMMA PointersTyped ==
  ASSUME NEW m, WellFormed(m), NEW refs \in Seq(DOMAIN m.graphics)
  PROVE  /\ [i \in DOMAIN refs |-> Picture(m, refs[i])] \in Seq(PictureSet)
         /\ Len([i \in DOMAIN refs |-> Picture(m, refs[i])]) = Len(refs)
<1>1. PICK n \in Nat : n = Len(refs)
  OBVIOUS
<1>2. DOMAIN refs = 1..n /\ \A i \in 1..n : refs[i] \in DOMAIN m.graphics
  BY <1>1
<1>3. \A i \in 1..n : Picture(m, refs[i]) \in PictureSet
  BY <1>2, PictureTyped
<1>4. [i \in 1..n |-> Picture(m, refs[i])] \in Seq(PictureSet)
  BY <1>3
<1>5. Len([i \in 1..n |-> Picture(m, refs[i])]) = n
  OBVIOUS
<1> QED
  BY <1>1, <1>2, <1>4, <1>5

\* So do the pointers of a place, one for one.
LEMMA PlaceTyped ==
  ASSUME NEW m, WellFormed(m), NEW p \in GraphicsPlace
  PROVE  /\ m.at[p] \in Seq(DOMAIN m.graphics)
         /\ PicturesAt(m, p) \in Seq(PictureSet) /\ Len(PicturesAt(m, p)) = Len(m.at[p])
<1>1. m.at[p] \in Seq(Nat) /\ \A i \in DOMAIN m.at[p] : m.at[p][i] \in DOMAIN m.graphics
  BY MemoryFacts, PlacesDiffer DEF WellFormed, Linked
<1>2. PICK n \in Nat : n = Len(m.at[p])
  BY <1>1
<1>3. m.at[p] \in [1..n -> DOMAIN m.graphics]
  BY <1>1, <1>2
<1>4. m.at[p] \in Seq(DOMAIN m.graphics)
  BY <1>3
<1> QED
  BY <1>4, PointersTyped DEF PicturesAt

\* Clearing a place changes nothing that other places hold.
LEMMA ClearOK ==
  ASSUME NEW m, WellFormed(m), NEW p \in GraphicsPlace
  PROVE  WellFormed(Clear(m, p)) /\ OnlyAt(m, Clear(m, p), p) /\ Clear(m, p).at[p] = <<>>
<1> PICK e, w : e = Repoint(m, p, <<>>) /\ w = Held(e)
  OBVIOUS
<1>1. <<>> \in Seq(DOMAIN m.graphics)
  OBVIOUS
<1>2. WellFormed(e) /\ OnlyAt(m, e, p) /\ Repointed(m, e, p, <<>>)
  BY <1>1, RepointedOK
<1>3. WellFormed(w) /\ SameHeld(e, w)
  BY <1>2, HeldOK
<1>4. OnlyAt(m, w, p)
  BY <1>2, <1>3, OnlyAtHeld
<1>5. w.at[p] = <<>>
  BY <1>2, <1>3 DEF SameHeld, Repointed
<1>6. Clear(m, p) = w
  BY DEF Clear, Repoint
<1> QED
  BY <1>3, <1>4, <1>5, <1>6

PicturesOf(m, refs) == [i \in DOMAIN refs |-> Picture(m, refs[i])]

\* The pointers are behind what place p held.
Pushed(m, w, p, refs) ==
  /\ w.at[p] = m.at[p] \o refs
  /\ PicturesAt(w, p) = PicturesAt(m, p) \o PicturesOf(m, refs)
  /\ w.graphics = m.graphics /\ \A r : Picture(w, r) = Picture(m, r)

\* push puts pointers behind what a place holds: the pictures follow.
LEMMA PushOK ==
  ASSUME NEW m, WellFormed(m), NEW p \in GraphicsPlace, NEW refs \in Seq(DOMAIN m.graphics)
  PROVE  /\ WellFormed(Push(m, p, refs)) /\ OnlyAt(m, Push(m, p, refs), p)
         /\ Pushed(m, Push(m, p, refs), p, refs)
<1> PICK all, w : all = m.at[p] \o refs /\ w = Push(m, p, refs)
  OBVIOUS
<1> PICK was, as : was = PicturesAt(m, p) /\ as = PicturesOf(m, refs)
  OBVIOUS
<1>1. /\ m.at[p] \in Seq(DOMAIN m.graphics) /\ was \in Seq(PictureSet)
      /\ Len(was) = Len(m.at[p]) /\ DOMAIN was = DOMAIN m.at[p]
  BY PlaceTyped DEF PicturesAt
<1>2. all \in Seq(DOMAIN m.graphics)
  BY <1>1, ConcatProperties
<1>3. w = Repoint(m, p, all)
  BY DEF Push, Repoint
<1>4. WellFormed(w) /\ OnlyAt(m, w, p) /\ Repointed(m, w, p, all)
  BY <1>2, <1>3, RepointedOK
<1>5. PicturesAt(w, p) = was \o as
  <2>1. as \in Seq(PictureSet) /\ Len(as) = Len(refs)
    BY PointersTyped DEF PicturesOf
  <2>2. PICK k \in Nat, n \in Nat : k = Len(m.at[p]) /\ n = Len(refs)
    BY <1>1
  <2>3. /\ was \o as \in Seq(PictureSet) /\ Len(was \o as) = k + n
        /\ \A i \in 1..k + n : (was \o as)[i] = IF i <= k THEN was[i] ELSE as[i - k]
    <3>1. Len(was) = k /\ Len(as) = n
      BY <1>1, <2>1, <2>2
    <3>2. /\ was \o as \in Seq(PictureSet) /\ Len(was \o as) = Len(was) + Len(as)
          /\ \A i \in 1..Len(was) + Len(as) : (was \o as)[i] =
               IF i <= Len(was) THEN was[i] ELSE as[i - Len(was)]
      <4>1. was \in Seq(PictureSet) /\ as \in Seq(PictureSet)
        BY <1>1, <2>1
      <4> QED
        BY <4>1, ConcatProperties
    <3> QED
      BY <3>1, <3>2
  <2>4. /\ Len(all) = k + n
        /\ \A i \in 1..k + n : all[i] = IF i <= k THEN m.at[p][i] ELSE refs[i - k]
    BY <1>1, <2>2, ConcatProperties
  <2>5. \A i \in 1..k + n : Picture(m, all[i]) = (was \o as)[i]
    <3> TAKE i \in 1..k + n
    <3>1. CASE i <= k
      <4>1. i \in DOMAIN m.at[p]
        BY <1>1, <2>2, <3>1
      <4>2. was[i] = Picture(m, m.at[p][i])
        BY <4>1 DEF PicturesAt
      <4> QED
        BY <2>3, <2>4, <3>1, <4>2
    <3>2. CASE ~(i <= k)
      <4>1. i - k \in DOMAIN refs
        BY <2>2, <3>2
      <4>2. as[i - k] = Picture(m, refs[i - k])
        BY <4>1 DEF PicturesOf
      <4> QED
        BY <2>3, <2>4, <3>2, <4>2
    <3> QED
      BY <3>1, <3>2
  <2>6. PicturesAt(w, p) = [i \in DOMAIN all |-> Picture(m, all[i])]
    BY <1>4 DEF Repointed
  <2>7. PicturesAt(w, p) \in Seq(PictureSet) /\ Len(PicturesAt(w, p)) = k + n
    BY <1>4, <2>4, PlaceTyped DEF Repointed
  <2>8. DOMAIN all = 1..k + n
    BY <1>2, <2>4
  <2>9. \A i \in 1..k + n : PicturesAt(w, p)[i] = (was \o as)[i]
    BY <2>5, <2>6, <2>8
  <2> QED
    BY <2>3, <2>7, <2>9, SeqEqual
<1>6. Pushed(m, w, p, refs)
  BY <1>4, <1>5 DEF Pushed, Repointed
<1> QED
  BY <1>4, <1>6

\* A place gets what pointers lead to that other places hold.
LEMMA PutOK ==
  ASSUME NEW m, WellFormed(m), NEW p \in GraphicsPlace, NEW refs \in Seq(DOMAIN Clear(m, p).graphics)
  PROVE  LET w == Push(Clear(m, p), p, refs)
         IN WellFormed(w) /\ OnlyAt(m, w, p) /\ w.at[p] = refs
            /\ PicturesAt(w, p) = PicturesOf(Clear(m, p), refs)
<1> PICK c, w : c = Clear(m, p) /\ w = Push(c, p, refs)
  OBVIOUS
<1>1. WellFormed(c) /\ OnlyAt(m, c, p) /\ c.at[p] = <<>>
  BY ClearOK
<1>2. refs \in Seq(DOMAIN c.graphics)
  OBVIOUS
<1>3. WellFormed(w) /\ OnlyAt(c, w, p) /\ Pushed(c, w, p, refs)
  BY <1>1, <1>2, PushOK
<1>4. OnlyAt(m, w, p)
  BY <1>1, <1>3, OnlyAtTwice
<1>5. PicturesAt(c, p) = <<>>
  BY <1>1 DEF PicturesAt
<1>6. PicturesOf(c, refs) \in Seq(PictureSet)
  BY <1>1, <1>2, PointersTyped DEF PicturesOf
<1>7. w.at[p] = refs /\ PicturesAt(w, p) = PicturesOf(c, refs)
  <2>1. <<>> \o refs = refs /\ <<>> \o PicturesOf(c, refs) = PicturesOf(c, refs)
    BY <1>2, <1>6, ConcatEmptySeq
  <2> QED
    BY <1>1, <1>3, <1>5, <2>1 DEF Pushed
<1> QED
  BY <1>3, <1>4, <1>7

\* A place gets what another one holds (graphics.cc, in_out.cc: clear, then push).
LEMMA CopyOK ==
  ASSUME NEW m, WellFormed(m), NEW p \in GraphicsPlace, NEW a \in GraphicsPlace \ {p}
  PROVE  LET w == Push(Clear(m, p), p, m.at[a])
         IN WellFormed(w) /\ OnlyAt(m, w, p) /\ w.at[p] = m.at[a] /\ PicturesAt(w, p) = PicturesAt(m, a)
<1> PICK c, refs : c = Clear(m, p) /\ refs = m.at[a]
  OBVIOUS
<1>1. WellFormed(c) /\ OnlyAt(m, c, p)
  BY ClearOK
<1>2. refs = c.at[a] /\ PicturesAt(c, a) = PicturesAt(m, a)
  BY <1>1 DEF OnlyAt
<1>3. refs \in Seq(DOMAIN c.graphics)
  BY <1>1, <1>2, PlaceTyped
<1>4. PICK w : w = Push(c, p, refs)
  OBVIOUS
<1>5. WellFormed(w) /\ OnlyAt(m, w, p) /\ w.at[p] = refs /\ PicturesAt(w, p) = PicturesOf(c, refs)
  BY <1>3, <1>4, PutOK
<1>6. PicturesOf(c, refs) = PicturesAt(m, a)
  BY <1>2 DEF PicturesOf, PicturesAt
<1> QED
  BY <1>4, <1>5, <1>6

------------------------------------------------------------------------------
(* Cells are touched                                                       *)

\* What touch does, cell by cell.
LEMMA TouchMemory ==
  ASSUME NEW m, WellFormed(m), NEW p \in GraphicsPlace, NEW i \in DOMAIN m.at[p],
         ~GraphicsUnique(m, p, i)
  PROVE  LET t == Touch(m, p, i)
             n == New(m.graphics)
         IN /\ t.faces = m.faces /\ t.commands = m.commands
            /\ t.graphics \in Tables(GraphicsCell) /\ IsFiniteSet(DOMAIN t.graphics)
            /\ DOMAIN t.graphics = DOMAIN m.graphics \cup {n}
            /\ t.graphics[n] = m.graphics[m.at[p][i]]
            /\ \A r \in DOMAIN m.graphics : t.graphics[r] = m.graphics[r]
            /\ t.at \in [Place -> Seq(Nat)] /\ t \in Memories
            /\ \A q \in Place \ {p} : t.at[q] = m.at[q]
            /\ DOMAIN t.at[p] = DOMAIN m.at[p] /\ t.at[p][i] = n
            /\ \A j \in DOMAIN m.at[p] : j # i => t.at[p][j] = m.at[p][j]
<1> PICK n, t : n = New(m.graphics) /\ t = Touch(m, p, i)
  OBVIOUS
<1> PICK c : c = m.graphics[m.at[p][i]]
  OBVIOUS
<1>1. n \in Cell /\ n \notin DOMAIN m.graphics
  BY NewIsNew DEF WellFormed, Finite
<1>2. /\ m.graphics \in Tables(GraphicsCell) /\ m.faces \in Tables(Face)
      /\ m.commands \in Tables(Int) /\ m.at \in [Place -> Seq(Nat)]
      /\ m = [graphics |-> m.graphics, faces |-> m.faces, commands |-> m.commands, at |-> m.at]
      /\ c \in GraphicsCell /\ IsFiniteSet(DOMAIN m.graphics) /\ p \in Place
  BY MemoryFacts, PlacesDiffer DEF WellFormed, Finite, Linked
<1>3. t = [graphics |-> With(m.graphics, n, c), faces |-> m.faces, commands |-> m.commands,
           at |-> [m.at EXCEPT ![p] = [@ EXCEPT ![i] = n]]]
  BY <1>2 DEF Touch
<1>4. /\ t.graphics \in Tables(GraphicsCell) /\ IsFiniteSet(DOMAIN t.graphics)
      /\ DOMAIN t.graphics = DOMAIN m.graphics \cup {n} /\ t.graphics[n] = c
      /\ \A r \in DOMAIN m.graphics : r # n => t.graphics[r] = m.graphics[r]
  <2>1. t.graphics = With(m.graphics, n, c)
    BY <1>3
  <2>2. IsWith(GraphicsCell, m.graphics, n, c, With(m.graphics, n, c))
    BY <1>1, <1>2, WithOK
  <2> QED
    BY <1>2, <2>1, <2>2 DEF IsWith
<1>5. PICK a : a = [m.at[p] EXCEPT ![i] = n]
  OBVIOUS
<1>6. /\ a \in Seq(Nat) /\ DOMAIN a = DOMAIN m.at[p] /\ a[i] = n
      /\ \A j \in DOMAIN m.at[p] : j # i => a[j] = m.at[p][j]
  <2>1. m.at[p] \in Seq(Nat) /\ n \in Nat /\ i \in 1..Len(m.at[p])
    BY <1>1, <1>2 DEF Cell
  <2>2. /\ a \in Seq(Nat) /\ Len(a) = Len(m.at[p])
        /\ \A j \in 1..Len(m.at[p]) : a[j] = IF j = i THEN n ELSE m.at[p][j]
    BY <1>5, <2>1, ExceptSeq
  <2>3. DOMAIN m.at[p] = 1..Len(m.at[p]) /\ DOMAIN a = 1..Len(a)
    BY <2>1, <2>2
  <2> QED
    BY <2>1, <2>2, <2>3
<1>7. t.at = [m.at EXCEPT ![p] = a]
  BY <1>3, <1>5
<1>8. t.at \in [Place -> Seq(Nat)] /\ t.at[p] = a /\ \A q \in Place \ {p} : t.at[q] = m.at[q]
  BY <1>2, <1>6, <1>7
<1>9. t.faces = m.faces /\ t.commands = m.commands
  BY <1>3
<1>10. t \in Memories
  BY <1>2, <1>3, <1>4, <1>8 DEF Memories
<1>11. \A r \in DOMAIN m.graphics : t.graphics[r] = m.graphics[r]
  BY <1>1, <1>4
<1> QED
  BY <1>4, <1>6, <1>8, <1>9, <1>10, <1>11

\* touch changes no picture, keeps the memory well formed and leaves the cell to
\* its holder alone (cow_ptr.h).
THEOREM TouchKeepsPictures ==
  ASSUME NEW m, WellFormed(m), NEW p \in GraphicsPlace, NEW i \in DOMAIN m.at[p]
  PROVE  LET t == Touch(m, p, i)
         IN /\ WellFormed(t)
            /\ GraphicsUnique(t, p, i)
            /\ \A q \in GraphicsPlace \ {p} : t.at[q] = m.at[q]
            /\ DOMAIN t.at[p] = DOMAIN m.at[p]
            /\ \A q \in GraphicsPlace : PicturesAt(t, q) = PicturesAt(m, q)
            /\ \A x \in Unit : t.at[Cmd(x)] = m.at[Cmd(x)]
<1> PICK n, t : n = New(m.graphics) /\ t = Touch(m, p, i)
  OBVIOUS
<1>1. CASE GraphicsUnique(m, p, i)
  BY <1>1 DEF Touch
<1>2. CASE ~GraphicsUnique(m, p, i)
  <2>1. n \in Nat /\ n \notin DOMAIN m.graphics
    BY NewIsNew DEF WellFormed, Finite, Cell
  <2>2. p \in Place
    BY PlacesDiffer
  <2>3. /\ t.faces = m.faces /\ t.commands = m.commands
        /\ DOMAIN t.graphics = DOMAIN m.graphics \cup {n} /\ IsFiniteSet(DOMAIN t.graphics)
        /\ t.graphics[n] = m.graphics[m.at[p][i]]
        /\ \A r \in DOMAIN m.graphics : t.graphics[r] = m.graphics[r]
        /\ t \in Memories
        /\ \A q \in Place \ {p} : t.at[q] = m.at[q]
        /\ DOMAIN t.at[p] = DOMAIN m.at[p] /\ t.at[p][i] = n
        /\ \A j \in DOMAIN m.at[p] : j # i => t.at[p][j] = m.at[p][j]
    BY <1>2, TouchMemory
  <2>4. \A q \in GraphicsPlace : \A j \in DOMAIN m.at[q] : m.at[q][j] \in DOMAIN m.graphics
    BY DEF WellFormed, Linked
  <2>5. \A q \in GraphicsPlace \ {p} : t.at[q] = m.at[q]
    BY <2>3, PlacesDiffer
  <2>6. \A x \in Unit : t.at[Cmd(x)] = m.at[Cmd(x)]
    BY <2>3, PlacesDiffer
  <2>7. \A r \in DOMAIN m.graphics : Picture(t, r) = Picture(m, r)
    BY <2>3 DEF Picture
  <2>8. Picture(t, n) = Picture(m, m.at[p][i])
    BY <2>3 DEF Picture
  <2>9. \A q \in GraphicsPlace \ {p} : PicturesAt(t, q) = PicturesAt(m, q)
    BY <2>4, <2>5, <2>7, PicturesAtSame
  <2>10. PicturesAt(t, p) = PicturesAt(m, p)
    <3>1. \A j \in DOMAIN m.at[p] : Picture(t, t.at[p][j]) = Picture(m, m.at[p][j])
      BY <2>3, <2>4, <2>7, <2>8
    <3>2. [j \in DOMAIN t.at[p] |-> Picture(t, t.at[p][j])] =
          [j \in DOMAIN m.at[p] |-> Picture(m, m.at[p][j])]
      BY <2>3, <3>1
    <3> QED
      BY <3>2 DEF PicturesAt
  <2>11. \A q \in GraphicsPlace : PicturesAt(t, q) = PicturesAt(m, q)
    BY <2>9, <2>10
  <2>12. GraphicsUnique(t, p, i)
    <3> SUFFICES ASSUME NEW q \in GraphicsPlace, NEW j \in DOMAIN t.at[q], t.at[q][j] = t.at[p][i]
                 PROVE  q = p /\ j = i
      BY DEF GraphicsUnique
    <3>1. t.at[q][j] = n
      BY <2>3
    <3>2. CASE q = p
      BY <2>1, <2>3, <2>4, <3>1, <3>2
    <3>3. CASE q # p
      BY <2>1, <2>4, <2>5, <3>1, <3>3
    <3> QED
      BY <3>2, <3>3
  <2>13. WellFormed(t)
    <3>1. Finite(t)
      BY <2>3 DEF WellFormed, Finite
    <3>2. \A q \in GraphicsPlace : \A j \in DOMAIN t.at[q] : t.at[q][j] \in DOMAIN t.graphics
      BY <2>3, <2>4, <2>5
    <3>3. \A r \in DOMAIN t.graphics :
            \E g \in DOMAIN m.graphics : t.graphics[r] = m.graphics[g]
      BY <2>3, <2>4
    <3>4. Linked(t)
      BY <2>3, <2>6, <3>2, <3>3 DEF WellFormed, Linked, IsShape
    <3> QED
      BY <2>3, <3>1, <3>4 DEF WellFormed
  <2> QED
    BY <2>3, <2>5, <2>6, <2>11, <2>12, <2>13
<1> QED
  BY <1>1, <1>2

\* A cell that one position alone leads to is written; other cells keep their pictures.
LEMMA WrittenAlone ==
  ASSUME NEW t, WellFormed(t), NEW p \in GraphicsPlace, NEW i \in DOMAIN t.at[p], GraphicsUnique(t, p, i),
         NEW r, r = t.at[p][i], NEW w, \A q \in GraphicsPlace : w.at[q] = t.at[q],
         \A g \in DOMAIN t.graphics : g # r => Picture(w, g) = Picture(t, g)
  PROVE  /\ \A q \in GraphicsPlace \ {p} : PicturesAt(w, q) = PicturesAt(t, q)
         /\ PicturesAt(w, p) = [PicturesAt(t, p) EXCEPT ![i] = Picture(w, r)]
<1>1. \A q \in GraphicsPlace : \A j \in DOMAIN t.at[q] : t.at[q][j] \in DOMAIN t.graphics
  BY DEF WellFormed, Linked
<1>2. \A q \in GraphicsPlace : \A j \in DOMAIN t.at[q] : t.at[q][j] = r => q = p /\ j = i
  BY DEF GraphicsUnique
<1>3. \A q \in GraphicsPlace \ {p} : PicturesAt(w, q) = PicturesAt(t, q)
  <2> TAKE q \in GraphicsPlace \ {p}
  <2>1. \A j \in DOMAIN t.at[q] : Picture(w, t.at[q][j]) = Picture(t, t.at[q][j])
    BY <1>1, <1>2
  <2> QED
    BY <2>1, PicturesAtSame
<1>4. PicturesAt(w, p) = [PicturesAt(t, p) EXCEPT ![i] = Picture(w, r)]
  <2>1. \A j \in DOMAIN t.at[p] : j # i => Picture(w, t.at[p][j]) = Picture(t, t.at[p][j])
    BY <1>1, <1>2
  <2>2. PicturesAt(w, p) = [j \in DOMAIN t.at[p] |-> Picture(w, t.at[p][j])]
    BY DEF PicturesAt
  <2>3. PicturesAt(t, p) = [j \in DOMAIN t.at[p] |-> Picture(t, t.at[p][j])]
    BY DEF PicturesAt
  <2> QED
    BY <2>1, <2>2, <2>3
<1> QED
  BY <1>3, <1>4

\* What writing the face of cell r leaves.
FaceIs(m, w, r, face) ==
  /\ w.at = m.at /\ DOMAIN w.graphics = DOMAIN m.graphics
  /\ Picture(w, r) = [Picture(m, r) EXCEPT !.face = face]
  /\ \A g \in DOMAIN m.graphics : g # r => Picture(w, g) = Picture(m, g)

\* Writing the face of a shape changes the picture of that cell only, be its face
\* shared with another cell or not (touch_face copies it then).
LEMMA WriteFaceOK ==
  ASSUME NEW m, WellFormed(m), NEW r \in DOMAIN m.graphics, IsShape(m, r), NEW face \in Face
  PROVE  WellFormed(WriteFace(m, r, face)) /\ FaceIs(m, WriteFace(m, r, face), r, face)
<1> PICK f, w : f = (IF FaceUnique(m, r) THEN m.graphics[r].face ELSE New(m.faces))
                /\ w = WriteFace(m, r, face)
  OBVIOUS
<1> PICK c, e : c = m.graphics[r] /\ e = [c EXCEPT !.face = f]
  OBVIOUS
<1>1. /\ m.graphics \in Tables(GraphicsCell) /\ m.faces \in Tables(Face)
      /\ m.commands \in Tables(Int) /\ m.at \in [Place -> Seq(Nat)] /\ Finite(m) /\ Linked(m)
      /\ m = [graphics |-> m.graphics, faces |-> m.faces, commands |-> m.commands, at |-> m.at]
      /\ c \in GraphicsCell /\ \A x \in DOMAIN m.faces : x \in Cell
  BY MemoryFacts DEF WellFormed
<1>2. /\ c.kind \in Shapes /\ c.face \in DOMAIN m.faces
      /\ \A g \in DOMAIN m.graphics : m.graphics[g].face = 0 \/ m.graphics[g].face \in DOMAIN m.faces
  BY <1>1 DEF IsShape, Linked
\* Nobody but r has its face if it is unique, and nobody has a new one.
<1>3. f \in Cell /\ \A g \in DOMAIN m.graphics : g # r => m.graphics[g].face # f
  <2>1. CASE FaceUnique(m, r)
    BY <1>1, <1>2, <2>1 DEF FaceUnique
  <2>2. CASE ~FaceUnique(m, r)
    <3>1. f \notin DOMAIN m.faces /\ f \in Cell
      BY <1>1, <2>2, NewIsNew DEF Finite
    <3> QED
      BY <1>2, <3>1 DEF Cell
  <2> QED
    BY <2>1, <2>2
<1>4. w = [graphics |-> [m.graphics EXCEPT ![r] = e], faces |-> With(m.faces, f, face),
           commands |-> m.commands, at |-> m.at]
  <2>1. w = [m EXCEPT !.faces = With(@, f, face), !.graphics[r].face = f]
    BY DEF WriteFace
  <2> QED
    BY <1>1, <2>1
<1>5. /\ e \in GraphicsCell /\ e.kind = c.kind /\ e.on = c.on /\ e.commands = c.commands /\ e.face = f
  BY <1>1, <1>3 DEF GraphicsCell, Cell
<1>6. IsWith(Face, m.faces, f, face, w.faces)
  <2>1. w.faces = With(m.faces, f, face)
    BY <1>4
  <2>2. IsWith(Face, m.faces, f, face, With(m.faces, f, face))
    BY <1>1, <1>3, WithOK
  <2> QED
    BY <2>1, <2>2
<1>7. IsChanged(GraphicsCell, m.graphics, r, e, w.graphics)
  <2>1. w.graphics = [m.graphics EXCEPT ![r] = e]
    BY <1>4
  <2>2. IsChanged(GraphicsCell, m.graphics, r, e, [m.graphics EXCEPT ![r] = e])
    BY <1>1, <1>5, ChangedOK
  <2> QED
    BY <2>1, <2>2
<1>8. w.at = m.at /\ w.commands = m.commands
  BY <1>4
<1>9. WellFormed(w)
  <2>1. w \in Memories
    BY <1>1, <1>4, <1>6, <1>7 DEF IsWith, IsChanged, Memories
  <2>2. Finite(w)
    BY <1>1, <1>6, <1>7, <1>8 DEF IsWith, IsChanged, Finite
  <2>3. \A g \in DOMAIN w.graphics :
          /\ w.graphics[g].face \in IF IsShape(w, g) THEN DOMAIN w.faces ELSE {0}
          /\ \A i \in DOMAIN w.graphics[g].commands : w.graphics[g].commands[i] \in DOMAIN w.commands
    <3> TAKE g \in DOMAIN w.graphics
    <3>1. CASE g = r
      <4>1. w.graphics[g] = e /\ IsShape(w, g) /\ f \in DOMAIN w.faces
        BY <1>2, <1>5, <1>6, <1>7, <3>1 DEF IsWith, IsChanged, IsShape
      <4>2. \A i \in DOMAIN c.commands : c.commands[i] \in DOMAIN m.commands
        BY <1>1 DEF Linked
      <4> QED
        BY <1>5, <1>8, <4>1, <4>2
    <3>2. CASE g # r
      <4>1. g \in DOMAIN m.graphics /\ w.graphics[g] = m.graphics[g] /\ DOMAIN m.faces \subseteq DOMAIN w.faces
        BY <1>6, <1>7, <3>2 DEF IsWith, IsChanged
      <4> QED
        BY <1>1, <1>8, <4>1 DEF Linked, IsShape
    <3> QED
      BY <3>1, <3>2
  <2>4. Linked(w)
    BY <1>1, <1>7, <1>8, <2>3 DEF IsChanged, Linked
  <2> QED
    BY <2>1, <2>2, <2>4 DEF WellFormed
<1>10. \A g \in DOMAIN m.graphics : g # r => Picture(w, g) = Picture(m, g)
  <2> SUFFICES ASSUME NEW g \in DOMAIN m.graphics, g # r
               PROVE  Picture(w, g) = Picture(m, g)
    OBVIOUS
  <2>1. w.graphics[g] = m.graphics[g]
    BY <1>7 DEF IsChanged
  <2>2. m.graphics[g].face = 0 \/ w.faces[m.graphics[g].face] = m.faces[m.graphics[g].face]
    BY <1>2, <1>3, <1>6 DEF IsWith
  <2> QED
    BY <1>8, <2>1, <2>2, PictureSame
<1>11. Picture(w, r) = [Picture(m, r) EXCEPT !.face = face]
  <2>1. w.graphics[r] = e /\ w.faces[f] = face /\ f # 0
    BY <1>3, <1>6, <1>7 DEF IsWith, IsChanged, Cell
  <2>2. PICK cs : cs = [i \in DOMAIN c.commands |-> m.commands[c.commands[i]]]
    OBVIOUS
  <2>3. PICK old : Picture(m, r) = [kind |-> c.kind, on |-> c.on, commands |-> cs, face |-> old]
    BY <2>2 DEF Picture
  <2>4. [Picture(m, r) EXCEPT !.face = face] =
          [kind |-> c.kind, on |-> c.on, commands |-> cs, face |-> face]
    BY <2>3
  <2>5. [i \in DOMAIN e.commands |-> w.commands[e.commands[i]]] = cs
    BY <1>5, <1>8, <2>2
  <2>6. Picture(w, r) = [kind |-> c.kind, on |-> c.on, commands |-> cs, face |-> face]
    BY <1>5, <2>1, <2>5 DEF Picture
  <2> QED
    BY <2>4, <2>6
<1>12. FaceIs(m, w, r, face)
  BY <1>7, <1>8, <1>10, <1>11 DEF FaceIs, IsChanged
<1> QED
  BY <1>9, <1>12

\* A filter, a maker or XOut that touches an entry and writes its face changes
\* the picture there and no other one, whoever shares cells with it: units of
\* this and of other synths, the bus and its past (color.cc, in_out.cc).
THEOREM WritesStayPrivate ==
  ASSUME NEW m, WellFormed(m), NEW p \in GraphicsPlace, NEW i \in DOMAIN m.at[p],
         IsShape(m, m.at[p][i]), NEW face \in Face
  PROVE  LET t == Touch(m, p, i)
             w == WriteFace(t, t.at[p][i], face)
         IN /\ \A q \in GraphicsPlace \ {p} : PicturesAt(w, q) = PicturesAt(m, q)
            /\ PicturesAt(w, p) =
                 [PicturesAt(m, p) EXCEPT ![i] = [Picture(m, m.at[p][i]) EXCEPT !.face = face]]
<1> PICK t : t = Touch(m, p, i)
  OBVIOUS
<1> PICK r : r = t.at[p][i]
  OBVIOUS
<1> PICK w : w = WriteFace(t, r, face)
  OBVIOUS
<1>1. /\ WellFormed(t) /\ GraphicsUnique(t, p, i) /\ DOMAIN t.at[p] = DOMAIN m.at[p]
      /\ \A q \in GraphicsPlace : PicturesAt(t, q) = PicturesAt(m, q)
  BY TouchKeepsPictures
<1>2. i \in DOMAIN t.at[p] /\ r \in DOMAIN t.graphics
  BY <1>1 DEF WellFormed, Linked
<1>3. Picture(t, r) = Picture(m, m.at[p][i])
  <2>1. PicturesAt(t, p)[i] = PicturesAt(m, p)[i]
    BY <1>1
  <2> QED
    BY <1>2, <2>1 DEF PicturesAt
<1>4. IsShape(t, r)
  <2>1. Picture(t, r).kind = t.graphics[r].kind /\ Picture(m, m.at[p][i]).kind = m.graphics[m.at[p][i]].kind
    BY DEF Picture
  <2> QED
    BY <1>3, <2>1 DEF IsShape
<1>5. FaceIs(t, w, r, face)
  BY <1>1, <1>2, <1>4, WriteFaceOK
<1>6. /\ \A q \in GraphicsPlace : w.at[q] = t.at[q]
      /\ \A g \in DOMAIN t.graphics : g # r => Picture(w, g) = Picture(t, g)
  BY <1>5 DEF FaceIs
<1>7. /\ \A q \in GraphicsPlace \ {p} : PicturesAt(w, q) = PicturesAt(t, q)
      /\ PicturesAt(w, p) = [PicturesAt(t, p) EXCEPT ![i] = Picture(w, r)]
  BY <1>1, <1>2, <1>6, WrittenAlone
<1>8. Picture(w, r) = [Picture(m, m.at[p][i]) EXCEPT !.face = face]
  BY <1>3, <1>5 DEF FaceIs
<1>9. /\ \A q \in GraphicsPlace \ {p} : PicturesAt(w, q) = PicturesAt(m, q)
      /\ PicturesAt(w, p) =
           [PicturesAt(m, p) EXCEPT ![i] = [Picture(m, m.at[p][i]) EXCEPT !.face = face]]
  BY <1>1, <1>7, <1>8
<1> QED
  BY <1>9

------------------------------------------------------------------------------
(* Commands are written                                                    *)

\* Cell c is a command with value v.
StoreCommand(m, c, v) == [m EXCEPT !.commands = With(@, c, v)]

\* No picture is another one.
SameCells(m, w) ==
  /\ w.graphics = m.graphics /\ \A g \in DOMAIN m.graphics : Picture(w, g) = Picture(m, g)

\* No picture has the command c that is stored.
LEMMA StoreCommandOK ==
  ASSUME NEW m, WellFormed(m), NEW c \in Cell, NEW v \in Int,
         \A g \in DOMAIN m.graphics : c \notin Elements(m.graphics[g].commands)
  PROVE  LET w == StoreCommand(m, c, v)
         IN /\ WellFormed(w) /\ SameCells(m, w) /\ w.at = m.at /\ w.faces = m.faces
            /\ c \in DOMAIN w.commands /\ w.commands[c] = v
<1> PICK w : w = StoreCommand(m, c, v)
  OBVIOUS
<1>1. /\ m.graphics \in Tables(GraphicsCell) /\ m.faces \in Tables(Face)
      /\ m.commands \in Tables(Int) /\ m.at \in [Place -> Seq(Nat)] /\ Finite(m) /\ Linked(m)
      /\ m = [graphics |-> m.graphics, faces |-> m.faces, commands |-> m.commands, at |-> m.at]
  BY MemoryFacts DEF WellFormed
<1>2. w = [graphics |-> m.graphics, faces |-> m.faces, commands |-> With(m.commands, c, v), at |-> m.at]
  BY <1>1 DEF StoreCommand
<1>3. IsWith(Int, m.commands, c, v, w.commands)
  <2>1. w.commands = With(m.commands, c, v)
    BY <1>2
  <2>2. IsWith(Int, m.commands, c, v, With(m.commands, c, v))
    BY <1>1, WithOK
  <2> QED
    BY <2>1, <2>2
<1>4. w.graphics = m.graphics /\ w.faces = m.faces /\ w.at = m.at
  BY <1>2
<1>5. w \in Memories
  BY <1>1, <1>2, <1>3 DEF IsWith, Memories
<1>6. Finite(w)
  BY <1>1, <1>3, <1>4 DEF IsWith, Finite
<1>7. Linked(w)
  BY <1>1, <1>3, <1>4 DEF IsWith, Linked, IsShape
<1>8. ASSUME NEW g \in DOMAIN m.graphics
      PROVE  Picture(w, g) = Picture(m, g)
  <2>1. \A i \in DOMAIN m.graphics[g].commands :
          w.commands[m.graphics[g].commands[i]] = m.commands[m.graphics[g].commands[i]]
    BY <1>1, <1>3 DEF IsWith, Linked, Elements
  <2> QED
    BY <1>4, <2>1, PictureSame
<1>9. c \in DOMAIN w.commands /\ w.commands[c] = v
  BY <1>3 DEF IsWith
<1>10. WellFormed(w) /\ SameCells(m, w)
  BY <1>4, <1>5, <1>6, <1>7, <1>8 DEF WellFormed, SameCells
<1> QED
  BY <1>4, <1>9, <1>10

\* Unit x has the command c.
PointCommand(m, x, c) == [m EXCEPT !.at[Cmd(x)] = <<c>>]

\* A unit that points to another command changes no picture.
LEMMA PointCommandOK ==
  ASSUME NEW m, WellFormed(m), NEW x \in Unit, NEW c \in DOMAIN m.commands
  PROVE  LET w == PointCommand(m, x, c)
         IN /\ WellFormed(w) /\ SameCells(m, w) /\ w.commands = m.commands
            /\ w.at[Cmd(x)] = <<c>> /\ \A q \in Place \ {Cmd(x)} : w.at[q] = m.at[q]
<1> PICK w : w = PointCommand(m, x, c)
  OBVIOUS
<1>1. /\ m.graphics \in Tables(GraphicsCell) /\ m.faces \in Tables(Face)
      /\ m.commands \in Tables(Int) /\ m.at \in [Place -> Seq(Nat)] /\ Finite(m) /\ Linked(m)
      /\ m = [graphics |-> m.graphics, faces |-> m.faces, commands |-> m.commands, at |-> m.at]
      /\ c \in Nat /\ Cmd(x) \in Place
  BY MemoryFacts, PlacesDiffer DEF WellFormed, Cell
<1>2. w = [graphics |-> m.graphics, faces |-> m.faces, commands |-> m.commands,
           at |-> [m.at EXCEPT ![Cmd(x)] = <<c>>]]
  BY <1>1 DEF PointCommand
<1>3. w.at \in [Place -> Seq(Nat)] /\ w.at[Cmd(x)] = <<c>> /\ \A q \in Place \ {Cmd(x)} : w.at[q] = m.at[q]
  BY <1>1, <1>2
<1>4. w.graphics = m.graphics /\ w.faces = m.faces /\ w.commands = m.commands
  BY <1>2
<1>5. w \in Memories
  BY <1>1, <1>2, <1>3 DEF Memories
<1>6. Linked(w)
  <2>1. \A q \in GraphicsPlace : w.at[q] = m.at[q]
    BY <1>3, PlacesDiffer
  <2>2. \A y \in Unit : \A i \in DOMAIN w.at[Cmd(y)] : w.at[Cmd(y)][i] \in DOMAIN m.commands
    <3> TAKE y \in Unit
    <3>1. CASE y = x
      BY <1>3, <3>1
    <3>2. CASE y # x
      <4>1. w.at[Cmd(y)] = m.at[Cmd(y)]
        BY <1>3, <3>2, PlacesDiffer
      <4> QED
        BY <1>1, <4>1 DEF Linked
    <3> QED
      BY <3>1, <3>2
  <2> QED
    BY <1>1, <1>4, <2>1, <2>2 DEF Linked, IsShape
<1>7. WellFormed(w)
  BY <1>1, <1>4, <1>5, <1>6 DEF WellFormed, Finite
<1>8. SameCells(m, w)
  BY <1>4 DEF SameCells, Picture
<1> QED
  BY <1>3, <1>4, <1>7, <1>8

\* A unit's command that is written is seen by nobody else.
CommandIs(m, w, x, v) ==
  /\ SameCells(m, w) /\ \A q \in Place \ {Cmd(x)} : w.at[q] = m.at[q]
  /\ Len(w.at[Cmd(x)]) = 1 /\ w.at[Cmd(x)][1] \in DOMAIN w.commands
  /\ w.commands[w.at[Cmd(x)][1]] = v

\* A unit that writes its command makes a new one when cells still have the
\* old one, so no picture changes (transform.cc).
LEMMA WriteCommandOK ==
  ASSUME NEW m, WellFormed(m), NEW x \in Unit, Len(m.at[Cmd(x)]) = 1, NEW v \in Int
  PROVE  WellFormed(WriteCommand(m, x, v)) /\ CommandIs(m, WriteCommand(m, x, v), x, v)
<1> PICK c : c = IF CommandUnique(m, x) THEN m.at[Cmd(x)][1] ELSE New(m.commands)
  OBVIOUS
<1> PICK w, s : w = WriteCommand(m, x, v) /\ s = StoreCommand(m, c, v)
  OBVIOUS
<1>1. /\ Linked(m) /\ Finite(m) /\ m.at \in [Place -> Seq(Nat)] /\ Cmd(x) \in Place
      /\ \A y \in DOMAIN m.commands : y \in Cell
      /\ m = [graphics |-> m.graphics, faces |-> m.faces, commands |-> m.commands, at |-> m.at]
  BY MemoryFacts, PlacesDiffer DEF WellFormed
<1>2. c \in Cell /\ \A g \in DOMAIN m.graphics : c \notin Elements(m.graphics[g].commands)
  <2>1. CASE CommandUnique(m, x)
    <3>1. 1 \in DOMAIN m.at[Cmd(x)]
      BY <1>1
    <3> QED
      BY <1>1, <2>1, <3>1 DEF CommandUnique, Linked
  <2>2. CASE ~CommandUnique(m, x)
    <3>1. c \in Cell /\ c \notin DOMAIN m.commands
      BY <1>1, <2>2, NewIsNew DEF Finite
    <3> QED
      BY <1>1, <3>1 DEF Linked, Elements
  <2> QED
    BY <2>1, <2>2
<1>3. /\ WellFormed(s) /\ SameCells(m, s) /\ s.at = m.at
      /\ c \in DOMAIN s.commands /\ s.commands[c] = v
  BY <1>2, StoreCommandOK
<1>4. w = PointCommand(s, x, c)
  BY <1>1 DEF WriteCommand, PointCommand, StoreCommand
<1>5. /\ WellFormed(w) /\ SameCells(s, w) /\ w.commands = s.commands
      /\ w.at[Cmd(x)] = <<c>> /\ \A q \in Place \ {Cmd(x)} : w.at[q] = s.at[q]
  <2>1. WellFormed(s) /\ c \in DOMAIN s.commands
    BY <1>3
  <2> QED
    BY <1>4, <2>1, PointCommandOK
<1>6. SameCells(m, w)
  BY <1>3, <1>5 DEF SameCells
<1>7. Len(w.at[Cmd(x)]) = 1 /\ w.at[Cmd(x)][1] = c
  BY <1>5
<1>8. CommandIs(m, w, x, v)
  BY <1>3, <1>5, <1>6, <1>7 DEF CommandIs
<1> QED
  BY <1>5, <1>8

\* Cell r becomes e.
SetCell(m, r, e) == [m EXCEPT !.graphics[r] = e]

\* The values that pointers to commands lead to.
CommandsOf(m, cs) == [i \in DOMAIN cs |-> m.commands[cs[i]]]

\* Pointers lead to commands.
Leads(m, cs) == \A i \in DOMAIN cs : cs[i] \in DOMAIN m.commands

\* A cell gets another capability or other transformations.
CellIs(m, w, r, e) ==
  /\ w.at = m.at /\ DOMAIN w.graphics = DOMAIN m.graphics
  /\ \A g \in DOMAIN m.graphics : g # r => Picture(w, g) = Picture(m, g)
  /\ Picture(w, r) = [kind |-> Picture(m, r).kind, on |-> e.on,
                      commands |-> CommandsOf(m, e.commands), face |-> Picture(m, r).face]

\* A cell that gets another capability or other transformations is another
\* picture; the rest are what they were.
LEMMA SetCellOK ==
  ASSUME NEW m, WellFormed(m), NEW r \in DOMAIN m.graphics, NEW e \in GraphicsCell,
         e.kind = m.graphics[r].kind, e.face = m.graphics[r].face,
         Leads(m, e.commands)
  PROVE  WellFormed(SetCell(m, r, e)) /\ CellIs(m, SetCell(m, r, e), r, e)
<1> PICK w : w = SetCell(m, r, e)
  OBVIOUS
<1> PICK c : c = m.graphics[r]
  OBVIOUS
<1>1. /\ m.graphics \in Tables(GraphicsCell) /\ m.faces \in Tables(Face)
      /\ m.commands \in Tables(Int) /\ m.at \in [Place -> Seq(Nat)] /\ Finite(m) /\ Linked(m)
      /\ m = [graphics |-> m.graphics, faces |-> m.faces, commands |-> m.commands, at |-> m.at]
  BY MemoryFacts DEF WellFormed
<1>2. w = [graphics |-> [m.graphics EXCEPT ![r] = e], faces |-> m.faces,
           commands |-> m.commands, at |-> m.at]
  BY <1>1 DEF SetCell
<1>3. IsChanged(GraphicsCell, m.graphics, r, e, w.graphics)
  <2>1. w.graphics = [m.graphics EXCEPT ![r] = e]
    BY <1>2
  <2>2. IsChanged(GraphicsCell, m.graphics, r, e, [m.graphics EXCEPT ![r] = e])
    BY <1>1, ChangedOK
  <2> QED
    BY <2>1, <2>2
<1>4. w.faces = m.faces /\ w.commands = m.commands /\ w.at = m.at
  BY <1>2
<1>5. w \in Memories
  BY <1>1, <1>2, <1>3 DEF IsChanged, Memories
<1>6. Linked(w)
  <2>1. \A g \in DOMAIN w.graphics :
          /\ w.graphics[g].face \in IF IsShape(w, g) THEN DOMAIN m.faces ELSE {0}
          /\ \A i \in DOMAIN w.graphics[g].commands : w.graphics[g].commands[i] \in DOMAIN m.commands
    <3> TAKE g \in DOMAIN w.graphics
    <3>1. CASE g = r
      <4>1. w.graphics[g] = e /\ (IsShape(w, g) <=> IsShape(m, r))
        BY <1>3, <3>1 DEF IsChanged, IsShape
      <4> QED
        BY <1>1, <4>1 DEF Linked, Leads
    <3>2. CASE g # r
      <4>1. g \in DOMAIN m.graphics /\ w.graphics[g] = m.graphics[g]
        BY <1>3, <3>2 DEF IsChanged
      <4> QED
        BY <1>1, <4>1 DEF Linked, IsShape
    <3> QED
      BY <3>1, <3>2
  <2> QED
    BY <1>1, <1>3, <1>4, <2>1 DEF IsChanged, Linked
<1>7. WellFormed(w)
  BY <1>1, <1>3, <1>4, <1>5, <1>6 DEF WellFormed, Finite, IsChanged
<1>8. \A g \in DOMAIN m.graphics : g # r => Picture(w, g) = Picture(m, g)
  BY <1>3, <1>4 DEF IsChanged, Picture
<1>9. Picture(w, r) = [kind |-> Picture(m, r).kind, on |-> e.on,
                      commands |-> CommandsOf(m, e.commands), face |-> Picture(m, r).face]
  <2>1. PICK face : face = IF c.face = 0 THEN NoFace ELSE m.faces[c.face]
    OBVIOUS
  <2>2. PICK cs : cs = [i \in DOMAIN c.commands |-> m.commands[c.commands[i]]]
    OBVIOUS
  <2>3. Picture(m, r) = [kind |-> c.kind, on |-> c.on, commands |-> cs, face |-> face]
    BY <2>1, <2>2 DEF Picture
  <2>4. PICK es : es = CommandsOf(m, e.commands)
    OBVIOUS
  <2>5. es = [i \in DOMAIN e.commands |-> w.commands[e.commands[i]]]
    BY <1>4, <2>4 DEF CommandsOf
  <2>6. w.graphics[r] = e
    BY <1>3 DEF IsChanged
  <2>7. (IF e.face = 0 THEN NoFace ELSE w.faces[e.face]) = face
    BY <1>4, <2>1
  <2>8. Picture(w, r) = [kind |-> c.kind, on |-> e.on, commands |-> es, face |-> face]
    BY <2>5, <2>6, <2>7 DEF Picture
  <2>9. Picture(m, r).kind = c.kind /\ Picture(m, r).face = face
    BY <2>3
  <2> QED
    BY <2>4, <2>8, <2>9
<1>10. CellIs(m, w, r, e)
  BY <1>3, <1>4, <1>8, <1>9 DEF CellIs, IsChanged
<1> QED
  BY <1>7, <1>10

------------------------------------------------------------------------------
(* Entries are altered, one after the other                                *)

\* What becomes of a picture.
Edited(p, edit) ==
  CASE edit.op = "fade"  -> Values!Faded(p, edit.by)
    [] edit.op = "color" -> Values!Coloured(p, edit.by)
    [] OTHER             -> Values!Moved(p, edit.by)

\* What an edit needs: a transformation has a unit with a command.
EditOK(m, edit) ==
  /\ edit.by \in Int
  /\ edit.op \notin {"fade", "color"} => edit.unit \in Unit /\ Len(m.at[Cmd(edit.unit)]) = 1

\* Cell r gets another picture, and only that.
PictureIs(m, w, r, picture) ==
  /\ \A q \in GraphicsPlace : w.at[q] = m.at[q]
  /\ \A x \in Unit : Len(w.at[Cmd(x)]) = Len(m.at[Cmd(x)])
  /\ \A g \in DOMAIN m.graphics : g # r => Picture(w, g) = Picture(m, g)
  /\ Picture(w, r) = picture

\* A picture, field by field.
LEMMA ShapePicture ==
  ASSUME NEW m, WellFormed(m), NEW r \in DOMAIN m.graphics
  PROVE  /\ Picture(m, r).kind = m.graphics[r].kind /\ Picture(m, r).on = m.graphics[r].on
         /\ Picture(m, r).commands = CommandsOf(m, m.graphics[r].commands)
         /\ IsShape(m, r) => Picture(m, r).face = FaceOf(m, r)
         /\ Picture(m, r) = [kind |-> Picture(m, r).kind, on |-> Picture(m, r).on,
                             commands |-> Picture(m, r).commands, face |-> Picture(m, r).face]
<1>1. IsShape(m, r) => m.graphics[r].face # 0
  BY MemoryFacts DEF WellFormed, Linked, Cell
<1>2. /\ Picture(m, r).kind = m.graphics[r].kind /\ Picture(m, r).on = m.graphics[r].on
      /\ Picture(m, r).face = IF m.graphics[r].face = 0 THEN NoFace ELSE m.faces[m.graphics[r].face]
      /\ Picture(m, r).commands = CommandsOf(m, m.graphics[r].commands)
  BY DEF Picture, CommandsOf
<1>3. Picture(m, r) = [kind |-> Picture(m, r).kind, on |-> Picture(m, r).on,
                       commands |-> Picture(m, r).commands, face |-> Picture(m, r).face]
  BY PictureTyped DEF PictureSet
<1> QED
  BY <1>1, <1>2, <1>3 DEF FaceOf

\* Translating an entry adds the unit's command to that picture only.
LEMMA TransformOK ==
  ASSUME NEW m, WellFormed(m), NEW r \in DOMAIN m.graphics, NEW x \in Unit, NEW v \in Int,
         Len(m.at[Cmd(x)]) = 1
  PROVE  /\ WellFormed(Transform(m, x, r, v))
         /\ PictureIs(m, Transform(m, x, r, v), r, Values!Moved(Picture(m, r), v))
<1> PICK w : w = Transform(m, x, r, v)
  OBVIOUS
<1> PICK p : p = Picture(m, r)
  OBVIOUS
<1>0. /\ p.kind = m.graphics[r].kind /\ p.commands = CommandsOf(m, m.graphics[r].commands)
      /\ p = [kind |-> p.kind, on |-> p.on, commands |-> p.commands, face |-> p.face]
      /\ p.on = m.graphics[r].on
  BY ShapePicture
<1>1. CASE ~IsShape(m, r)
  <2>1. w = m
    BY <1>1 DEF Transform
  <2>2. Values!Moved(p, v) = p
    BY <1>0, <1>1 DEF Values!Moved, IsShape, Values!Shapes, Shapes
  <2> QED
    BY <2>1, <2>2 DEF PictureIs
<1>2. CASE IsShape(m, r)
  <2> PICK s : s = WriteCommand(m, x, v)
    OBVIOUS
  <2>1. WellFormed(s) /\ CommandIs(m, s, x, v)
    BY WriteCommandOK
  <2> PICK c, old : c = s.at[Cmd(x)][1] /\ old = s.graphics[r]
    OBVIOUS
  <2> PICK cs, e : cs = Append(old.commands, c) /\ e = [old EXCEPT !.commands = cs]
    OBVIOUS
  <2>2. /\ r \in DOMAIN s.graphics /\ old = m.graphics[r] /\ c \in DOMAIN s.commands
        /\ s.commands[c] = v /\ Picture(s, r) = p
    BY <2>1 DEF CommandIs, SameCells
  <2>3. /\ old \in GraphicsCell /\ c \in Nat
        /\ \A i \in DOMAIN old.commands : old.commands[i] \in DOMAIN s.commands
        /\ old.commands \in Seq(Nat)
        /\ s = [graphics |-> s.graphics, faces |-> s.faces, commands |-> s.commands, at |-> s.at]
        /\ \A i \in DOMAIN s.commands : s.commands[i] \in Int
    <3>1. s \in Memories /\ Linked(s)
      BY <2>1 DEF WellFormed
    <3>2. /\ s = [graphics |-> s.graphics, faces |-> s.faces, commands |-> s.commands, at |-> s.at]
          /\ s.graphics[r] \in GraphicsCell /\ \A i \in DOMAIN s.commands : i \in Cell /\ s.commands[i] \in Int
      BY <2>2, <3>1, MemoryFacts
    <3>3. \A i \in DOMAIN old.commands : old.commands[i] \in DOMAIN s.commands
      BY <2>2, <3>1 DEF Linked
    <3>4. old.commands \in Seq(Nat)
      BY <3>2 DEF GraphicsCell
    <3> QED
      BY <2>2, <3>2, <3>3, <3>4 DEF Cell
  <2>4. PICK n \in Nat : n = Len(old.commands)
    <3>1. Len(old.commands) \in Nat
      BY <2>3
    <3> QED
      BY <3>1
  <2>5. /\ cs \in Seq(Nat) /\ DOMAIN cs = 1..(n + 1) /\ cs[n + 1] = c
        /\ DOMAIN old.commands = 1..n /\ \A i \in 1..n : cs[i] = old.commands[i]
    BY <2>3, <2>4
  <2>6. /\ e \in GraphicsCell /\ e.kind = old.kind /\ e.face = old.face /\ e.on = old.on
        /\ e.commands = cs
    BY <2>3, <2>5 DEF GraphicsCell
  <2>7. Leads(s, e.commands)
    <3> SUFFICES \A i \in DOMAIN e.commands : e.commands[i] \in DOMAIN s.commands
      BY DEF Leads
    <3> TAKE i \in DOMAIN e.commands
    <3>1. i \in 1..n \/ i = n + 1
      BY <2>5, <2>6
    <3> QED
      BY <2>2, <2>3, <2>5, <2>6, <3>1
  <2>8. w = SetCell(s, r, e)
    <3>1. w = [s EXCEPT !.graphics[r].commands = Append(@, c)]
      BY <1>2 DEF Transform
    <3> QED
      BY <2>3, <3>1 DEF SetCell
  <2>9. WellFormed(w) /\ CellIs(s, w, r, e)
    <3>1. /\ e \in GraphicsCell /\ r \in DOMAIN s.graphics
          /\ e.kind = s.graphics[r].kind /\ e.face = s.graphics[r].face
      BY <2>2, <2>6
    <3>2. WellFormed(SetCell(s, r, e)) /\ CellIs(s, SetCell(s, r, e), r, e)
      BY <2>1, <2>7, <3>1, SetCellOK
    <3> QED
      BY <2>8, <3>2
  <2>10. CommandsOf(s, cs) = Append(CommandsOf(s, old.commands), v)
    <3>1. CommandsOf(s, old.commands) = [i \in 1..n |-> s.commands[old.commands[i]]]
      BY <2>5 DEF CommandsOf
    <3>2. CommandsOf(s, cs) = [i \in 1..(n + 1) |-> s.commands[cs[i]]]
      BY <2>5 DEF CommandsOf
    <3>3. PICK was : was = [i \in 1..n |-> s.commands[old.commands[i]]]
      OBVIOUS
    <3>4. \A i \in 1..n : s.commands[old.commands[i]] \in Int
      BY <2>3, <2>5
    <3>5. was \in Seq(Int) /\ Len(was) = n
      <4>1. was \in [1..n -> Int]
        BY <3>3, <3>4
      <4>2. was \in Seq(Int)
        BY <4>1
      <4>3. DOMAIN was = 1..n
        BY <4>1
      <4> QED
        BY <2>5, <4>2, <4>3
    <3>6. Append(was, v) = [i \in 1..(n + 1) |-> IF i = n + 1 THEN v ELSE was[i]]
      <4>1. PICK a : a = Append(was, v)
        OBVIOUS
      <4>2. /\ a \in Seq(Int) /\ Len(a) = Len(was) + 1
            /\ \A i \in 1..Len(was) : a[i] = was[i] /\ a[Len(was) + 1] = v
        BY <3>5, <4>1, AppendProperties
      <4>3. a[n + 1] = v
        BY <3>5, <4>1
      <4>4. a = [i \in 1..(n + 1) |-> a[i]]
        BY <3>5, <4>2
      <4>5. \A i \in 1..(n + 1) : a[i] = IF i = n + 1 THEN v ELSE was[i]
        BY <3>5, <4>2, <4>3
      <4> QED
        BY <4>1, <4>4, <4>5
    <3>7. \A i \in 1..(n + 1) : s.commands[cs[i]] = IF i = n + 1 THEN v ELSE was[i]
      <4> TAKE i \in 1..(n + 1)
      <4>1. i \in 1..n \/ i = n + 1
        OBVIOUS
      <4> QED
        BY <2>2, <2>5, <3>3, <4>1
    <3>8. [i \in 1..(n + 1) |-> s.commands[cs[i]]] =
          [i \in 1..(n + 1) |-> IF i = n + 1 THEN v ELSE was[i]]
      BY <3>7
    <3> QED
      BY <3>1, <3>2, <3>3, <3>6, <3>8
  <2>11. Picture(w, r) = Values!Moved(p, v)
    <3>1. p.commands = CommandsOf(s, old.commands)
      <4>1. Picture(s, r).commands = CommandsOf(s, s.graphics[r].commands)
        BY <2>1, <2>2, ShapePicture
      <4> QED
        BY <2>2, <4>1
    <3>2. p.kind \in Shapes
      BY <1>0, <1>2 DEF IsShape
    <3>3. Values!Moved(p, v) = [p EXCEPT !.commands = Append(p.commands, v)]
      BY <3>2 DEF Values!Moved, Values!Shapes, Shapes
    <3>4. Picture(w, r) = [kind |-> p.kind, on |-> e.on, commands |-> CommandsOf(s, cs), face |-> p.face]
      BY <2>2, <2>6, <2>9 DEF CellIs
    <3>5. e.on = p.on
      BY <1>0, <2>2, <2>6
    <3>6. PICK all : all = Append(p.commands, v)
      OBVIOUS
    <3>7. Picture(w, r) = [kind |-> p.kind, on |-> p.on, commands |-> all, face |-> p.face]
      BY <2>10, <3>1, <3>4, <3>5, <3>6
    <3>8. [kind |-> p.kind, on |-> p.on, commands |-> all, face |-> p.face] = [p EXCEPT !.commands = all]
      BY <1>0
    <3> QED
      BY <3>3, <3>6, <3>7, <3>8
  <2>12. /\ \A q \in GraphicsPlace : w.at[q] = m.at[q]
         /\ \A y \in Unit : Len(w.at[Cmd(y)]) = Len(m.at[Cmd(y)])
    <3>1. w.at = s.at
      BY <2>9 DEF CellIs
    <3>2. \A q \in GraphicsPlace : q \in Place \ {Cmd(x)}
      BY PlacesDiffer
    <3>3. \A y \in Unit : y # x => Cmd(y) \in Place \ {Cmd(x)}
      BY PlacesDiffer
    <3> QED
      BY <2>1, <3>1, <3>2, <3>3 DEF CommandIs
  <2>13. \A g \in DOMAIN m.graphics : g # r => Picture(w, g) = Picture(m, g)
    BY <2>1, <2>9 DEF CellIs, CommandIs, SameCells
  <2> QED
    BY <2>9, <2>11, <2>12, <2>13 DEF PictureIs
<1> QED
  BY <1>1, <1>2

\* What a filter does to one cell, it does to the picture of this cell alone.
LEMMA AlterOK ==
  ASSUME NEW m, WellFormed(m), NEW r \in DOMAIN m.graphics, NEW edit, EditOK(m, edit)
  PROVE  /\ WellFormed(Alter(m, r, edit))
         /\ PictureIs(m, Alter(m, r, edit), r, Edited(Picture(m, r), edit))
<1> PICK w, p : w = Alter(m, r, edit) /\ p = Picture(m, r)
  OBVIOUS
<1> PICK v : v = edit.by
  OBVIOUS
<1>0. /\ p.kind = m.graphics[r].kind /\ (IsShape(m, r) => p.face = FaceOf(m, r)) /\ v \in Int
      /\ p = [kind |-> p.kind, on |-> p.on, commands |-> p.commands, face |-> p.face]
      /\ p.face \in Face
  BY ShapePicture, PictureTyped DEF EditOK, PictureSet
\* A face is written, or there is none.
<1>1. ASSUME NEW f, f = WriteFace(m, r, [FaceOf(m, r) EXCEPT !.color = v]), IsShape(m, r)
      PROVE  WellFormed(f) /\ PictureIs(m, f, r, Values!Coloured(p, v))
  <2>1. PICK new : new = [p.face EXCEPT !.color = v]
    OBVIOUS
  <2>2. new \in Face
    BY <1>0, <2>1 DEF Face
  <2>3. f = WriteFace(m, r, new)
    BY <1>0, <1>1, <2>1
  <2>4. WellFormed(f) /\ FaceIs(m, f, r, new)
    BY <1>1, <2>2, <2>3, WriteFaceOK
  <2>5. Values!Coloured(p, v) = [p EXCEPT !.face = new]
    <3>1. p.kind \in Shapes
      BY <1>0, <1>1 DEF IsShape
    <3>2. Values!Coloured(p, v) = [p EXCEPT !.face.color = v]
      BY <3>1 DEF Values!Coloured, Values!Shapes, Shapes
    <3> QED
      BY <1>0, <2>1, <3>2
  <2> QED
    BY <2>4, <2>5 DEF FaceIs, PictureIs
<1>2. ~IsShape(m, r) => Values!Coloured(p, v) = p /\ Values!Faded(p, v) = p
  BY <1>0 DEF Values!Coloured, Values!Faded, IsShape, Values!Shapes, Shapes
<1>3. PictureIs(m, m, r, p)
  BY DEF PictureIs
<1>4. CASE edit.op = "fade"
  <2>1. w = Scale(m, r, v) /\ Edited(p, edit) = Values!Faded(p, v)
    BY <1>4 DEF Alter, Edited
  <2>2. CASE IsShape(m, r)
    <3>1. PICK k : k = p.face.color * v
      OBVIOUS
    <3>2. k \in Int
      BY <1>0, <3>1 DEF Face
    <3>3. PICK new : new = [p.face EXCEPT !.color = k]
      OBVIOUS
    <3>4. new \in Face
      BY <1>0, <3>2, <3>3 DEF Face
    <3>5. w = WriteFace(m, r, new)
      BY <1>0, <2>1, <2>2, <3>1, <3>3 DEF Scale
    <3>6. WellFormed(w) /\ FaceIs(m, w, r, new)
      BY <2>2, <3>4, <3>5, WriteFaceOK
    <3>7. Values!Faded(p, v) = [p EXCEPT !.face = new]
      <4>1. p.kind \in Shapes
        BY <1>0, <2>2 DEF IsShape
      <4>2. Values!Faded(p, v) = [p EXCEPT !.face.color = k]
        BY <3>1, <4>1 DEF Values!Faded, Values!Coloured, Values!Shapes, Shapes
      <4> QED
        BY <1>0, <3>3, <4>2
    <3> QED
      BY <2>1, <3>6, <3>7 DEF FaceIs, PictureIs
  <2>3. CASE ~IsShape(m, r)
    BY <1>2, <1>3, <2>1, <2>3 DEF Scale
  <2> QED
    BY <2>2, <2>3
<1>5. CASE edit.op = "color"
  <2>1. w = Colour(m, r, v) /\ Edited(p, edit) = Values!Coloured(p, v)
    BY <1>5 DEF Alter, Edited
  <2>2. CASE IsShape(m, r)
    BY <1>1, <2>1, <2>2 DEF Colour
  <2>3. CASE ~IsShape(m, r)
    BY <1>2, <1>3, <2>1, <2>3 DEF Colour
  <2> QED
    BY <2>2, <2>3
<1>6. CASE edit.op \notin {"fade", "color"}
  <2>1. w = Transform(m, edit.unit, r, v) /\ Edited(p, edit) = Values!Moved(p, v)
    BY <1>6 DEF Alter, Edited
  <2>2. edit.unit \in Unit /\ Len(m.at[Cmd(edit.unit)]) = 1
    BY <1>6 DEF EditOK
  <2>3. WellFormed(Transform(m, edit.unit, r, v))
        /\ PictureIs(m, Transform(m, edit.unit, r, v), r, Values!Moved(Picture(m, r), v))
    BY <1>0, <2>2, TransformOK
  <2> QED
    BY <2>1, <2>3
<1> QED
  BY <1>4, <1>5, <1>6

\* An entry is touched and altered.
Turn(c, p, i, edit) == Alter(Touch(c, p, i), Touch(c, p, i).at[p][i], edit)

\* Touched first, it is the entry of this place alone.
LEMMA TurnOK ==
  ASSUME NEW m, WellFormed(m), NEW p \in GraphicsPlace, NEW i \in DOMAIN m.at[p],
         NEW edit, EditOK(m, edit)
  PROVE  LET w == Turn(m, p, i, edit)
         IN /\ WellFormed(w) /\ OnlyAt(m, w, p) /\ DOMAIN w.at[p] = DOMAIN m.at[p] /\ EditOK(w, edit)
            /\ PicturesAt(w, p) = [PicturesAt(m, p) EXCEPT ![i] = Edited(PicturesAt(m, p)[i], edit)]
<1> PICK t : t = Touch(m, p, i)
  OBVIOUS
<1> PICK r : r = t.at[p][i]
  OBVIOUS
<1> PICK w : w = Turn(m, p, i, edit)
  OBVIOUS
<1>1. /\ WellFormed(t) /\ GraphicsUnique(t, p, i) /\ DOMAIN t.at[p] = DOMAIN m.at[p]
      /\ \A q \in GraphicsPlace \ {p} : t.at[q] = m.at[q]
      /\ \A q \in GraphicsPlace : PicturesAt(t, q) = PicturesAt(m, q)
      /\ \A x \in Unit : t.at[Cmd(x)] = m.at[Cmd(x)]
  BY TouchKeepsPictures
<1>2. i \in DOMAIN t.at[p] /\ r \in DOMAIN t.graphics
  BY <1>1 DEF WellFormed, Linked
<1>3. EditOK(t, edit)
  BY <1>1 DEF EditOK
<1>4. w = Alter(t, r, edit)
  BY DEF Turn
<1>5. WellFormed(w) /\ PictureIs(t, w, r, Edited(Picture(t, r), edit))
  BY <1>1, <1>2, <1>3, <1>4, AlterOK
<1>6. Picture(t, r) = PicturesAt(m, p)[i]
  <2>1. Picture(t, r) = PicturesAt(t, p)[i]
    BY <1>2 DEF PicturesAt
  <2> QED
    BY <1>1, <2>1
<1>7. /\ \A q \in GraphicsPlace : w.at[q] = t.at[q]
      /\ \A x \in Unit : Len(w.at[Cmd(x)]) = Len(t.at[Cmd(x)])
      /\ \A g \in DOMAIN t.graphics : g # r => Picture(w, g) = Picture(t, g)
      /\ Picture(w, r) = Edited(PicturesAt(m, p)[i], edit)
  BY <1>5, <1>6 DEF PictureIs
<1>8. /\ \A q \in GraphicsPlace \ {p} : PicturesAt(w, q) = PicturesAt(t, q)
      /\ PicturesAt(w, p) = [PicturesAt(t, p) EXCEPT ![i] = Picture(w, r)]
  BY <1>1, <1>2, <1>7, WrittenAlone
<1>9. OnlyAt(m, w, p) /\ DOMAIN w.at[p] = DOMAIN m.at[p]
  BY <1>1, <1>7, <1>8 DEF OnlyAt
<1>10. EditOK(w, edit)
  BY <1>1, <1>7 DEF EditOK
<1>11. PicturesAt(w, p) = [PicturesAt(m, p) EXCEPT ![i] = Edited(PicturesAt(m, p)[i], edit)]
  BY <1>1, <1>7, <1>8
<1> QED
  BY <1>5, <1>9, <1>10, <1>11

\* Of the pictures was, those at first + 1 to first + n are edited.
EditedUpTo(was, first, n, edit) ==
  [j \in DOMAIN was |-> IF first < j /\ j <= first + n THEN Edited(was[j], edit) ELSE was[j]]

\* What altering each of them leaves of a memory.
EachIs(m, w, p, first, n, edit) ==
  /\ OnlyAt(m, w, p) /\ DOMAIN w.at[p] = DOMAIN m.at[p] /\ EditOK(w, edit)
  /\ PicturesAt(w, p) = EditedUpTo(PicturesAt(m, p), first, n, edit)

\* A loop of a filter edits the entries it visits and nothing else: by induction
\* over its turns.
LEMMA AlterEachOK ==
  ASSUME NEW m, WellFormed(m), NEW p \in GraphicsPlace, NEW first \in Nat, NEW n \in Nat,
         first + n <= Len(m.at[p]), NEW edit, EditOK(m, edit)
  PROVE  /\ WellFormed(AlterEach(m, p, first, n, edit))
         /\ EachIs(m, AlterEach(m, p, first, n, edit), p, first, n, edit)
<1> DEFINE D == DOMAIN m.at[p]
           X == {c \in Memories : WellFormed(c) /\ DOMAIN c.at[p] = D /\ EditOK(c, edit)}
           turn == [i \in 1..n |-> [c \in X |-> Turn(c, p, first + i, edit)]]
           Body(g) == [i \in 0..n |-> IF i = 0 THEN m ELSE Turn(g[i - 1], p, first + i, edit)]
           after == CHOOSE g : g = Body(g)
<1>1. m \in X
  BY DEF WellFormed
<1>2. \A i \in 1..n : first + i \in D
  <2>1. m.at[p] \in Seq(DOMAIN m.graphics)
    BY PlaceTyped
  <2>2. PICK k \in Nat : k = Len(m.at[p])
    BY <2>1
  <2>3. D = 1..k
    BY <2>1, <2>2
  <2> QED
    BY <2>2, <2>3
<1>3. \A i \in 1..n, c \in X : Turn(c, p, first + i, edit) \in X
  <2> TAKE i \in 1..n, c \in X
  <2>1. first + i \in DOMAIN c.at[p] /\ WellFormed(c) /\ EditOK(c, edit)
    BY <1>2
  <2> PICK k, w : k = first + i /\ w = Turn(c, p, k, edit)
    OBVIOUS
  <2>2. WellFormed(w) /\ DOMAIN w.at[p] = DOMAIN c.at[p] /\ EditOK(w, edit)
    BY <2>1, TurnOK
  <2> QED
    BY <2>2 DEF WellFormed
<1>4. AlterEach(m, p, first, n, edit) = after[n]
  BY DEF AlterEach, Turn
<1>5. turn \in [1..n -> [X -> X]]
  BY <1>3
<1>6. PICK f \in Loops(X, m, n, turn) : TRUE
  <2> HIDE DEF X, turn
  <2> QED
    BY <1>1, <1>5, TurnsAdd
<1>7. f \in [0..n -> X] /\ f[0] = m /\ \A i \in 1..n : f[i] = turn[i][f[i - 1]]
  BY <1>6 DEF Loops
<1>8. \A i \in 1..n : f[i] = Turn(f[i - 1], p, first + i, edit)
  <2> HIDE DEF X
  <2> TAKE i \in 1..n
  <2>1. f[i - 1] \in X
    BY <1>7
  <2> QED
    BY <1>7, <2>1
<1>9. f = Body(f)
  <2> HIDE DEF X
  <2>1. f = [i \in 0..n |-> f[i]]
    BY <1>7
  <2>2. \A i \in 0..n : f[i] = IF i = 0 THEN m ELSE Turn(f[i - 1], p, first + i, edit)
    <3> TAKE i \in 0..n
    <3>1. i # 0 => i \in 1..n
      OBVIOUS
    <3> QED
      BY <1>7, <1>8, <3>1
  <2> QED
    BY <2>1, <2>2
<1>10. after = Body(after)
  BY <1>9
<1>11. after[0] = m /\ \A i \in 1..n : after[i] = Turn(after[i - 1], p, first + i, edit)
  <2>1. PICK g : g = after
    OBVIOUS
  <2>2. after = Body(g)
    BY <1>10, <2>1
  <2>3. g = [i \in 0..n |-> IF i = 0 THEN m ELSE Turn(g[i - 1], p, first + i, edit)]
    BY <2>1, <2>2
  <2> HIDE DEF after
  <2>4. g[0] = m /\ \A i \in 1..n : g[i] = Turn(g[i - 1], p, first + i, edit)
    BY <2>3
  <2> QED
    BY <2>1, <2>4
<1> HIDE DEF after, Body, turn, X
<1> DEFINE T == {i \in 0..n : WellFormed(after[i]) /\ EachIs(m, after[i], p, first, i, edit)}
<1>12. 0 \in T
  <2> PICK was : was = PicturesAt(m, p)
    OBVIOUS
  <2>1. was \in Seq(PictureSet)
    BY PlaceTyped
  <2>2. EditedUpTo(was, first, 0, edit) = was
    <3>1. \A j \in DOMAIN was : ~(first < j /\ j <= first + 0)
      BY <2>1
    <3>2. EditedUpTo(was, first, 0, edit) = [j \in DOMAIN was |-> was[j]]
      BY <3>1 DEF EditedUpTo
    <3> QED
      BY <2>1, <3>2
  <2>3. OnlyAt(m, m, p)
    BY DEF OnlyAt
  <2>4. EachIs(m, m, p, first, 0, edit)
    BY <2>2, <2>3 DEF EachIs
  <2> QED
    BY <1>11, <2>4
<1>13. ASSUME NEW i \in 1..n, i - 1 \in T
       PROVE  i \in T
  <2> PICK k, c, w : k = first + i /\ c = after[i - 1] /\ w = after[i]
    OBVIOUS
  <2>1. WellFormed(c) /\ EachIs(m, c, p, first, i - 1, edit)
    BY <1>13
  <2>2. k \in DOMAIN c.at[p] /\ EditOK(c, edit) /\ k \in D
    BY <1>2, <2>1 DEF EachIs
  <2>3. w = Turn(c, p, k, edit)
    BY <1>11
  <2>4. /\ WellFormed(w) /\ OnlyAt(c, w, p) /\ DOMAIN w.at[p] = DOMAIN c.at[p] /\ EditOK(w, edit)
        /\ PicturesAt(w, p) = [PicturesAt(c, p) EXCEPT ![k] = Edited(PicturesAt(c, p)[k], edit)]
    BY <2>1, <2>2, <2>3, TurnOK
  <2>5. OnlyAt(m, w, p)
    BY <2>1, <2>4, OnlyAtTwice DEF EachIs
  <2> PICK was, so : was = PicturesAt(m, p) /\ so = PicturesAt(c, p)
    OBVIOUS
  <2>6. so = EditedUpTo(was, first, i - 1, edit) /\ DOMAIN was = D /\ was \in Seq(PictureSet)
    BY <2>1, PlaceTyped DEF EachIs, PicturesAt
  <2>7. PicturesAt(w, p) = EditedUpTo(was, first, i, edit)
    <3>1. so = [j \in D |-> IF first < j /\ j <= first + (i - 1) THEN Edited(was[j], edit) ELSE was[j]]
      BY <2>6 DEF EditedUpTo
    <3>2. D \subseteq Nat
      BY <2>6
    <3>3. so[k] = was[k]
      BY <2>2, <3>1
    <3>4. [so EXCEPT ![k] = Edited(was[k], edit)] =
          [j \in D |-> IF j = k THEN Edited(was[k], edit) ELSE so[j]]
      BY <2>2, <3>1
    <3>5. \A j \in D : (IF j = k THEN Edited(was[k], edit) ELSE so[j]) =
            IF first < j /\ j <= first + i THEN Edited(was[j], edit) ELSE was[j]
      <4> TAKE j \in D
      <4>1. j \in Nat
        BY <3>2
      <4>2. CASE j = k
        BY <4>2
      <4>3. CASE j # k
        <5>1. j <= first + (i - 1) <=> j <= first + i
          BY <4>1, <4>3
        <5> QED
          BY <3>1, <4>3, <5>1
      <4> QED
        BY <4>2, <4>3
    <3>6. [j \in D |-> IF j = k THEN Edited(was[k], edit) ELSE so[j]] =
          [j \in D |-> IF first < j /\ j <= first + i THEN Edited(was[j], edit) ELSE was[j]]
      BY <3>5
    <3> QED
      BY <2>4, <2>6, <3>3, <3>4, <3>6 DEF EditedUpTo
  <2>8. EachIs(m, w, p, first, i, edit)
    <3>1. DOMAIN w.at[p] = DOMAIN m.at[p]
      BY <2>1, <2>4 DEF EachIs
    <3> QED
      BY <2>4, <2>5, <2>7, <3>1 DEF EachIs
  <2> QED
    BY <2>4, <2>8
<1>14. 0..n \subseteq T
  <2> HIDE DEF T
  <2> QED
    BY <1>12, <1>13, EveryTurn
<1> QED
  BY <1>4, <1>14

------------------------------------------------------------------------------
(* Units                                                                   *)

InputUnit(x, k) == <<x[1], Programs[x[1]][x[2]].ins[k]>>

\* Units read units before them.
LEMMA InputFacts ==
  ASSUME NEW x \in Unit, NEW k \in 1..Arity(KindOf(x))
  PROVE  /\ InputUnit(x, k) \in Unit /\ InputUnit(x, k) # x
         /\ k \in DOMAIN Programs[x[1]][x[2]].ins
<1>1. PICK s \in Synth : x \in {s} \X DOMAIN Programs[s]
  BY DEF Unit
<1>2. x[1] = s /\ x[2] \in DOMAIN Programs[s] /\ x = <<s, x[2]>>
  BY <1>1
<1> PICK i, ins : i = x[2] /\ ins = Programs[s][i].ins
  OBVIOUS
<1>3. Programs[s] \in Seq([kind: STRING, ins: Seq(Nat)]) /\ ins \in Seq(1..i - 1)
      /\ Len(ins) >= Arity(Programs[s][i].kind)
  BY <1>2, ProgramAssumption DEF Synth
<1>4. PICK n \in Nat : DOMAIN Programs[s] = 1..n
  <2>1. Len(Programs[s]) \in Nat /\ DOMAIN Programs[s] = 1..Len(Programs[s])
    BY <1>3
  <2> QED
    BY <2>1
<1>5. i \in 1..n
  BY <1>2, <1>4
<1>6. KindOf(x) = Programs[s][i].kind
  BY <1>2 DEF KindOf
<1>7. Arity(KindOf(x)) \in {0, 1, 2}
  BY DEF Arity
<1>8. k \in DOMAIN ins /\ ins[k] \in 1..i - 1
  <2>1. PICK l \in Nat : l = Len(ins)
    <3>1. Len(ins) \in Nat
      BY <1>3
    <3> QED
      BY <3>1
  <2>2. k \in 1..l
    <3>1. PICK arity \in {0, 1, 2} : arity = Arity(KindOf(x))
      BY <1>7
    <3>2. l >= arity
      BY <1>3, <1>6, <2>1, <3>1
    <3>3. k \in 1..arity
      BY <3>1
    <3> QED
      BY <3>2, <3>3
  <2> PICK S : S = 1..i - 1
    OBVIOUS
  <2>3. ins \in Seq(S)
    BY <1>3
  <2>4. ins \in [1..l -> S]
    BY <2>1, <2>3, LenProperties
  <2> QED
    BY <2>2, <2>4
<1>9. ins[k] \in 1..n /\ ins[k] # i
  BY <1>5, <1>8
<1>10. <<s, ins[k]>> \in {s} \X DOMAIN Programs[s] /\ <<s, ins[k]>> # x
  BY <1>2, <1>4, <1>9
<1>11. <<s, ins[k]>> \in Unit
  BY <1>10 DEF Unit
<1> QED
  BY <1>2, <1>8, <1>10, <1>11 DEF InputUnit

\* What a maker that has its own object, touched, writes to it.
Remake(m, x, r, v) ==
  LET n == New(m.commands)
  IN CASE KindOf(x) = "cube" ->
            [m EXCEPT !.commands = With(@, n, v), !.graphics[r].commands = <<n>>]
       [] KindOf(x) \in {"quad", "line"} ->
            WriteFace(m, r, [FaceOf(m, r) EXCEPT !.vertices = v])
       [] OTHER -> [m EXCEPT !.graphics[r].on = Switched(KindOf(x), @, v)]

\* A maker writes to its own object.
LEMMA RemakeOK ==
  ASSUME NEW m, WellFormed(m), NEW r \in DOMAIN m.graphics, NEW x \in Unit, NEW v \in Int,
         m.graphics[r].kind = KindOf(x)
  PROVE  LET w == Remake(m, x, r, v)
         IN /\ WellFormed(w) /\ w.at = m.at /\ DOMAIN w.graphics = DOMAIN m.graphics
            /\ PictureIs(m, w, r, Values!Remade(Picture(m, r), v))
<1> PICK w, p, c : w = Remake(m, x, r, v) /\ p = Picture(m, r) /\ c = m.graphics[r]
  OBVIOUS
<1>0. /\ p.kind = c.kind /\ (IsShape(m, r) => p.face = FaceOf(m, r)) /\ p.on = c.on
      /\ p = [kind |-> p.kind, on |-> p.on, commands |-> p.commands, face |-> p.face]
      /\ p.face \in Face /\ c \in GraphicsCell /\ p.commands = CommandsOf(m, c.commands)
      /\ \A i \in DOMAIN c.commands : c.commands[i] \in DOMAIN m.commands
      /\ m = [graphics |-> m.graphics, faces |-> m.faces, commands |-> m.commands, at |-> m.at]
      /\ Finite(m)
  <2>1. m \in Memories /\ Linked(m) /\ Finite(m)
    BY DEF WellFormed
  <2>2. c \in GraphicsCell /\ \A i \in DOMAIN c.commands : c.commands[i] \in DOMAIN m.commands
    BY <2>1, MemoryFacts DEF Linked
  <2>3. p \in PictureSet
    BY PictureTyped
  <2> QED
    BY <2>1, <2>2, <2>3, ShapePicture, MemoryFacts DEF PictureSet
<1>1. CASE KindOf(x) = "cube"
  <2> PICK n : n = New(m.commands)
    OBVIOUS
  <2> PICK s : s = StoreCommand(m, n, v)
    OBVIOUS
  <2> PICK e : e = [c EXCEPT !.commands = <<n>>]
    OBVIOUS
  <2>1. n \in Cell /\ n \notin DOMAIN m.commands
    BY <1>0, NewIsNew DEF Finite
  <2>2. \A g \in DOMAIN m.graphics : n \notin Elements(m.graphics[g].commands)
    BY <2>1 DEF WellFormed, Linked, Elements
  <2>3. /\ WellFormed(s) /\ SameCells(m, s) /\ s.at = m.at /\ s.faces = m.faces
        /\ n \in DOMAIN s.commands /\ s.commands[n] = v
    BY <2>1, <2>2, StoreCommandOK
  <2>4. s.graphics = m.graphics /\ Picture(s, r) = p
    BY <2>3 DEF SameCells
  <2>5. /\ e \in GraphicsCell /\ e.kind = s.graphics[r].kind /\ e.face = s.graphics[r].face
        /\ e.on = c.on /\ e.commands = <<n>>
    <3>1. <<n>> \in Seq(Nat)
      BY <2>1 DEF Cell
    <3>2. e \in GraphicsCell
      BY <1>0, <3>1 DEF GraphicsCell
    <3>3. e.kind = c.kind /\ e.face = c.face /\ e.on = c.on /\ e.commands = <<n>>
      BY <1>0 DEF GraphicsCell
    <3> QED
      BY <2>4, <3>2, <3>3
  <2>6. Leads(s, e.commands)
    BY <2>3, <2>5 DEF Leads
  <2>7. w = SetCell(s, r, e)
    <3>1. w = [m EXCEPT !.commands = With(@, n, v), !.graphics[r].commands = <<n>>]
      BY <1>1 DEF Remake
    <3> QED
      BY <1>0, <3>1 DEF SetCell, StoreCommand
  <2>8. WellFormed(w) /\ CellIs(s, w, r, e)
    <3>1. r \in DOMAIN s.graphics /\ e \in GraphicsCell
      BY <2>4, <2>5
    <3>2. e.kind = s.graphics[r].kind /\ e.face = s.graphics[r].face
      BY <2>5
    <3>3. WellFormed(s)
      BY <2>3
    <3>4. WellFormed(SetCell(s, r, e)) /\ CellIs(s, SetCell(s, r, e), r, e)
      BY <2>6, <3>1, <3>2, <3>3, SetCellOK
    <3> QED
      BY <2>7, <3>4
  <2>9. CommandsOf(s, <<n>>) = <<v>>
    BY <2>3 DEF CommandsOf
  <2>10. Picture(w, r) = [kind |-> p.kind, on |-> p.on, commands |-> <<v>>, face |-> p.face]
    BY <1>0, <2>4, <2>5, <2>8, <2>9 DEF CellIs
  <2>11. Values!Remade(p, v) = [p EXCEPT !.commands = <<v>>]
    BY <1>0, <1>1 DEF Values!Remade
  <2>12. [p EXCEPT !.commands = <<v>>] = [kind |-> p.kind, on |-> p.on, commands |-> <<v>>, face |-> p.face]
    BY <1>0
  <2>13. w.at = m.at /\ DOMAIN w.graphics = DOMAIN m.graphics
         /\ \A g \in DOMAIN m.graphics : g # r => Picture(w, g) = Picture(m, g)
    BY <2>3, <2>4, <2>8 DEF CellIs, SameCells
  <2>14. PictureIs(m, w, r, Values!Remade(p, v))
    BY <2>10, <2>11, <2>12, <2>13 DEF PictureIs
  <2> QED
    BY <2>8, <2>13, <2>14
<1>2. CASE KindOf(x) \in {"quad", "line"}
  <2> PICK new : new = [p.face EXCEPT !.vertices = v]
    OBVIOUS
  <2>1. IsShape(m, r)
    BY <1>2 DEF IsShape, Shapes
  <2>2. new \in Face
    BY <1>0 DEF Face
  <2>3. w = WriteFace(m, r, new)
    BY <1>0, <1>2, <2>1 DEF Remake
  <2>4. WellFormed(w) /\ FaceIs(m, w, r, new)
    BY <2>1, <2>2, <2>3, WriteFaceOK
  <2>5. Values!Remade(p, v) = [p EXCEPT !.face = new]
    <3>1. Values!Remade(p, v) = [p EXCEPT !.face.vertices = v]
      BY <1>0, <1>2 DEF Values!Remade
    <3> QED
      BY <1>0, <3>1
  <2>6. PictureIs(m, w, r, Values!Remade(p, v))
    BY <2>4, <2>5 DEF FaceIs, PictureIs
  <2> QED
    BY <2>4, <2>6 DEF FaceIs
<1>3. CASE KindOf(x) \notin {"cube", "quad", "line"}
  <2> PICK o : o = Switched(KindOf(x), c.on, v)
    OBVIOUS
  <2>1. o \in Modes \cup {4}
    BY <1>0 DEF Switched, GraphicsCell, Modes
  <2> PICK e : e = [c EXCEPT !.on = o]
    OBVIOUS
  <2>2. /\ e \in GraphicsCell /\ e.kind = c.kind /\ e.face = c.face /\ e.on = o
        /\ e.commands = c.commands
    BY <1>0, <2>1 DEF GraphicsCell
  <2>9. Leads(m, e.commands)
    BY <1>0, <2>2 DEF Leads
  <2>3. w = SetCell(m, r, e)
    <3>1. w = [m EXCEPT !.graphics[r].on = Switched(KindOf(x), @, v)]
      BY <1>3 DEF Remake
    <3> QED
      BY <1>0, <3>1 DEF SetCell
  <2>4. WellFormed(w) /\ CellIs(m, w, r, e)
    BY <2>2, <2>3, <2>9, SetCellOK
  <2>5. Picture(w, r) = [kind |-> p.kind, on |-> o, commands |-> p.commands, face |-> p.face]
    BY <1>0, <2>2, <2>4 DEF CellIs
  <2>6. Values!Remade(p, v) = [p EXCEPT !.on = o]
    <3>1. p.kind = KindOf(x)
      BY <1>0
    <3>2. Values!Remade(p, v) = [p EXCEPT !.on = Values!Switched(p.kind, p.on, v)]
      BY <1>3, <3>1 DEF Values!Remade
    <3>3. Values!Switched(p.kind, p.on, v) = o
      BY <1>0, <3>1 DEF Values!Switched, Switched, Values!Modes, Modes
    <3> QED
      BY <3>2, <3>3
  <2>7. [p EXCEPT !.on = o] = [kind |-> p.kind, on |-> o, commands |-> p.commands, face |-> p.face]
    BY <1>0
  <2>8. PictureIs(m, w, r, Values!Remade(p, v))
    BY <2>4, <2>5, <2>6, <2>7 DEF CellIs, PictureIs
  <2> QED
    BY <2>4, <2>8 DEF CellIs
<1> QED
  BY <1>1, <1>2, <1>3

\* The object of a maker.
HasObject(m, x) == Len(PicturesAt(m, Own(x))) = 1 /\ PicturesAt(m, Own(x))[1].kind = KindOf(x)

\* Units have as many commands as they had.
SameCommands(m, w) == \A x \in Unit : Len(w.at[Cmd(x)]) = Len(m.at[Cmd(x)])

\* The picture is at home and put out; nothing else changes.
MakeIs(m, w, x, picture) ==
  /\ PicturesAt(w, Own(x)) = <<picture>> /\ PicturesAt(w, Outs(x)) = <<picture>>
  /\ \A q \in GraphicsPlace \ {Own(x), Outs(x)} : PicturesAt(w, q) = PicturesAt(m, q)
  /\ SameCommands(m, w)

\* A maker's object is remade and put out; who holds the object of the last cycle
\* keeps that one.
LEMMA MakeOK ==
  ASSUME NEW m, WellFormed(m), NEW x \in Unit, NEW v \in Int, HasObject(m, x)
  PROVE  /\ WellFormed(Make(m, x, v))
         /\ MakeIs(m, Make(m, x, v), x, Values!Remade(PicturesAt(m, Own(x))[1], v))
<1> PICK c : c = Clear(m, Outs(x))
  OBVIOUS
<1> PICK t : t = Touch(c, Own(x), 1)
  OBVIOUS
<1> PICK r : r = t.at[Own(x)][1]
  OBVIOUS
<1> PICK s : s = Remake(t, x, r, v)
  OBVIOUS
<1> PICK w, old, new : /\ w = Make(m, x, v) /\ old = PicturesAt(m, Own(x))[1]
                       /\ new = Values!Remade(old, v)
  OBVIOUS
<1>0. /\ Own(x) \in GraphicsPlace /\ Outs(x) \in GraphicsPlace /\ Own(x) # Outs(x)
      /\ \A y \in Unit : Own(x) # Cmd(y) /\ Outs(x) # Cmd(y)
  BY PlacesDiffer
<1>1. WellFormed(c) /\ OnlyAt(m, c, Outs(x)) /\ c.at[Outs(x)] = <<>>
  BY <1>0, ClearOK
<1>2. c.at[Own(x)] = m.at[Own(x)] /\ PicturesAt(c, Own(x)) = PicturesAt(m, Own(x))
  BY <1>0, <1>1 DEF OnlyAt
<1>3. m.at[Own(x)] \in Seq(DOMAIN m.graphics) /\ Len(m.at[Own(x)]) = 1
  <2>1. m.at[Own(x)] \in Seq(DOMAIN m.graphics) /\ Len(PicturesAt(m, Own(x))) = Len(m.at[Own(x)])
    BY <1>0, PlaceTyped
  <2> QED
    BY <2>1 DEF HasObject
<1>4. DOMAIN m.at[Own(x)] = {1}
  BY <1>3
<1>5. 1 \in DOMAIN c.at[Own(x)]
  BY <1>2, <1>4
<1>6. /\ WellFormed(t) /\ GraphicsUnique(t, Own(x), 1) /\ DOMAIN t.at[Own(x)] = DOMAIN c.at[Own(x)]
      /\ \A q \in GraphicsPlace \ {Own(x)} : t.at[q] = c.at[q]
      /\ \A q \in GraphicsPlace : PicturesAt(t, q) = PicturesAt(c, q)
      /\ \A y \in Unit : t.at[Cmd(y)] = c.at[Cmd(y)]
  BY <1>0, <1>1, <1>5, TouchKeepsPictures
<1>7. 1 \in DOMAIN t.at[Own(x)] /\ r \in DOMAIN t.graphics /\ DOMAIN t.at[Own(x)] = {1}
  BY <1>0, <1>2, <1>4, <1>6 DEF WellFormed, Linked
<1>8. Picture(t, r) = old
  <2>1. Picture(t, r) = PicturesAt(t, Own(x))[1]
    BY <1>7 DEF PicturesAt
  <2> QED
    BY <1>0, <1>2, <1>6, <2>1
<1>9. t.graphics[r].kind = KindOf(x)
  <2>1. Picture(t, r).kind = t.graphics[r].kind
    BY <1>6, <1>7, ShapePicture
  <2> QED
    BY <1>8, <2>1 DEF HasObject
<1>10. /\ WellFormed(s) /\ s.at = t.at /\ DOMAIN s.graphics = DOMAIN t.graphics
       /\ PictureIs(t, s, r, new)
  BY <1>6, <1>7, <1>8, <1>9, RemakeOK
<1>11. /\ \A q \in GraphicsPlace \ {Own(x)} : PicturesAt(s, q) = PicturesAt(t, q)
       /\ PicturesAt(s, Own(x)) = [PicturesAt(t, Own(x)) EXCEPT ![1] = Picture(s, r)]
  <2>1. /\ \A q \in GraphicsPlace : s.at[q] = t.at[q]
        /\ \A g \in DOMAIN t.graphics : g # r => Picture(s, g) = Picture(t, g)
    BY <1>10 DEF PictureIs
  <2> QED
    BY <1>0, <1>6, <1>7, <2>1, WrittenAlone
<1>12. PicturesAt(s, Own(x)) = <<new>> /\ Picture(s, r) = new
  <2>1. PicturesAt(s, Own(x)) = [i \in {1} |-> Picture(s, r)]
    BY <1>7, <1>10 DEF PicturesAt
  <2>2. {1} = 1..1
    OBVIOUS
  <2>3. [i \in 1..1 |-> Picture(s, r)] = <<Picture(s, r)>>
    OBVIOUS
  <2>4. Picture(s, r) = new
    BY <1>10 DEF PictureIs
  <2> QED
    BY <2>1, <2>2, <2>3, <2>4
<1>13. w = Push(s, Outs(x), <<r>>)
  BY DEF Make, Remake
<1>14. <<r>> \in Seq(DOMAIN s.graphics)
  <2>1. PICK D : D = DOMAIN s.graphics
    OBVIOUS
  <2>2. r \in D
    BY <1>7, <1>10, <2>1
  <2>3. <<r>> \in Seq(D)
    BY <2>2
  <2> QED
    BY <2>1, <2>3
<1>15. WellFormed(w) /\ OnlyAt(s, w, Outs(x)) /\ Pushed(s, w, Outs(x), <<r>>)
  BY <1>0, <1>10, <1>13, <1>14, PushOK
<1>16. PicturesAt(w, Outs(x)) = <<new>>
  <2>1. s.at[Outs(x)] = <<>>
    BY <1>0, <1>1, <1>6, <1>10
  <2>2. PicturesAt(s, Outs(x)) = <<>>
    BY <2>1 DEF PicturesAt
  <2>3. PicturesOf(s, <<r>>) = <<new>>
    BY <1>12 DEF PicturesOf
  <2>4. PicturesAt(w, Outs(x)) = PicturesAt(s, Outs(x)) \o PicturesOf(s, <<r>>)
    BY <1>15 DEF Pushed
  <2>5. <<>> \o <<new>> = <<new>>
    OBVIOUS
  <2> QED
    BY <2>2, <2>3, <2>4, <2>5
<1>17. PicturesAt(w, Own(x)) = <<new>>
  BY <1>0, <1>12, <1>15 DEF OnlyAt
<1>18. \A q \in GraphicsPlace \ {Own(x), Outs(x)} : PicturesAt(w, q) = PicturesAt(m, q)
  BY <1>1, <1>6, <1>11, <1>15 DEF OnlyAt
<1>19. SameCommands(m, w)
  BY <1>1, <1>6, <1>10, <1>15 DEF OnlyAt, SameCommands
<1>20. MakeIs(m, w, x, new)
  BY <1>16, <1>17, <1>18, <1>19 DEF MakeIs
<1> QED
  BY <1>15, <1>20

AllEdited(pictures, edit) == [j \in DOMAIN pictures |-> Edited(pictures[j], edit)]

\* Filters put out their input, edited.
LEMMA FilterOK ==
  ASSUME NEW m, WellFormed(m), NEW x \in Unit, NEW a \in GraphicsPlace \ {Outs(x)},
         NEW edit, EditOK(m, edit), NEW v, edit = [op |-> KindOf(x), unit |-> x, by |-> v]
  PROVE  LET w == Filter(m, x, m.at[a], v)
         IN /\ WellFormed(w) /\ OnlyAt(m, w, Outs(x))
            /\ PicturesAt(w, Outs(x)) =
                 AllEdited(PicturesAt(m, a), edit)
<1> PICK c : c = Push(Clear(m, Outs(x)), Outs(x), m.at[a])
  OBVIOUS
<1> PICK w, in, n : w = Filter(m, x, m.at[a], v) /\ in = PicturesAt(m, a) /\ n = Len(m.at[a])
  OBVIOUS
<1>1. Outs(x) \in GraphicsPlace
  BY PlacesDiffer
<1>2. WellFormed(c) /\ OnlyAt(m, c, Outs(x)) /\ c.at[Outs(x)] = m.at[a] /\ PicturesAt(c, Outs(x)) = in
  BY <1>1, CopyOK
<1>3. EditOK(c, edit)
  BY <1>2 DEF EditOK, OnlyAt
<1>4. w = AlterEach(c, Outs(x), 0, n, edit)
  BY DEF Filter
<1>5. n \in Nat /\ 0 + n <= Len(c.at[Outs(x)]) /\ in \in Seq(PictureSet) /\ DOMAIN in = 1..n
  <2>1. m.at[a] \in Seq(DOMAIN m.graphics) /\ in \in Seq(PictureSet) /\ Len(in) = n
    BY PlaceTyped
  <2> QED
    BY <1>2, <2>1
<1>6. WellFormed(w) /\ EachIs(c, w, Outs(x), 0, n, edit)
  BY <1>1, <1>2, <1>3, <1>4, <1>5, AlterEachOK
<1>7. OnlyAt(m, w, Outs(x))
  BY <1>2, <1>6, OnlyAtTwice DEF EachIs
<1>8. PicturesAt(w, Outs(x)) = AllEdited(in, edit)
  <2>1. PicturesAt(w, Outs(x)) = EditedUpTo(in, 0, n, edit)
    BY <1>2, <1>6 DEF EachIs
  <2>2. \A j \in DOMAIN in : 0 < j /\ j <= 0 + n
    BY <1>5
  <2> QED
    BY <2>1, <2>2 DEF EditedUpTo, AllEdited
<1> QED
  BY <1>6, <1>7, <1>8

\* The tail of a sequence is edited.
LEMMA EditedBehind ==
  ASSUME NEW a \in Seq(PictureSet), NEW b \in Seq(PictureSet), NEW edit,
         AllEdited(b, edit) \in Seq(PictureSet)
  PROVE  EditedUpTo(a \o b, Len(a), Len(b), edit) = a \o AllEdited(b, edit)
<1> PICK e : e = AllEdited(b, edit)
  OBVIOUS
<1> PICK k \in Nat, n \in Nat : k = Len(a) /\ n = Len(b)
  OBVIOUS
<1>1. /\ a \o b \in Seq(PictureSet) /\ Len(a \o b) = k + n
      /\ \A i \in 1..k + n : (a \o b)[i] = IF i <= k THEN a[i] ELSE b[i - k]
  BY ConcatProperties
<1>0. DOMAIN e = DOMAIN b /\ \A j \in DOMAIN b : e[j] = Edited(b[j], edit)
  BY DEF AllEdited
<1>2. DOMAIN b = 1..n /\ Len(e) = n
  BY <1>0
<1>3. /\ a \o e \in Seq(PictureSet) /\ Len(a \o e) = k + n
      /\ \A i \in 1..k + n : (a \o e)[i] = IF i <= k THEN a[i] ELSE e[i - k]
  <2>1. e \in Seq(PictureSet)
    OBVIOUS
  <2>2. /\ a \o e \in Seq(PictureSet) /\ Len(a \o e) = Len(a) + Len(e)
        /\ \A i \in 1..Len(a) + Len(e) : (a \o e)[i] = IF i <= Len(a) THEN a[i] ELSE e[i - Len(a)]
    BY <2>1, ConcatProperties
  <2> QED
    BY <1>2, <2>2
<1>4. DOMAIN (a \o b) = 1..k + n
  BY <1>1
<1>5. EditedUpTo(a \o b, k, n, edit) =
        [i \in 1..k + n |-> IF k < i /\ i <= k + n THEN Edited((a \o b)[i], edit) ELSE (a \o b)[i]]
  BY <1>4 DEF EditedUpTo
<1>6. \A i \in 1..k + n :
        (IF k < i /\ i <= k + n THEN Edited((a \o b)[i], edit) ELSE (a \o b)[i]) = (a \o e)[i]
  <2> TAKE i \in 1..k + n
  <2>1. CASE i <= k
    BY <1>1, <1>3, <2>1
  <2>2. CASE ~(i <= k)
    <3>1. i - k \in 1..n /\ k < i /\ i <= k + n
      BY <2>2
    <3>2. e[i - k] = Edited(b[i - k], edit)
      BY <1>0, <1>2, <3>1
    <3> QED
      BY <1>1, <1>3, <2>2, <3>1, <3>2
  <2> QED
    BY <2>1, <2>2
<1>7. a \o e = [i \in 1..k + n |-> (a \o e)[i]]
  <2>1. PICK c : c = a \o e
    OBVIOUS
  <2>2. c \in Seq(PictureSet) /\ Len(c) = k + n
    BY <1>3, <2>1
  <2>3. c = [i \in 1..k + n |-> c[i]]
    BY <2>2
  <2> QED
    BY <2>1, <2>3
<1> QED
  BY <1>5, <1>6, <1>7

\* A picture that is faded is a picture.
LEMMA FadedTyped ==
  ASSUME NEW p \in PictureSet, NEW v \in Int
  PROVE  Values!Faded(p, v) \in PictureSet
<1>1. /\ p = [kind |-> p.kind, on |-> p.on, commands |-> p.commands, face |-> p.face]
      /\ p.face \in Face /\ p.kind \in Shapes \cup Commands /\ p.on \in Modes \cup {4}
      /\ p.commands \in Seq(Int)
  BY DEF PictureSet
<1>2. CASE p.kind \in Shapes
  <2>1. PICK k : k = p.face.color * v
    OBVIOUS
  <2>2. k \in Int
    BY <1>1, <2>1 DEF Face
  <2>3. PICK new : new = [p.face EXCEPT !.color = k]
    OBVIOUS
  <2>4. new \in Face
    BY <1>1, <2>2, <2>3 DEF Face
  <2>5. Values!Faded(p, v) = [p EXCEPT !.face.color = k]
    BY <1>2, <2>1 DEF Values!Faded, Values!Coloured, Values!Shapes, Shapes
  <2>6. [p EXCEPT !.face.color = k] = [kind |-> p.kind, on |-> p.on, commands |-> p.commands, face |-> new]
    BY <1>1, <2>3
  <2> QED
    BY <1>1, <2>4, <2>5, <2>6 DEF PictureSet
<1>3. CASE p.kind \notin Shapes
  BY <1>3 DEF Values!Faded, Values!Coloured, Values!Shapes, Shapes
<1> QED
  BY <1>2, <1>3

FadedBy(x, v) == [op |-> "fade", unit |-> x, by |-> v]

\* Scale is what XOut does to an entry.
LEMMA FadedIs ==
  ASSUME NEW x, NEW v, NEW p
  PROVE  Edited(p, FadedBy(x, v)) = Values!Faded(p, v)
BY DEF Edited, FadedBy

AllFaded(pictures, v) == [j \in DOMAIN pictures |-> Values!Faded(pictures[j], v)]

\* Pictures that are faded are as many pictures.
LEMMA AllFadedTyped ==
  ASSUME NEW s \in Seq(PictureSet), NEW v \in Int
  PROVE  AllFaded(s, v) \in Seq(PictureSet) /\ Len(AllFaded(s, v)) = Len(s)
<1> PICK n \in Nat : n = Len(s)
  OBVIOUS
<1>1. DOMAIN s = 1..n /\ \A j \in 1..n : s[j] \in PictureSet
  OBVIOUS
<1>2. \A j \in 1..n : Values!Faded(s[j], v) \in PictureSet
  BY <1>1, FadedTyped
<1>3. AllFaded(s, v) = [j \in 1..n |-> Values!Faded(s[j], v)]
  BY <1>1 DEF AllFaded
<1>4. PICK e : e = [j \in 1..n |-> Values!Faded(s[j], v)]
  OBVIOUS
<1>5. e \in Seq(PictureSet) /\ Len(e) = n
  <2>1. e \in [1..n -> PictureSet]
    BY <1>2, <1>4
  <2> QED
    BY <1>4, <2>1
<1> QED
  BY <1>3, <1>4, <1>5

\* The tail of a sequence is faded.
LEMMA FadedBehind ==
  ASSUME NEW a \in Seq(PictureSet), NEW b \in Seq(PictureSet), NEW v \in Int, NEW x
  PROVE  EditedUpTo(a \o b, Len(a), Len(b), FadedBy(x, v)) = a \o AllFaded(b, v)
<1>1. AllEdited(b, FadedBy(x, v)) = AllFaded(b, v)
  BY FadedIs DEF AllEdited, AllFaded
<1>2. AllEdited(b, FadedBy(x, v)) \in Seq(PictureSet)
  BY <1>1, AllFadedTyped
<1>3. EditedUpTo(a \o b, Len(a), Len(b), FadedBy(x, v)) = a \o AllEdited(b, FadedBy(x, v))
  BY <1>2, EditedBehind
<1> QED
  BY <1>1, <1>3

\* XOut fades what is on the bus and what it adds.
LEMMA CrossFadeOK ==
  ASSUME NEW m, WellFormed(m), NEW x \in Unit, NEW a \in GraphicsPlace \ {Bus}, NEW v \in Int
  PROVE  LET w == CrossFade(m, x, m.at[a], v)
         IN /\ WellFormed(w) /\ OnlyAt(m, w, Bus)
            /\ PicturesAt(w, Bus) = AllFaded(PicturesAt(m, Bus), 1 - v) \o AllFaded(PicturesAt(m, a), v)
<1> PICK size, n : size = Len(m.at[Bus]) /\ n = Len(m.at[a])
  OBVIOUS
<1> PICK e1, e2 : e1 = FadedBy(x, 1 - v) /\ e2 = FadedBy(x, v)
  OBVIOUS
<1> PICK rest : rest = AlterEach(m, Bus, 0, size, e1)
  OBVIOUS
<1> PICK c : c = Push(rest, Bus, m.at[a])
  OBVIOUS
<1> PICK w : w = AlterEach(c, Bus, size, n, e2)
  OBVIOUS
<1> PICK bus, in, old, new : /\ bus = PicturesAt(m, Bus) /\ in = PicturesAt(m, a)
                             /\ old = AllFaded(bus, 1 - v) /\ new = AllFaded(in, v)
  OBVIOUS
<1>1. w = CrossFade(m, x, m.at[a], v)
  BY DEF CrossFade, FadedBy
<1>2. Bus \in GraphicsPlace /\ EditOK(m, e1) /\ e2.by \in Int /\ e2.op = "fade"
  BY PlacesDiffer DEF EditOK, FadedBy
<1>3. /\ bus \in Seq(PictureSet) /\ Len(bus) = size /\ in \in Seq(PictureSet) /\ Len(in) = n
      /\ size \in Nat /\ n \in Nat /\ m.at[Bus] \in Seq(DOMAIN m.graphics)
      /\ m.at[a] \in Seq(DOMAIN m.graphics)
  <2>1. m.at[Bus] \in Seq(DOMAIN m.graphics) /\ bus \in Seq(PictureSet) /\ Len(bus) = size
    BY <1>2, PlaceTyped
  <2>2. m.at[a] \in Seq(DOMAIN m.graphics) /\ in \in Seq(PictureSet) /\ Len(in) = n
    BY PlaceTyped
  <2> QED
    BY <2>1, <2>2
<1>4. WellFormed(rest) /\ EachIs(m, rest, Bus, 0, size, e1)
  <2>1. 0 + size <= Len(m.at[Bus])
    BY <1>3
  <2> QED
    BY <1>2, <1>3, <2>1, AlterEachOK
<1>5. PicturesAt(rest, Bus) = old /\ old \in Seq(PictureSet) /\ Len(old) = size
  <2>1. PicturesAt(rest, Bus) = EditedUpTo(bus, 0, size, e1)
    BY <1>4 DEF EachIs
  <2>2. \A j \in DOMAIN bus : 0 < j /\ j <= 0 + size
    BY <1>3
  <2>3. EditedUpTo(bus, 0, size, e1) = [j \in DOMAIN bus |-> Edited(bus[j], e1)]
    BY <2>2 DEF EditedUpTo
  <2>4. [j \in DOMAIN bus |-> Edited(bus[j], e1)] = old
    BY FadedIs DEF AllFaded
  <2>5. old \in Seq(PictureSet) /\ Len(old) = size
    BY <1>3, AllFadedTyped
  <2> QED
    BY <2>1, <2>3, <2>4, <2>5
<1>6. rest.at[a] = m.at[a] /\ PicturesAt(rest, a) = in
  BY <1>4 DEF EachIs, OnlyAt
<1>7. m.at[a] \in Seq(DOMAIN rest.graphics)
  BY <1>4, <1>6, PlaceTyped
<1>8. WellFormed(c) /\ OnlyAt(rest, c, Bus) /\ Pushed(rest, c, Bus, m.at[a])
  BY <1>2, <1>4, <1>7, PushOK
<1>9. PicturesAt(c, Bus) = old \o in
  <2>1. PicturesOf(rest, m.at[a]) = in
    BY <1>6 DEF PicturesOf, PicturesAt
  <2> QED
    BY <1>5, <1>8, <2>1 DEF Pushed
<1>10. WellFormed(w) /\ EachIs(c, w, Bus, size, n, e2)
  <2>1. Len(c.at[Bus]) = size + n
    <3>1. Len(PicturesAt(c, Bus)) = Len(c.at[Bus])
      BY <1>2, <1>8, PlaceTyped
    <3>2. old \in Seq(PictureSet) /\ in \in Seq(PictureSet)
      BY <1>3, <1>5
    <3>3. Len(old \o in) = Len(old) + Len(in)
      BY <3>2, ConcatProperties
    <3> QED
      BY <1>3, <1>5, <1>9, <3>1, <3>3
  <2>4. size \in Nat /\ n \in Nat
    BY <1>3
  <2>5. size + n <= size + n
    BY <2>4
  <2>2. size + n <= Len(c.at[Bus])
    BY <2>1, <2>5, Zenon
  <2>3. EditOK(c, e2)
    BY <1>2 DEF EditOK
  <2> QED
    BY <1>2, <1>3, <1>8, <2>2, <2>3, AlterEachOK
<1>11. PicturesAt(w, Bus) = old \o new
  <2>1. PicturesAt(w, Bus) = EditedUpTo(old \o in, size, n, e2)
    BY <1>9, <1>10 DEF EachIs
  <2>2. old \in Seq(PictureSet) /\ in \in Seq(PictureSet)
    BY <1>3, <1>5
  <2>5. \A o, b \in Seq(PictureSet) :
          EditedUpTo(o \o b, Len(o), Len(b), FadedBy(x, v)) = o \o AllFaded(b, v)
    BY FadedBehind
  <2>6. EditedUpTo(old \o in, Len(old), Len(in), FadedBy(x, v)) = old \o AllFaded(in, v)
    BY <2>2, <2>5
  <2>3. EditedUpTo(old \o in, Len(old), Len(in), e2) = old \o new
    BY <2>6
  <2>4. Len(old) = size /\ Len(in) = n
    BY <1>3, <1>5
  <2> QED
    BY <2>1, <2>3, <2>4
<1>12. OnlyAt(m, w, Bus)
  BY <1>4, <1>8, <1>10, OnlyAtTwice DEF EachIs
<1> QED
  BY <1>1, <1>10, <1>11, <1>12

\* The pictures of two sequences of pointers, one behind the other.
LEMMA PicturesOfConcat ==
  ASSUME NEW m, WellFormed(m), NEW a \in Seq(DOMAIN m.graphics), NEW b \in Seq(DOMAIN m.graphics)
  PROVE  PicturesOf(m, a \o b) = PicturesOf(m, a) \o PicturesOf(m, b)
<1> PICK k \in Nat, n \in Nat : k = Len(a) /\ n = Len(b)
  OBVIOUS
<1>1. PICK ab : ab = a \o b
  OBVIOUS
<1>2. /\ ab \in Seq(DOMAIN m.graphics) /\ Len(ab) = k + n
      /\ \A i \in 1..k + n : ab[i] = IF i <= k THEN a[i] ELSE b[i - k]
  BY <1>1, ConcatProperties
<1>3. PICK pa, pb, pab : pa = PicturesOf(m, a) /\ pb = PicturesOf(m, b) /\ pab = PicturesOf(m, ab)
  OBVIOUS
<1>4. /\ pa \in Seq(PictureSet) /\ Len(pa) = k /\ pb \in Seq(PictureSet) /\ Len(pb) = n
  BY <1>3, PointersTyped DEF PicturesOf
<1>5. pab \in Seq(PictureSet) /\ Len(pab) = k + n
  BY <1>2, <1>3, PointersTyped DEF PicturesOf
<1>6. PICK c : c = pa \o pb
  OBVIOUS
<1>7. c \in Seq(PictureSet) /\ Len(c) = Len(pa) + Len(pb)
      /\ \A i \in 1..Len(pa) + Len(pb) : c[i] = IF i <= Len(pa) THEN pa[i] ELSE pb[i - Len(pa)]
  <2>1. pa \in Seq(PictureSet) /\ pb \in Seq(PictureSet)
    BY <1>4
  <2> QED
    BY <1>6, <2>1, ConcatProperties
<1>8. \A i \in 1..k + n : pab[i] = c[i]
  <2> TAKE i \in 1..k + n
  <2>0. i \in DOMAIN ab
    BY <1>2
  <2>1. pab[i] = Picture(m, ab[i])
    BY <1>3, <2>0 DEF PicturesOf
  <2>2. CASE i <= k
    <3>1. i \in DOMAIN a
      BY <2>2
    <3>2. pa[i] = Picture(m, a[i])
      BY <1>3, <3>1 DEF PicturesOf
    <3>3. c[i] = pa[i] /\ ab[i] = a[i]
      BY <1>2, <1>4, <1>7, <2>2
    <3> QED
      BY <2>1, <3>2, <3>3
  <2>3. CASE ~(i <= k)
    <3>1. i - k \in DOMAIN b
      BY <2>3
    <3>2. pb[i - k] = Picture(m, b[i - k])
      BY <1>3, <3>1 DEF PicturesOf
    <3>3. c[i] = pb[i - k] /\ ab[i] = b[i - k]
      BY <1>2, <1>4, <1>7, <2>3
    <3> QED
      BY <2>1, <3>2, <3>3
  <2> QED
    BY <2>2, <2>3
<1>9. pab = c
  BY <1>4, <1>5, <1>7, <1>8, SeqEqual
<1> QED
  BY <1>1, <1>3, <1>6, <1>9

\* The kinds that put something out.
OutKinds == Shapes \cup Commands \cup {"translate", "color", "fade", "mix", "In", "InFeedback"}

\* What the constructor of a unit allocates is there, and a unit that puts out
\* nothing holds nothing.
Fits(m, x) ==
  /\ KindOf(x) \in Shapes \cup Commands => HasObject(m, x)
  /\ KindOf(x) \notin Shapes \cup Commands => PicturesAt(m, Own(x)) = <<>>
  /\ KindOf(x) = "translate" => Len(m.at[Cmd(x)]) = 1
  /\ KindOf(x) \notin OutKinds => PicturesAt(m, Outs(x)) = <<>>

In(m, x, k) == PicturesAt(m, Outs(InputUnit(x, k)))

\* What the places hold after unit x.
OwnAfter(m, x, v) ==
  IF KindOf(x) \in Shapes \cup Commands THEN <<Values!Remade(PicturesAt(m, Own(x))[1], v)>> ELSE <<>>

OutsAfter(m, x, v) ==
  LET kind == KindOf(x)
  IN CASE kind \in Shapes \cup Commands -> OwnAfter(m, x, v)
       [] kind = "translate" -> [i \in DOMAIN In(m, x, 1) |-> Values!Moved(In(m, x, 1)[i], v)]
       [] kind = "color"     -> [i \in DOMAIN In(m, x, 1) |-> Values!Coloured(In(m, x, 1)[i], v)]
       [] kind = "fade"      -> [i \in DOMAIN In(m, x, 1) |-> Values!Faded(In(m, x, 1)[i], v)]
       [] kind = "mix"       -> In(m, x, 1) \o In(m, x, 2)
       [] kind = "In"        -> PicturesAt(m, Bus)
       [] kind = "InFeedback"-> PicturesAt(m, Past)
       [] OTHER              -> <<>>

BusAfter(m, x, v) ==
  LET kind == KindOf(x)
  IN CASE kind = "Out"        -> PicturesAt(m, Bus) \o In(m, x, 1)
       [] kind = "ReplaceOut" -> In(m, x, 1)
       [] kind = "XOut"       -> AllFaded(PicturesAt(m, Bus), 1 - v) \o AllFaded(In(m, x, 1), v)
       [] OTHER               -> PicturesAt(m, Bus)

\* What processing unit x leaves.
ProcessIs(m, w, x, v) ==
  /\ PicturesAt(w, Own(x)) = OwnAfter(m, x, v) /\ PicturesAt(w, Outs(x)) = OutsAfter(m, x, v)
  /\ PicturesAt(w, Bus) = BusAfter(m, x, v)
  /\ \A q \in GraphicsPlace \ {Own(x), Outs(x), Bus} : PicturesAt(w, q) = PicturesAt(m, q)
  /\ SameCommands(m, w)

\* An operation that leaves other places alone.
LEMMA AtOuts ==
  ASSUME NEW m, NEW w, NEW x \in Unit, NEW v, Fits(m, x), OnlyAt(m, w, Outs(x)),
         PicturesAt(w, Outs(x)) = OutsAfter(m, x, v), KindOf(x) \notin Shapes \cup Commands,
         KindOf(x) \notin {"Out", "ReplaceOut", "XOut"}
  PROVE  ProcessIs(m, w, x, v)
<1>1. OwnAfter(m, x, v) = PicturesAt(m, Own(x)) /\ BusAfter(m, x, v) = PicturesAt(m, Bus)
  BY DEF OwnAfter, BusAfter, Fits
<1>2. PicturesAt(w, Own(x)) = PicturesAt(m, Own(x)) /\ PicturesAt(w, Bus) = PicturesAt(m, Bus)
  BY PlacesDiffer DEF OnlyAt
<1>3. \A q \in GraphicsPlace \ {Own(x), Outs(x), Bus} : PicturesAt(w, q) = PicturesAt(m, q)
  BY DEF OnlyAt
<1>4. SameCommands(m, w)
  BY DEF OnlyAt, SameCommands
<1> QED
  BY <1>1, <1>2, <1>3, <1>4 DEF ProcessIs

\* An operation that leaves all but the bus alone.
LEMMA AtBus ==
  ASSUME NEW m, NEW w, NEW x \in Unit, NEW v, Fits(m, x), OnlyAt(m, w, Bus),
         PicturesAt(w, Bus) = BusAfter(m, x, v), KindOf(x) \notin OutKinds
  PROVE  ProcessIs(m, w, x, v)
<1>0. KindOf(x) \notin Shapes \cup Commands
  BY DEF OutKinds
<1>1. OwnAfter(m, x, v) = PicturesAt(m, Own(x)) /\ OutsAfter(m, x, v) = PicturesAt(m, Outs(x))
  <2>1. OwnAfter(m, x, v) = PicturesAt(m, Own(x))
    BY <1>0 DEF OwnAfter, Fits
  <2>2. OutsAfter(m, x, v) = <<>>
    BY DEF OutsAfter, OutKinds
  <2> QED
    BY <2>1, <2>2 DEF Fits
<1>2. PicturesAt(w, Own(x)) = PicturesAt(m, Own(x)) /\ PicturesAt(w, Outs(x)) = PicturesAt(m, Outs(x))
  BY PlacesDiffer DEF OnlyAt
<1>3. \A q \in GraphicsPlace \ {Own(x), Outs(x), Bus} : PicturesAt(w, q) = PicturesAt(m, q)
  BY DEF OnlyAt
<1>4. SameCommands(m, w)
  BY DEF OnlyAt, SameCommands
<1> QED
  BY <1>1, <1>2, <1>3, <1>4 DEF ProcessIs

\* A unit's input is neither its own output nor the bus.
LEMMA InputsOK ==
  ASSUME NEW x \in Unit, NEW k \in 1..Arity(KindOf(x))
  PROVE  /\ Outs(InputUnit(x, k)) \in GraphicsPlace \ {Outs(x)}
         /\ Outs(InputUnit(x, k)) \in GraphicsPlace \ {Bus}
<1>1. InputUnit(x, k) \in Unit /\ InputUnit(x, k) # x
  BY InputFacts
<1> QED
  BY <1>1, PlacesDiffer

\* A unit alters what it makes, puts out or writes to the bus, and nothing else.
LEMMA ProcessOK ==
  ASSUME NEW m, WellFormed(m), NEW x \in Unit, NEW v \in Int, Fits(m, x)
  PROVE  WellFormed(Process(m, x, v)) /\ ProcessIs(m, Process(m, x, v), x, v)
<1> PICK w, kind : w = Process(m, x, v) /\ kind = KindOf(x)
  OBVIOUS
<1> PICK a, b : a = Outs(InputUnit(x, 1)) /\ b = Outs(InputUnit(x, 2))
  OBVIOUS
<1>0. Outs(x) \in GraphicsPlace /\ Bus \in GraphicsPlace /\ Past \in GraphicsPlace
      /\ Outs(x) # Bus /\ Outs(x) # Past
  BY PlacesDiffer
<1>1. CASE kind \in Shapes \cup Commands
  <2>1. w = Make(m, x, v)
    BY <1>1 DEF Process, Shapes, Commands
  <2>2. HasObject(m, x)
    BY <1>1 DEF Fits
  <2>3. /\ WellFormed(Make(m, x, v))
        /\ MakeIs(m, Make(m, x, v), x, Values!Remade(PicturesAt(m, Own(x))[1], v))
    BY <2>2, MakeOK
  <2> PICK new : new = Values!Remade(PicturesAt(m, Own(x))[1], v)
    OBVIOUS
  <2>4. WellFormed(w) /\ MakeIs(m, w, x, new)
    BY <2>1, <2>3
  <2>5. OwnAfter(m, x, v) = <<new>> /\ OutsAfter(m, x, v) = <<new>> /\ BusAfter(m, x, v) = PicturesAt(m, Bus)
    BY <1>1 DEF OwnAfter, OutsAfter, BusAfter, Shapes, Commands
  <2>6. PicturesAt(w, Bus) = PicturesAt(m, Bus)
    BY <1>0, <2>4, PlacesDiffer DEF MakeIs
  <2> QED
    BY <2>4, <2>5, <2>6 DEF MakeIs, ProcessIs
<1>2. CASE kind \in {"translate", "color", "fade"}
  <2> PICK edit : edit = [op |-> kind, unit |-> x, by |-> v]
    OBVIOUS
  <2>1. w = Filter(m, x, m.at[a], v)
    BY <1>2 DEF Process, Shapes, Commands, InputUnit
  <2>2. 1 \in 1..Arity(KindOf(x))
    BY <1>2 DEF Arity
  <2>3. a \in GraphicsPlace \ {Outs(x)}
    BY <2>2, InputsOK
  <2>4. EditOK(m, edit)
    BY <1>2 DEF EditOK, Fits
  <2>5. /\ WellFormed(w) /\ OnlyAt(m, w, Outs(x))
        /\ PicturesAt(w, Outs(x)) = AllEdited(PicturesAt(m, a), edit)
    BY <2>1, <2>3, <2>4, FilterOK
  <2> PICK in : in = PicturesAt(m, a)
    OBVIOUS
  <2>6. In(m, x, 1) = in
    BY DEF In
  <2>7. AllEdited(in, edit) = OutsAfter(m, x, v)
    <3>1. CASE kind = "translate"
      <4>1. \A p : Edited(p, edit) = Values!Moved(p, v)
        BY <3>1 DEF Edited
      <4>2. OutsAfter(m, x, v) = [i \in DOMAIN in |-> Values!Moved(in[i], v)]
        BY <2>6, <3>1 DEF OutsAfter, Shapes, Commands
      <4> QED
        BY <4>1, <4>2 DEF AllEdited
    <3>2. CASE kind = "color"
      <4>1. \A p : Edited(p, edit) = Values!Coloured(p, v)
        BY <3>2 DEF Edited
      <4>2. OutsAfter(m, x, v) = [i \in DOMAIN in |-> Values!Coloured(in[i], v)]
        BY <2>6, <3>2 DEF OutsAfter, Shapes, Commands
      <4> QED
        BY <4>1, <4>2 DEF AllEdited
    <3>3. CASE kind = "fade"
      <4>1. \A p : Edited(p, edit) = Values!Faded(p, v)
        BY <3>3 DEF Edited
      <4>2. OutsAfter(m, x, v) = [i \in DOMAIN in |-> Values!Faded(in[i], v)]
        BY <2>6, <3>3 DEF OutsAfter, Shapes, Commands
      <4> QED
        BY <4>1, <4>2 DEF AllEdited
    <3> QED
      BY <1>2, <3>1, <3>2, <3>3
  <2>8. kind \notin Shapes \cup Commands /\ kind \notin {"Out", "ReplaceOut", "XOut"}
    BY <1>2 DEF Shapes, Commands
  <2>9. ProcessIs(m, w, x, v)
    BY <2>5, <2>7, <2>8, AtOuts
  <2> QED
    BY <2>5, <2>9
<1>3. CASE kind = "mix"
  <2> PICK c, refs : c = Clear(m, Outs(x)) /\ refs = m.at[a] \o m.at[b]
    OBVIOUS
  <2>1. w = Push(c, Outs(x), refs)
    BY <1>3 DEF Process, Shapes, Commands, InputUnit
  <2>2. 1 \in 1..Arity(KindOf(x)) /\ 2 \in 1..Arity(KindOf(x))
    BY <1>3 DEF Arity
  <2>3. a \in GraphicsPlace \ {Outs(x)} /\ b \in GraphicsPlace \ {Outs(x)}
    BY <2>2, InputsOK
  <2>4. WellFormed(c) /\ OnlyAt(m, c, Outs(x))
    BY <1>0, ClearOK
  <2>5. c.at[a] = m.at[a] /\ c.at[b] = m.at[b] /\ PicturesAt(c, a) = PicturesAt(m, a)
        /\ PicturesAt(c, b) = PicturesAt(m, b)
    BY <2>3, <2>4 DEF OnlyAt
  <2> PICK as, bs : as = m.at[a] /\ bs = m.at[b]
    OBVIOUS
  <2>6. as \in Seq(DOMAIN c.graphics) /\ bs \in Seq(DOMAIN c.graphics)
    BY <2>3, <2>4, <2>5, PlaceTyped
  <2>7. as \o bs \in Seq(DOMAIN c.graphics)
    BY <2>6, ConcatProperties
  <2>8. refs \in Seq(DOMAIN Clear(m, Outs(x)).graphics)
    BY <2>7
  <2>9. WellFormed(w) /\ OnlyAt(m, w, Outs(x)) /\ PicturesAt(w, Outs(x)) = PicturesOf(c, refs)
    BY <1>0, <2>1, <2>8, PutOK
  <2>10. PicturesOf(c, as \o bs) = PicturesOf(c, as) \o PicturesOf(c, bs)
    BY <2>4, <2>6, PicturesOfConcat
  <2>11. PicturesOf(c, as) = In(m, x, 1) /\ PicturesOf(c, bs) = In(m, x, 2)
    BY <2>5 DEF PicturesOf, PicturesAt, In
  <2>12. PicturesAt(w, Outs(x)) = OutsAfter(m, x, v)
    BY <1>3, <2>9, <2>10, <2>11 DEF OutsAfter, Shapes, Commands
  <2>13. kind \notin Shapes \cup Commands /\ kind \notin {"Out", "ReplaceOut", "XOut"}
    BY <1>3 DEF Shapes, Commands
  <2>14. ProcessIs(m, w, x, v)
    BY <2>9, <2>12, <2>13, AtOuts
  <2> QED
    BY <2>9, <2>14
<1>4. CASE kind \in {"In", "InFeedback"}
  <2> PICK q : q = IF kind = "In" THEN Bus ELSE Past
    OBVIOUS
  <2>1. w = Push(Clear(m, Outs(x)), Outs(x), m.at[q])
    BY <1>4 DEF Process, Shapes, Commands
  <2>2. q \in GraphicsPlace \ {Outs(x)}
    BY <1>0
  <2>3. WellFormed(w) /\ OnlyAt(m, w, Outs(x)) /\ PicturesAt(w, Outs(x)) = PicturesAt(m, q)
    BY <1>0, <2>1, <2>2, CopyOK
  <2>4. PicturesAt(w, Outs(x)) = OutsAfter(m, x, v)
    BY <1>4, <2>3 DEF OutsAfter, Shapes, Commands
  <2>5. kind \notin Shapes \cup Commands /\ kind \notin {"Out", "ReplaceOut", "XOut"}
    BY <1>4 DEF Shapes, Commands
  <2>6. ProcessIs(m, w, x, v)
    BY <2>3, <2>4, <2>5, AtOuts
  <2> QED
    BY <2>3, <2>6
<1>5. CASE kind \in {"Out", "ReplaceOut", "XOut"}
  <2>1. 1 \in 1..Arity(KindOf(x))
    BY <1>5 DEF Arity
  <2>2. a \in GraphicsPlace \ {Bus}
    BY <2>1, InputsOK
  <2>3. In(m, x, 1) = PicturesAt(m, a)
    BY DEF In
  <2>4. kind \notin OutKinds
    BY <1>5 DEF OutKinds, Shapes, Commands
  <2>5. WellFormed(w) /\ OnlyAt(m, w, Bus) /\ PicturesAt(w, Bus) = BusAfter(m, x, v)
    <3>1. CASE kind = "Out"
      <4>1. w = Push(m, Bus, m.at[a])
        BY <3>1 DEF Process, Shapes, Commands, InputUnit
      <4>2. m.at[a] \in Seq(DOMAIN m.graphics)
        BY <2>2, PlaceTyped
      <4>3. WellFormed(w) /\ OnlyAt(m, w, Bus) /\ Pushed(m, w, Bus, m.at[a])
        BY <1>0, <4>1, <4>2, PushOK
      <4>4. PicturesOf(m, m.at[a]) = PicturesAt(m, a)
        BY DEF PicturesOf, PicturesAt
      <4> QED
        BY <2>3, <3>1, <4>3, <4>4 DEF Pushed, BusAfter
    <3>2. CASE kind = "ReplaceOut"
      <4>1. w = Push(Clear(m, Bus), Bus, m.at[a])
        BY <3>2 DEF Process, Shapes, Commands, InputUnit
      <4>2. \A q \in GraphicsPlace \ {Bus} :
              LET u == Push(Clear(m, Bus), Bus, m.at[q])
              IN WellFormed(u) /\ OnlyAt(m, u, Bus) /\ PicturesAt(u, Bus) = PicturesAt(m, q)
        <5>1. Bus \in GraphicsPlace
          BY DEF GraphicsPlace
        <5> TAKE q \in GraphicsPlace \ {Bus}
        <5> QED
          BY <1>0, <5>1, CopyOK
      <4>3. WellFormed(w) /\ OnlyAt(m, w, Bus) /\ PicturesAt(w, Bus) = PicturesAt(m, a)
        BY <2>2, <4>1, <4>2
      <4> QED
        BY <2>3, <3>2, <4>3 DEF BusAfter
    <3>3. CASE kind = "XOut"
      <4>1. w = CrossFade(m, x, m.at[a], v)
        BY <3>3 DEF Process, Shapes, Commands, InputUnit
      <4>2. /\ WellFormed(w) /\ OnlyAt(m, w, Bus)
            /\ PicturesAt(w, Bus) = AllFaded(PicturesAt(m, Bus), 1 - v) \o AllFaded(PicturesAt(m, a), v)
        BY <2>2, <4>1, CrossFadeOK
      <4> QED
        BY <2>3, <3>3, <4>2 DEF BusAfter
    <3> QED
      BY <1>5, <3>1, <3>2, <3>3
  <2>6. ProcessIs(m, w, x, v)
    BY <2>4, <2>5, AtBus
  <2> QED
    BY <2>5, <2>6
<1>6. CASE /\ kind \notin Shapes \cup Commands /\ kind \notin {"translate", "color", "fade", "mix", "In", "InFeedback"}
           /\ kind \notin {"Out", "ReplaceOut", "XOut"}
  <2>1. w = m
    BY <1>6 DEF Process
  <2>2. kind \notin OutKinds
    BY <1>6 DEF OutKinds
  <2>3. PicturesAt(w, Bus) = BusAfter(m, x, v) /\ OnlyAt(m, w, Bus)
    BY <1>6, <2>1 DEF BusAfter, OnlyAt
  <2>4. ProcessIs(m, w, x, v)
    BY <2>2, <2>3, AtBus
  <2> QED
    BY <2>1, <2>4
<1> QED
  BY <1>1, <1>2, <1>3, <1>4, <1>5, <1>6

------------------------------------------------------------------------------
(* Synths come                                                             *)

\* A place gets a cell that is new.
Allocate(m, p, r, cell, faces) ==
  [m EXCEPT !.graphics = With(@, r, cell), !.faces = faces, !.at[p] = <<r>>]

\* The faces that were there are, and are the same.
AllFacesStay(m, faces) ==
  /\ faces \in Tables(Face) /\ IsFiniteSet(DOMAIN faces)
  /\ \A f \in DOMAIN m.faces : f \in DOMAIN faces /\ faces[f] = m.faces[f]

\* Whoever was held still is.
StillHeld(m, w) == DOMAIN m.graphics = GraphicsHeld(m) => DOMAIN w.graphics = GraphicsHeld(w)

\* What a new cell stands for.
NewPicture(cell, faces) ==
  [kind |-> cell.kind, on |-> cell.on, commands |-> <<>>,
   face |-> IF cell.face = 0 THEN NoFace ELSE faces[cell.face]]

\* Place p alone has the new cell.
AllocatedIs(m, w, p, picture) ==
  /\ OnlyAt(m, w, p) /\ PicturesAt(w, p) = <<picture>>
  /\ \A q \in Place \ {p} : w.at[q] = m.at[q]
  /\ m.at[p] = <<>> => StillHeld(m, w)

\* A new cell is held by one place and nothing else changes.
LEMMA AllocateOK ==
  ASSUME NEW m, WellFormed(m), NEW p \in GraphicsPlace, NEW r \in Cell, r \notin DOMAIN m.graphics,
         NEW cell \in GraphicsCell, cell.commands = <<>>, NEW faces, AllFacesStay(m, faces),
         cell.face \in IF cell.kind \in Shapes THEN DOMAIN faces ELSE {0}
  PROVE  LET w == Allocate(m, p, r, cell, faces)
         IN WellFormed(w) /\ AllocatedIs(m, w, p, NewPicture(cell, faces))
<1> PICK w : w = Allocate(m, p, r, cell, faces)
  OBVIOUS
<1>1. /\ m.graphics \in Tables(GraphicsCell) /\ m.faces \in Tables(Face)
      /\ m.commands \in Tables(Int) /\ m.at \in [Place -> Seq(Nat)] /\ Finite(m) /\ Linked(m)
      /\ m = [graphics |-> m.graphics, faces |-> m.faces, commands |-> m.commands, at |-> m.at]
  BY MemoryFacts DEF WellFormed
<1>2. w = [graphics |-> With(m.graphics, r, cell), faces |-> faces, commands |-> m.commands,
           at |-> [m.at EXCEPT ![p] = <<r>>]]
  BY <1>1 DEF Allocate
<1>3. IsWith(GraphicsCell, m.graphics, r, cell, w.graphics)
  <2>1. w.graphics = With(m.graphics, r, cell)
    BY <1>2
  <2>2. IsWith(GraphicsCell, m.graphics, r, cell, With(m.graphics, r, cell))
    BY <1>1, WithOK
  <2> QED
    BY <2>1, <2>2
<1>4. /\ w.graphics \in Tables(GraphicsCell) /\ DOMAIN w.graphics = DOMAIN m.graphics \cup {r}
      /\ w.graphics[r] = cell /\ \A g \in DOMAIN m.graphics : w.graphics[g] = m.graphics[g]
      /\ IsFiniteSet(DOMAIN w.graphics)
  BY <1>1, <1>3 DEF IsWith, Finite
<1>5. w.faces = faces /\ w.commands = m.commands /\ w.at = [m.at EXCEPT ![p] = <<r>>]
  BY <1>2
<1>6. p \in Place /\ r \in Nat
  BY PlacesDiffer DEF Cell
<1>7. w.at \in [Place -> Seq(Nat)] /\ w.at[p] = <<r>> /\ \A q \in Place \ {p} : w.at[q] = m.at[q]
  BY <1>1, <1>5, <1>6
<1>8. w \in Memories
  BY <1>1, <1>2, <1>4, <1>5, <1>7 DEF Memories, AllFacesStay
<1>9. Linked(w)
  <2>1. \A q \in GraphicsPlace : \A i \in DOMAIN w.at[q] : w.at[q][i] \in DOMAIN w.graphics
    <3> TAKE q \in GraphicsPlace
    <3>1. CASE q = p
      BY <1>4, <1>7, <3>1
    <3>2. CASE q # p
      BY <1>1, <1>4, <1>7, <3>2, PlacesDiffer DEF Linked
    <3> QED
      BY <3>1, <3>2
  <2>2. \A x \in Unit : w.at[Cmd(x)] = m.at[Cmd(x)]
    BY <1>7, PlacesDiffer
  <2>3. \A g \in DOMAIN w.graphics :
          /\ w.graphics[g].face \in IF IsShape(w, g) THEN DOMAIN w.faces ELSE {0}
          /\ \A i \in DOMAIN w.graphics[g].commands : w.graphics[g].commands[i] \in DOMAIN w.commands
    <3> TAKE g \in DOMAIN w.graphics
    <3>1. CASE g = r
      <4>1. w.graphics[g] = cell /\ (IsShape(w, g) <=> cell.kind \in Shapes)
        BY <1>4, <3>1 DEF IsShape
      <4>2. DOMAIN cell.commands = {}
        OBVIOUS
      <4> QED
        BY <1>5, <4>1, <4>2
    <3>2. CASE g # r
      <4>1. g \in DOMAIN m.graphics /\ w.graphics[g] = m.graphics[g]
        BY <1>4, <3>2
      <4>2. DOMAIN m.faces \subseteq DOMAIN w.faces
        BY <1>5 DEF AllFacesStay
      <4> QED
        BY <1>1, <1>5, <4>1, <4>2 DEF Linked, IsShape
    <3> QED
      BY <3>1, <3>2
  <2> QED
    BY <1>1, <1>5, <2>1, <2>2, <2>3 DEF Linked
<1>10. WellFormed(w)
  BY <1>1, <1>4, <1>5, <1>8, <1>9 DEF WellFormed, Finite, AllFacesStay
<1>11. \A g \in DOMAIN m.graphics : Picture(w, g) = Picture(m, g)
  <2> TAKE g \in DOMAIN m.graphics
  <2>1. w.graphics[g] = m.graphics[g]
    BY <1>4
  <2>2. m.graphics[g].face = 0 \/ w.faces[m.graphics[g].face] = m.faces[m.graphics[g].face]
    BY <1>1, <1>5 DEF Linked, AllFacesStay
  <2> QED
    BY <1>5, <2>1, <2>2, PictureSame
<1>12. \A q \in GraphicsPlace \ {p} : w.at[q] = m.at[q] /\ PicturesAt(w, q) = PicturesAt(m, q)
  <2> TAKE q \in GraphicsPlace \ {p}
  <2>1. w.at[q] = m.at[q]
    BY <1>7, PlacesDiffer
  <2>2. \A i \in DOMAIN m.at[q] : Picture(w, m.at[q][i]) = Picture(m, m.at[q][i])
    BY <1>1, <1>11 DEF Linked
  <2> QED
    BY <2>1, <2>2, PicturesAtSame
<1>13. PicturesAt(w, p) = <<NewPicture(cell, faces)>>
  <2>1. Picture(w, r) = NewPicture(cell, faces)
    <3>1. [i \in DOMAIN cell.commands |-> w.commands[cell.commands[i]]] = <<>>
      OBVIOUS
    <3> QED
      BY <1>4, <1>5, <3>1 DEF Picture, NewPicture
  <2>2. DOMAIN <<r>> = {1} /\ <<r>>[1] = r
    OBVIOUS
  <2>3. PicturesAt(w, p) = [i \in {1} |-> NewPicture(cell, faces)]
    BY <1>7, <2>1, <2>2 DEF PicturesAt
  <2> QED
    BY <2>3
<1>14. m.at[p] = <<>> => StillHeld(m, w)
  <2> SUFFICES ASSUME m.at[p] = <<>>, DOMAIN m.graphics = GraphicsHeld(m)
               PROVE  DOMAIN w.graphics = GraphicsHeld(w)
    BY DEF StillHeld
  <2>1. Elements(m.at[p]) = {} /\ Elements(w.at[p]) = {r}
    BY <1>7 DEF Elements
  <2>2. \A q \in GraphicsPlace \ {p} : Elements(w.at[q]) = Elements(m.at[q])
    BY <1>12
  <2>3. GraphicsHeld(w) = GraphicsHeld(m) \cup {r}
    BY <2>1, <2>2 DEF GraphicsHeld
  <2> QED
    BY <1>4, <2>3
<1>15. OnlyAt(m, w, p)
  <2>1. \A x \in Unit : w.at[Cmd(x)] = m.at[Cmd(x)]
    BY <1>7, PlacesDiffer
  <2> QED
    BY <1>12, <2>1 DEF OnlyAt
<1>16. WellFormed(w) /\ AllocatedIs(m, w, p, NewPicture(cell, faces))
  BY <1>7, <1>10, <1>13, <1>14, <1>15 DEF AllocatedIs
<1> QED
  BY <1>16

\* What makers make first.
LEMMA MadeShape ==
  ASSUME NEW kind \in Shapes, kind \notin Commands
  PROVE  Values!Made(kind) = [kind |-> kind, on |-> 0, commands |-> <<>>, face |-> Values!NewFace]
<1>1. kind \in Values!Shapes /\ kind \notin Values!Commands
  BY DEF Values!Shapes, Values!Commands, Shapes, Commands
<1>2. Values!Made(kind) = [Values!NoPicture EXCEPT !.kind = kind, !.on = 0, !.face = Values!NewFace]
  BY <1>1, Zenon DEF Values!Made
<1> QED
  BY <1>2 DEF Values!NoPicture

\* A command is made without an initial value for what is on.
LEMMA MadeCommand ==
  ASSUME NEW kind \in Commands, kind \notin Shapes
  PROVE  Values!Made(kind) = [kind |-> kind, on |-> Unset, commands |-> <<>>, face |-> Values!NoFace]
<1>1. kind \notin Values!Shapes /\ kind \in Values!Commands
  BY DEF Values!Shapes, Values!Commands, Shapes, Commands
<1>2. Values!Made(kind) = [Values!NoPicture EXCEPT !.kind = kind, !.on = Unset, !.face = Values!NoFace]
  BY <1>1, Zenon DEF Values!Made
<1> QED
  BY <1>2 DEF Values!NoPicture

\* What the constructor of unit x leaves.
ConstructedIs(m, w, x) ==
  /\ \A q \in GraphicsPlace \ {Own(x)} : w.at[q] = m.at[q] /\ PicturesAt(w, q) = PicturesAt(m, q)
  /\ PicturesAt(w, Own(x)) = IF KindOf(x) \in Shapes \cup Commands THEN <<Values!Made(KindOf(x))>>
                             ELSE PicturesAt(m, Own(x))
  /\ \A y \in Unit \ {x} : Len(w.at[Cmd(y)]) = Len(m.at[Cmd(y)])
  /\ KindOf(x) = "translate" => Len(w.at[Cmd(x)]) = 1
  /\ m.at[Own(x)] = <<>> => StillHeld(m, w)

\* A unit's constructor makes its object or its command and leaves what others hold.
LEMMA ConstructedOK ==
  ASSUME NEW m, WellFormed(m), NEW x \in Unit
  PROVE  WellFormed(Constructed(m, x)) /\ ConstructedIs(m, Constructed(m, x), x)
<1> PICK w : w = Constructed(m, x)
  OBVIOUS
<1> PICK r, f, c, kind : r = New(m.graphics) /\ f = New(m.faces) /\ c = New(m.commands) /\ kind = KindOf(x)
  OBVIOUS
<1>1. /\ m.graphics \in Tables(GraphicsCell) /\ m.faces \in Tables(Face)
      /\ m.commands \in Tables(Int) /\ m.at \in [Place -> Seq(Nat)] /\ Finite(m) /\ Linked(m)
      /\ m = [graphics |-> m.graphics, faces |-> m.faces, commands |-> m.commands, at |-> m.at]
  BY MemoryFacts DEF WellFormed
<1>2. /\ r \in Cell /\ r \notin DOMAIN m.graphics /\ f \in Cell /\ f \notin DOMAIN m.faces
      /\ c \in Cell /\ c \notin DOMAIN m.commands
  BY <1>1, NewIsNew DEF Finite
<1>3. Own(x) \in GraphicsPlace /\ Own(x) \in Place /\ \A y \in Unit : Cmd(y) # Own(x) /\ Cmd(y) \in Place
  BY PlacesDiffer
<1>4. CASE kind \in Shapes
  <2> PICK cell, faces : /\ cell = [kind |-> kind, on |-> 0, commands |-> <<>>, face |-> f]
                         /\ faces = With(m.faces, f, [vertices |-> 0, color |-> 1])
    OBVIOUS
  <2>0. kind \notin Commands /\ kind # "translate"
    BY <1>4 DEF Shapes, Commands
  <2>1. w = [m EXCEPT !.graphics = With(@, r, cell), !.faces = faces, !.at[Own(x)] = <<r>>]
    <3>1. cell = [[kind |-> kind, on |-> 0, commands |-> <<>>, face |-> 0] EXCEPT !.face = f]
      OBVIOUS
    <3> QED
      BY <1>4, <2>0, <3>1, Zenon DEF Constructed
  <2>2. w = Allocate(m, Own(x), r, cell, faces)
    BY <2>1 DEF Allocate
  <2>3. cell \in GraphicsCell /\ cell.commands = <<>> /\ cell.face = f /\ cell.kind = kind
    BY <1>2, <1>4 DEF GraphicsCell, Modes, Cell
  <2>4. IsWith(Face, m.faces, f, [vertices |-> 0, color |-> 1], faces)
    <3>1. [vertices |-> 0, color |-> 1] \in Face
      BY DEF Face
    <3> QED
      BY <1>1, <1>2, <3>1, WithOK
  <2>5. AllFacesStay(m, faces) /\ f \in DOMAIN faces /\ faces[f] = [vertices |-> 0, color |-> 1]
    BY <1>1, <1>2, <2>4 DEF AllFacesStay, IsWith, Finite
  <2>6. WellFormed(w) /\ AllocatedIs(m, w, Own(x), NewPicture(cell, faces))
    <3>1. cell.face \in IF cell.kind \in Shapes THEN DOMAIN faces ELSE {0}
      BY <1>4, <2>3, <2>5
    <3> QED
      BY <1>2, <1>3, <2>2, <2>3, <2>5, <3>1, AllocateOK
  <2>7. NewPicture(cell, faces) = Values!Made(kind)
    <3>1. f # 0
      BY <1>2 DEF Cell
    <3>2. NewPicture(cell, faces) = [kind |-> kind, on |-> 0, commands |-> <<>>, face |-> [vertices |-> 0, color |-> 1]]
      BY <2>5, <3>1 DEF NewPicture
    <3>3. kind \notin Commands
      BY <1>4 DEF Shapes, Commands
    <3>4. Values!Made(kind) = [kind |-> kind, on |-> 0, commands |-> <<>>, face |-> Values!NewFace]
      BY <1>4, <3>3, MadeShape
    <3> QED
      BY <3>2, <3>4 DEF Values!NewFace
  <2>8. kind # "translate"
    BY <1>4 DEF Shapes
  <2>9. ConstructedIs(m, w, x)
    BY <1>3, <1>4, <2>6, <2>7, <2>8 DEF ConstructedIs, AllocatedIs, OnlyAt
  <2> QED
    BY <2>6, <2>9
<1>5. CASE kind \in Commands
  <2> PICK cell : cell = [kind |-> kind, on |-> Unset, commands |-> <<>>, face |-> 0]
    OBVIOUS
  <2>0. kind \notin Shapes /\ kind # "translate"
    BY <1>5 DEF Shapes, Commands
  <2>1. w = [m EXCEPT !.graphics = With(@, r, cell), !.at[Own(x)] = <<r>>]
    <3>1. cell = [[kind |-> kind, on |-> 0, commands |-> <<>>, face |-> 0] EXCEPT !.on = Unset]
      OBVIOUS
    <3> QED
      BY <1>5, <2>0, <3>1, Zenon DEF Constructed
  <2>2. w = Allocate(m, Own(x), r, cell, m.faces)
    BY <1>1, <2>1 DEF Allocate
  <2>3. cell \in GraphicsCell /\ cell.commands = <<>> /\ cell.face = 0 /\ cell.kind = kind
    BY <1>5, ValueAssumption DEF GraphicsCell
  <2>4. AllFacesStay(m, m.faces)
    BY <1>1 DEF AllFacesStay, Finite
  <2>5. WellFormed(w) /\ AllocatedIs(m, w, Own(x), NewPicture(cell, m.faces))
    <3>1. cell.face \in IF cell.kind \in Shapes THEN DOMAIN m.faces ELSE {0}
      BY <2>0, <2>3
    <3> QED
      BY <1>2, <1>3, <2>2, <2>3, <2>4, <3>1, AllocateOK
  <2>6. NewPicture(cell, m.faces) = Values!Made(kind)
    <3>1. NewPicture(cell, m.faces) = [kind |-> kind, on |-> Unset, commands |-> <<>>, face |-> NoFace]
      BY DEF NewPicture
    <3>2. Values!Made(kind) = [kind |-> kind, on |-> Unset, commands |-> <<>>, face |-> Values!NoFace]
      BY <1>5, <2>0, MadeCommand
    <3> QED
      BY <3>1, <3>2 DEF Values!NoFace, NoFace
  <2>7. ConstructedIs(m, w, x)
    BY <1>3, <1>5, <2>0, <2>5, <2>6 DEF ConstructedIs, AllocatedIs, OnlyAt
  <2> QED
    BY <2>5, <2>7
<1>6. CASE kind = "translate"
  <2>0. kind \notin Shapes /\ kind \notin Commands
    BY <1>6 DEF Shapes, Commands
  <2>1. w = [m EXCEPT !.commands = With(@, c, 0), !.at[Cmd(x)] = <<c>>]
    BY <1>6, <2>0 DEF Constructed
  <2> PICK s : s = StoreCommand(m, c, 0)
    OBVIOUS
  <2>2. \A g \in DOMAIN m.graphics : c \notin Elements(m.graphics[g].commands)
    BY <1>1, <1>2 DEF Linked, Elements
  <2>3. WellFormed(s) /\ SameCells(m, s) /\ s.at = m.at /\ c \in DOMAIN s.commands
    BY <1>2, <2>2, StoreCommandOK
  <2>4. w = PointCommand(s, x, c)
    BY <1>1, <2>1 DEF PointCommand, StoreCommand
  <2>5. /\ WellFormed(w) /\ SameCells(s, w)
        /\ w.at[Cmd(x)] = <<c>> /\ \A q \in Place \ {Cmd(x)} : w.at[q] = s.at[q]
    BY <2>3, <2>4, PointCommandOK
  <2>6. w.graphics = m.graphics /\ \A g \in DOMAIN m.graphics : Picture(w, g) = Picture(m, g)
    BY <2>3, <2>5 DEF SameCells
  <2>7. \A q \in GraphicsPlace : w.at[q] = m.at[q] /\ PicturesAt(w, q) = PicturesAt(m, q)
    <3> TAKE q \in GraphicsPlace
    <3>1. w.at[q] = m.at[q]
      BY <2>3, <2>5, PlacesDiffer
    <3>2. \A i \in DOMAIN m.at[q] : Picture(w, m.at[q][i]) = Picture(m, m.at[q][i])
      BY <1>1, <2>6 DEF Linked
    <3> QED
      BY <3>1, <3>2, PicturesAtSame
  <2>8. \A y \in Unit \ {x} : Len(w.at[Cmd(y)]) = Len(m.at[Cmd(y)])
    BY <2>3, <2>5, PlacesDiffer
  <2>9. StillHeld(m, w)
    BY <2>6, <2>7 DEF StillHeld, GraphicsHeld
  <2>10. Len(w.at[Cmd(x)]) = 1
    BY <2>5
  <2>11. ConstructedIs(m, w, x)
    BY <1>3, <2>0, <2>7, <2>8, <2>9, <2>10 DEF ConstructedIs
  <2> QED
    BY <2>5, <2>11
<1>7. CASE kind \notin Shapes \cup Commands /\ kind # "translate"
  <2>1. w = m
    BY <1>7 DEF Constructed
  <2>2. ConstructedIs(m, m, x)
    BY <1>7 DEF ConstructedIs, StillHeld
  <2> QED
    BY <2>1, <2>2
<1> QED
  BY <1>4, <1>5, <1>6, <1>7

\* What the constructor of synth s does, unit by unit.
Created(m, s) ==
  LET after[i \in 0..Len(Programs[s])] ==
        IF i = 0 THEN m ELSE Constructed(after[i - 1], <<s, i>>)
  IN after[Len(Programs[s])]

\* Synth s has no objects.
OwnEmpty(m, s) == \A i \in DOMAIN Programs[s] : m.at[Own(<<s, i>>)] = <<>>

\* Unit x has what its constructor makes.
MadeAt(m, w, x) ==
  /\ PicturesAt(w, Own(x)) = IF KindOf(x) \in Shapes \cup Commands THEN <<Values!Made(KindOf(x))>>
                             ELSE PicturesAt(m, Own(x))
  /\ KindOf(x) = "translate" => Len(w.at[Cmd(x)]) = 1

\* The first k units are there.
CreatedUpTo(m, w, s, k) ==
  /\ \A q \in GraphicsPlace : (\A i \in 1..k : q # Own(<<s, i>>)) =>
       w.at[q] = m.at[q] /\ PicturesAt(w, q) = PicturesAt(m, q)
  /\ \A i \in 1..k : MadeAt(m, w, <<s, i>>)
  /\ \A y \in Unit : y[1] # s => Len(w.at[Cmd(y)]) = Len(m.at[Cmd(y)])
  /\ OwnEmpty(m, s) => StillHeld(m, w)

\* The constructors of a synth's units, one after the other: by induction.
LEMMA CreatedOK ==
  ASSUME NEW m, WellFormed(m), NEW s \in Synth
  PROVE  WellFormed(Created(m, s)) /\ CreatedUpTo(m, Created(m, s), s, Len(Programs[s]))
<1>0. Len(Programs[s]) \in Nat /\ DOMAIN Programs[s] = 1..Len(Programs[s])
  BY ProgramAssumption DEF Synth
<1> PICK n \in Nat : n = Len(Programs[s]) /\ DOMAIN Programs[s] = 1..n
  BY <1>0
<1> DEFINE X == {c \in Memories : WellFormed(c)}
           turn == [i \in 1..n |-> [c \in X |-> Constructed(c, <<s, i>>)]]
           Body(g) == [i \in 0..n |-> IF i = 0 THEN m ELSE Constructed(g[i - 1], <<s, i>>)]
           after == CHOOSE g : g = Body(g)
<1>1. m \in X
  BY DEF WellFormed
<1>2. \A i \in 1..n : <<s, i>> \in Unit /\ <<s, i>>[1] = s
  BY DEF Unit
<1>3. \A i \in 1..n, c \in X : Constructed(c, <<s, i>>) \in X
  <2> TAKE i \in 1..n, c \in X
  <2>1. <<s, i>> \in Unit
    BY <1>2
  <2> PICK x, w : x = <<s, i>> /\ w = Constructed(c, x)
    OBVIOUS
  <2>2. WellFormed(w)
    BY <2>1, ConstructedOK
  <2> QED
    BY <2>2 DEF WellFormed
<1>4. Created(m, s) = after[n]
  BY DEF Created
<1>5. turn \in [1..n -> [X -> X]]
  BY <1>3
<1>6. PICK f \in Loops(X, m, n, turn) : TRUE
  <2> HIDE DEF X, turn
  <2> QED
    BY <1>1, <1>5, TurnsAdd
<1>7. f \in [0..n -> X] /\ f[0] = m /\ \A i \in 1..n : f[i] = turn[i][f[i - 1]]
  BY <1>6 DEF Loops
<1>8. \A i \in 1..n : f[i] = Constructed(f[i - 1], <<s, i>>)
  <2> HIDE DEF X
  <2> TAKE i \in 1..n
  <2>1. f[i - 1] \in X
    BY <1>7
  <2> QED
    BY <1>7, <2>1
<1>9. f = Body(f)
  <2> HIDE DEF X
  <2>1. f = [i \in 0..n |-> f[i]]
    BY <1>7
  <2>2. \A i \in 0..n : f[i] = IF i = 0 THEN m ELSE Constructed(f[i - 1], <<s, i>>)
    <3> TAKE i \in 0..n
    <3>1. i # 0 => i \in 1..n
      OBVIOUS
    <3> QED
      BY <1>7, <1>8, <3>1
  <2> QED
    BY <2>1, <2>2
<1>10. after = Body(after)
  BY <1>9
<1>11. after[0] = m /\ \A i \in 1..n : after[i] = Constructed(after[i - 1], <<s, i>>)
  <2>1. PICK g : g = after
    OBVIOUS
  <2>2. after = Body(g)
    BY <1>10, <2>1
  <2>3. g = [i \in 0..n |-> IF i = 0 THEN m ELSE Constructed(g[i - 1], <<s, i>>)]
    BY <2>1, <2>2
  <2> HIDE DEF after
  <2>4. g[0] = m /\ \A i \in 1..n : g[i] = Constructed(g[i - 1], <<s, i>>)
    BY <2>3
  <2> QED
    BY <2>1, <2>4
<1> HIDE DEF after, Body, turn, X
<1> DEFINE T == {i \in 0..n : WellFormed(after[i]) /\ CreatedUpTo(m, after[i], s, i)}
<1>12. 0 \in T
  <2>1. CreatedUpTo(m, m, s, 0)
    BY DEF CreatedUpTo, StillHeld
  <2> QED
    BY <1>11, <2>1
<1>13. ASSUME NEW k \in 1..n, k - 1 \in T
       PROVE  k \in T
  <2> PICK x, c, w : x = <<s, k>> /\ c = after[k - 1] /\ w = after[k]
    OBVIOUS
  <2>1. WellFormed(c) /\ CreatedUpTo(m, c, s, k - 1) /\ x \in Unit /\ x[1] = s
    BY <1>2, <1>13
  <2>2. w = Constructed(c, x)
    BY <1>11
  <2>3. WellFormed(w) /\ ConstructedIs(c, w, x)
    BY <2>1, <2>2, ConstructedOK
  <2>4. Own(x) \in GraphicsPlace /\ \A i \in 1..k - 1 : Own(<<s, i>>) # Own(x)
    <3>1. \A i \in 1..k - 1 : <<s, i>> \in Unit /\ <<s, i>> # x
      BY <1>2
    <3> QED
      BY <2>1, <3>1, PlacesDiffer
  <2>5. c.at[Own(x)] = m.at[Own(x)] /\ PicturesAt(c, Own(x)) = PicturesAt(m, Own(x))
    BY <2>1, <2>4 DEF CreatedUpTo
  <2>6. \A q \in GraphicsPlace : (\A i \in 1..k : q # Own(<<s, i>>)) =>
          w.at[q] = m.at[q] /\ PicturesAt(w, q) = PicturesAt(m, q)
    <3> SUFFICES ASSUME NEW q \in GraphicsPlace, \A i \in 1..k : q # Own(<<s, i>>)
                 PROVE  w.at[q] = m.at[q] /\ PicturesAt(w, q) = PicturesAt(m, q)
      OBVIOUS
    <3>1. q # Own(x) /\ \A i \in 1..k - 1 : q # Own(<<s, i>>)
      OBVIOUS
    <3>2. c.at[q] = m.at[q] /\ PicturesAt(c, q) = PicturesAt(m, q)
      BY <2>1, <3>1 DEF CreatedUpTo
    <3> QED
      BY <2>3, <3>1, <3>2 DEF ConstructedIs
  <2>7. \A i \in 1..k : MadeAt(m, w, <<s, i>>)
    <3> TAKE i \in 1..k
    <3>1. CASE i = k
      <4>1. MadeAt(m, w, x)
        BY <2>3, <2>5 DEF ConstructedIs, MadeAt
      <4> QED
        BY <3>1, <4>1
    <3>2. CASE i # k
      <4> PICK y : y = <<s, i>>
        OBVIOUS
      <4>1. y \in Unit /\ y # x /\ i \in 1..k - 1
        BY <1>2, <3>2
      <4>2. MadeAt(m, c, y)
        BY <2>1, <4>1 DEF CreatedUpTo
      <4>3. Own(y) \in GraphicsPlace \ {Own(x)}
        BY <2>1, <4>1, PlacesDiffer
      <4>4. PicturesAt(w, Own(y)) = PicturesAt(c, Own(y)) /\ Len(w.at[Cmd(y)]) = Len(c.at[Cmd(y)])
        BY <2>3, <4>1, <4>3 DEF ConstructedIs
      <4>5. MadeAt(m, w, y)
        BY <4>2, <4>4 DEF MadeAt
      <4> QED
        BY <4>5
    <3> QED
      BY <3>1, <3>2
  <2>8. \A y \in Unit : y[1] # s => Len(w.at[Cmd(y)]) = Len(m.at[Cmd(y)])
    BY <2>1, <2>3 DEF ConstructedIs, CreatedUpTo
  <2>9. OwnEmpty(m, s) => StillHeld(m, w)
    <3> SUFFICES ASSUME OwnEmpty(m, s) PROVE StillHeld(m, w)
      OBVIOUS
    <3>1. c.at[Own(x)] = <<>>
      BY <2>5 DEF OwnEmpty
    <3> QED
      BY <2>1, <2>3, <3>1 DEF ConstructedIs, CreatedUpTo, StillHeld
  <2>10. CreatedUpTo(m, w, s, k)
    BY <2>6, <2>7, <2>8, <2>9 DEF CreatedUpTo
  <2> QED
    BY <2>3, <2>10
<1>14. 0..n \subseteq T
  <2> HIDE DEF T
  <2> QED
    BY <1>12, <1>13, EveryTurn
<1> QED
  BY <1>4, <1>14

\* What synth s puts into the memory.
CreatedIs(m, w, s) ==
  /\ \A q \in GraphicsPlace : (\A i \in DOMAIN Programs[s] : q # Own(<<s, i>>)) =>
       PicturesAt(w, q) = PicturesAt(m, q)
  /\ \A x \in Unit : x[1] = s => MadeAt(m, w, x)
  /\ \A y \in Unit : y[1] # s => Len(w.at[Cmd(y)]) = Len(m.at[Cmd(y)])
  /\ OwnEmpty(m, s) => StillHeld(m, w)

\* What the whole synth makes, stated for its units.
LEMMA CreatedIsOK ==
  ASSUME NEW m, WellFormed(m), NEW s \in Synth
  PROVE  WellFormed(Created(m, s)) /\ CreatedIs(m, Created(m, s), s)
<1> PICK w : w = Created(m, s)
  OBVIOUS
<1>1. Len(Programs[s]) \in Nat /\ DOMAIN Programs[s] = 1..Len(Programs[s])
  BY ProgramAssumption DEF Synth
<1>2. WellFormed(w) /\ CreatedUpTo(m, w, s, Len(Programs[s]))
  BY CreatedOK
<1>3. \A x \in Unit : x[1] = s => x[2] \in DOMAIN Programs[s] /\ x = <<s, x[2]>>
  BY DEF Unit
<1>4. CreatedIs(m, w, s)
  <2>1. \A x \in Unit : x[1] = s => MadeAt(m, w, x)
    BY <1>1, <1>2, <1>3 DEF CreatedUpTo
  <2> QED
    BY <1>1, <1>2, <2>1 DEF CreatedUpTo, CreatedIs
<1> QED
  BY <1>2, <1>4

------------------------------------------------------------------------------
(* What holds of the memory between two actions                            *)

\* A lighting command that has been put out is on or off.
Settled(picture) == picture.kind = "lighting" => picture.on \in {0, 1}

AllSettled(pictures) == \A i \in DOMAIN pictures : Settled(pictures[i])

SharedPlace == {Outs(x) : x \in Unit} \cup {Bus, Past}

\* The units of a synth that is not there hold nothing.
Absent(m, x) == PicturesAt(m, Own(x)) = <<>> /\ PicturesAt(m, Outs(x)) = <<>>

\* here are the synths that are in the tree.
Placed(m, here, x) == IF x[1] \in here THEN Fits(m, x) ELSE Absent(m, x)

\* Every cell is held, units of synths in here have what their constructors
\* made, other units nothing, and shared lighting commands are settled.
MemoryOK(m, here) ==
  /\ WellFormed(m)
  /\ DOMAIN m.graphics = GraphicsHeld(m)
  /\ \A x \in Unit : Placed(m, here, x)
  /\ \A p \in SharedPlace : AllSettled(PicturesAt(m, p))

\* Units share what is put out and the busses; objects are at home.
LEMMA SharedFacts ==
  /\ SharedPlace \subseteq GraphicsPlace
  /\ \A x \in Unit : Own(x) \notin SharedPlace /\ Outs(x) \in SharedPlace
  /\ Bus \in SharedPlace /\ Past \in SharedPlace
  /\ GraphicsPlace = SharedPlace \cup {Own(x) : x \in Unit}
BY PlacesDiffer DEF SharedPlace, GraphicsPlace

\* A place without pictures has no pointers.
LEMMA NothingThere ==
  ASSUME NEW m, WellFormed(m), NEW p \in GraphicsPlace
  PROVE  PicturesAt(m, p) = <<>> <=> m.at[p] = <<>>
<1>1. /\ m.at[p] \in Seq(DOMAIN m.graphics)
      /\ PicturesAt(m, p) \in Seq(PictureSet) /\ Len(PicturesAt(m, p)) = Len(m.at[p])
  BY PlaceTyped
<1> PICK a, b : a = m.at[p] /\ b = PicturesAt(m, p)
  OBVIOUS
<1> PICK n \in Nat : n = Len(a)
  BY <1>1
<1>2. a \in Seq(DOMAIN m.graphics) /\ b \in Seq(PictureSet) /\ Len(a) = n /\ Len(b) = n
  BY <1>1
<1>3. (n = 0 <=> a = <<>>) /\ (n = 0 <=> b = <<>>)
  BY <1>2
<1> QED
  BY <1>3

\* Whether a unit has what it needs depends on what it holds only.
LEMMA FitsSame ==
  ASSUME NEW m, NEW w, NEW x \in Unit, PicturesAt(w, Own(x)) = PicturesAt(m, Own(x)),
         PicturesAt(w, Outs(x)) = PicturesAt(m, Outs(x)),
         Len(w.at[Cmd(x)]) = Len(m.at[Cmd(x)])
  PROVE  \A here : Placed(w, here, x) <=> Placed(m, here, x)
BY DEF Placed, Fits, Absent, HasObject

\* Edits keep the kind of a picture and what is on.
LEMMA EditsSettled ==
  ASSUME NEW p \in PictureSet, NEW v \in Int, Settled(p)
  PROVE  /\ Settled(Values!Moved(p, v)) /\ Settled(Values!Coloured(p, v)) /\ Settled(Values!Faded(p, v))
<1>1. p = [kind |-> p.kind, on |-> p.on, commands |-> p.commands, face |-> p.face]
  BY DEF PictureSet
<1>2. Settled(Values!Moved(p, v))
  BY <1>1 DEF Values!Moved, Settled
<1>3. \A c : Settled(Values!Coloured(p, c))
  BY <1>1 DEF Values!Coloured, Settled
<1> QED
  BY <1>2, <1>3 DEF Values!Faded

\* A maker's picture is of the maker's kind, and settled.
LEMMA RemadeSettled ==
  ASSUME NEW p \in PictureSet, NEW v \in Int
  PROVE  Values!Remade(p, v).kind = p.kind /\ Settled(Values!Remade(p, v))
<1>1. p = [kind |-> p.kind, on |-> p.on, commands |-> p.commands, face |-> p.face]
  BY DEF PictureSet
<1>2. CASE p.kind = "cube"
  BY <1>1, <1>2 DEF Values!Remade, Settled
<1>3. CASE p.kind \in {"quad", "line"}
  BY <1>1, <1>3 DEF Values!Remade, Settled
<1>4. CASE p.kind \notin {"cube", "quad", "line"}
  <2>1. PICK on : on = Values!Switched(p.kind, p.on, v)
    OBVIOUS
  <2>2. Values!Remade(p, v) = [p EXCEPT !.on = on]
    BY <1>4, <2>1 DEF Values!Remade
  <2>3. p.kind = "lighting" => on \in {0, 1}
    BY <2>1 DEF Values!Switched
  <2> QED
    BY <1>1, <2>2, <2>3 DEF Settled
<1> QED
  BY <1>2, <1>3, <1>4

\* Fading keeps what is on.
LEMMA AllFadedSettled ==
  ASSUME NEW s \in Seq(PictureSet), NEW v \in Int, AllSettled(s)
  PROVE  AllSettled(AllFaded(s, v))
<1>1. \A i \in DOMAIN s : s[i] \in PictureSet /\ Settled(s[i])
  BY DEF AllSettled
<1>2. \A i \in DOMAIN s : Settled(Values!Faded(s[i], v))
  BY <1>1, EditsSettled
<1> QED
  BY <1>2 DEF AllFaded, AllSettled

\* Settled pictures behind settled ones.
LEMMA ConcatSettled ==
  ASSUME NEW a \in Seq(PictureSet), NEW b \in Seq(PictureSet), AllSettled(a), AllSettled(b)
  PROVE  AllSettled(a \o b)
<1>1. /\ a \o b \in Seq(PictureSet) /\ Len(a \o b) = Len(a) + Len(b)
      /\ \A i \in 1..Len(a) + Len(b) : (a \o b)[i] = IF i <= Len(a) THEN a[i] ELSE b[i - Len(a)]
  BY ConcatProperties
<1> PICK k \in Nat, n \in Nat : k = Len(a) /\ n = Len(b)
  OBVIOUS
<1> PICK c : c = a \o b
  OBVIOUS
<1>2. /\ DOMAIN c = 1..(k + n)
      /\ \A i \in 1..(k + n) : c[i] = IF i <= k THEN a[i] ELSE b[i - k]
  BY <1>1
<1>3. (\A i \in 1..k : Settled(a[i])) /\ (\A i \in 1..n : Settled(b[i]))
  <2>1. DOMAIN a = 1..k /\ DOMAIN b = 1..n
    OBVIOUS
  <2> QED
    BY <2>1 DEF AllSettled
<1>4. \A i \in 1..(k + n) : Settled(c[i])
  <2> TAKE i \in 1..(k + n)
  <2>1. CASE i <= k
    BY <1>2, <1>3, <2>1
  <2>2. CASE ~(i <= k)
    <3>1. i - k \in 1..n
      BY <2>2
    <3> QED
      BY <1>2, <1>3, <2>2, <3>1
  <2> QED
    BY <2>1, <2>2
<1> QED
  BY <1>2, <1>4 DEF AllSettled

\* What a maker's object is afterwards.
HasMade(m, x, v) ==
  /\ Len(OwnAfter(m, x, v)) = 1 /\ OwnAfter(m, x, v)[1].kind = KindOf(x)
  /\ AllSettled(OwnAfter(m, x, v))

\* What a unit puts out, and writes to the bus, is settled if its inputs are.
LEMMA AfterSettled ==
  ASSUME NEW m, WellFormed(m), \A p \in SharedPlace : AllSettled(PicturesAt(m, p)),
         NEW x \in Unit, Fits(m, x), NEW v \in Int
  PROVE  /\ AllSettled(OutsAfter(m, x, v)) /\ AllSettled(BusAfter(m, x, v))
         /\ KindOf(x) \in Shapes \cup Commands => HasMade(m, x, v)
<1> PICK kind : kind = KindOf(x)
  OBVIOUS
<1>1. \A p \in SharedPlace : PicturesAt(m, p) \in Seq(PictureSet)
  BY PlaceTyped, SharedFacts
<1>2. \A k \in 1..Arity(kind) : In(m, x, k) \in Seq(PictureSet) /\ AllSettled(In(m, x, k))
  BY <1>1, InputFacts, SharedFacts DEF In
<1>3. AllSettled(<<>>)
  BY DEF AllSettled
<1>4. \A k \in 1..Arity(kind) : \A i \in DOMAIN In(m, x, k) :
       In(m, x, k)[i] \in PictureSet /\ Settled(In(m, x, k)[i])
  BY <1>2 DEF AllSettled
<1>5. kind \in Shapes \cup Commands => HasMade(m, x, v)
  <2> SUFFICES ASSUME kind \in Shapes \cup Commands PROVE HasMade(m, x, v)
    OBVIOUS
  <2> PICK s : s = PicturesAt(m, Own(x))
    OBVIOUS
  <2>1. Len(s) = 1 /\ s[1].kind = kind
    BY DEF Fits, HasObject
  <2>2. s \in Seq(PictureSet)
    BY PlaceTyped, PlacesDiffer
  <2>3. s[1] \in PictureSet
    BY <2>1, <2>2
  <2> PICK new : new = Values!Remade(s[1], v)
    OBVIOUS
  <2>4. new.kind = kind /\ Settled(new)
    BY <2>1, <2>3, RemadeSettled
  <2>5. OwnAfter(m, x, v) = <<new>>
    BY DEF OwnAfter
  <2>6. Len(<<new>>) = 1 /\ <<new>>[1] = new /\ DOMAIN <<new>> = {1}
    OBVIOUS
  <2> QED
    BY <2>4, <2>5, <2>6 DEF HasMade, AllSettled
<1>6. AllSettled(OutsAfter(m, x, v))
  <2>1. CASE kind \in Shapes \cup Commands
    <3>1. OutsAfter(m, x, v) = OwnAfter(m, x, v)
      BY <2>1 DEF OutsAfter, Shapes, Commands
    <3> QED
      BY <1>5, <2>1, <3>1 DEF HasMade
  <2>2. CASE kind \in {"translate", "color", "fade"}
    <3>1. 1 \in 1..Arity(kind)
      BY <2>2 DEF Arity
    <3> PICK in : in = In(m, x, 1)
      OBVIOUS
    <3>2. \A i \in DOMAIN in : Settled(Values!Moved(in[i], v)) /\ Settled(Values!Coloured(in[i], v))
                               /\ Settled(Values!Faded(in[i], v))
      BY <1>4, <3>1, EditsSettled
    <3>3. CASE kind = "translate"
      <4>1. OutsAfter(m, x, v) = [i \in DOMAIN in |-> Values!Moved(in[i], v)]
        BY <3>3 DEF OutsAfter, Shapes, Commands
      <4> QED
        BY <3>2, <4>1 DEF AllSettled
    <3>4. CASE kind = "color"
      <4>1. OutsAfter(m, x, v) = [i \in DOMAIN in |-> Values!Coloured(in[i], v)]
        BY <3>4 DEF OutsAfter, Shapes, Commands
      <4> QED
        BY <3>2, <4>1 DEF AllSettled
    <3>5. CASE kind = "fade"
      <4>1. OutsAfter(m, x, v) = [i \in DOMAIN in |-> Values!Faded(in[i], v)]
        BY <3>5 DEF OutsAfter, Shapes, Commands
      <4> QED
        BY <3>2, <4>1 DEF AllSettled
    <3> QED
      BY <2>2, <3>3, <3>4, <3>5
  <2>3. CASE kind = "mix"
    <3>1. 1 \in 1..Arity(kind) /\ 2 \in 1..Arity(kind)
      BY <2>3 DEF Arity
    <3>2. OutsAfter(m, x, v) = In(m, x, 1) \o In(m, x, 2)
      BY <2>3 DEF OutsAfter, Shapes, Commands
    <3>3. AllSettled(In(m, x, 1) \o In(m, x, 2))
      BY <1>2, <3>1, ConcatSettled
    <3> QED
      BY <3>2, <3>3
  <2>4. CASE kind \in {"In", "InFeedback"}
    <3>1. OutsAfter(m, x, v) \in {PicturesAt(m, Bus), PicturesAt(m, Past)}
      BY <2>4 DEF OutsAfter, Shapes, Commands
    <3> QED
      BY <3>1, SharedFacts
  <2>5. CASE kind \notin OutKinds
    <3>1. OutsAfter(m, x, v) = <<>>
      BY <2>5 DEF OutsAfter, OutKinds
    <3> QED
      BY <1>3, <3>1
  <2> QED
    BY <2>1, <2>2, <2>3, <2>4, <2>5 DEF OutKinds
<1>7. AllSettled(BusAfter(m, x, v))
  <2> PICK bus, in : bus = PicturesAt(m, Bus) /\ in = In(m, x, 1)
    OBVIOUS
  <2>1. bus \in Seq(PictureSet) /\ AllSettled(bus)
    BY <1>1, SharedFacts
  <2>2. CASE kind \in {"Out", "ReplaceOut", "XOut"}
    <3>1. in \in Seq(PictureSet) /\ AllSettled(in)
      <4>1. 1 \in 1..Arity(kind)
        BY <2>2 DEF Arity
      <4> QED
        BY <1>2, <4>1
    <3>2. CASE kind = "Out"
      <4>1. BusAfter(m, x, v) = bus \o in
        BY <3>2 DEF BusAfter
      <4> QED
        BY <2>1, <3>1, <4>1, ConcatSettled
    <3>3. CASE kind = "ReplaceOut"
      <4>1. BusAfter(m, x, v) = in
        BY <3>3 DEF BusAfter
      <4> QED
        BY <3>1, <4>1
    <3>4. CASE kind = "XOut"
      <4>1. BusAfter(m, x, v) = AllFaded(bus, 1 - v) \o AllFaded(in, v)
        BY <3>4 DEF BusAfter
      <4> PICK a, b : a = AllFaded(bus, 1 - v) /\ b = AllFaded(in, v)
        OBVIOUS
      <4>2. 1 - v \in Int
        OBVIOUS
      <4>3. a \in Seq(PictureSet) /\ AllSettled(a)
        BY <2>1, <4>2, AllFadedTyped, AllFadedSettled
      <4>4. b \in Seq(PictureSet) /\ AllSettled(b)
        BY <3>1, AllFadedTyped, AllFadedSettled
      <4>5. AllSettled(a \o b)
        BY <4>3, <4>4, ConcatSettled
      <4> QED
        BY <4>1, <4>5
    <3> QED
      BY <2>2, <3>2, <3>3, <3>4
  <2>3. CASE kind \notin {"Out", "ReplaceOut", "XOut"}
    <3>1. BusAfter(m, x, v) = bus
      BY <2>3 DEF BusAfter
    <3> QED
      BY <2>1, <3>1
  <2> QED
    BY <2>2, <2>3
<1> QED
  BY <1>5, <1>6, <1>7

\* What nobody holds is deleted: the places hold what they did.
LEMMA HeldKeeps ==
  ASSUME NEW m, NEW here, WellFormed(m), \A x \in Unit : Placed(m, here, x),
         \A p \in SharedPlace : AllSettled(PicturesAt(m, p))
  PROVE  MemoryOK(Held(m), here) /\ SameHeld(m, Held(m))
<1> PICK h : h = Held(m)
  OBVIOUS
<1>1. WellFormed(h) /\ SameHeld(m, h) /\ DOMAIN h.graphics = GraphicsHeld(m)
  BY HeldOK
<1>2. h.at = m.at /\ \A p \in GraphicsPlace : PicturesAt(h, p) = PicturesAt(m, p)
  BY <1>1 DEF SameHeld
<1>3. GraphicsHeld(h) = GraphicsHeld(m)
  BY <1>2 DEF GraphicsHeld
<1>4. \A x \in Unit : Placed(h, here, x)
  <2> TAKE x \in Unit
  <2>1. /\ PicturesAt(h, Own(x)) = PicturesAt(m, Own(x)) /\ PicturesAt(h, Outs(x)) = PicturesAt(m, Outs(x))
        /\ Len(h.at[Cmd(x)]) = Len(m.at[Cmd(x)])
    BY <1>2, PlacesDiffer
  <2>2. \A e : Placed(h, e, x) <=> Placed(m, e, x)
    BY <2>1, FitsSame
  <2> QED
    BY <2>2
<1>5. \A p \in SharedPlace : AllSettled(PicturesAt(h, p))
  BY <1>2, SharedFacts
<1> QED
  BY <1>1, <1>3, <1>4, <1>5 DEF MemoryOK

\* A unit that runs keeps the memory as it should be.
LEMMA ProcessKeeps ==
  ASSUME NEW m, NEW here, MemoryOK(m, here), NEW x \in Unit, x[1] \in here, NEW v \in Int
  PROVE  LET w == Held(Process(m, x, v))
         IN MemoryOK(w, here) /\ ProcessIs(m, w, x, v)
<1> PICK c : c = Process(m, x, v)
  OBVIOUS
<1>1. WellFormed(m) /\ Fits(m, x) /\ \A p \in SharedPlace : AllSettled(PicturesAt(m, p))
  BY DEF MemoryOK, Placed
<1>2. WellFormed(c) /\ ProcessIs(m, c, x, v)
  BY <1>1, ProcessOK
<1>3. /\ AllSettled(OutsAfter(m, x, v)) /\ AllSettled(BusAfter(m, x, v))
      /\ KindOf(x) \in Shapes \cup Commands => HasMade(m, x, v)
  BY <1>1, AfterSettled
<1>4. \A p \in SharedPlace : AllSettled(PicturesAt(c, p))
  <2> TAKE p \in SharedPlace
  <2>1. CASE p \in {Outs(x), Bus}
    BY <1>2, <1>3, <2>1 DEF ProcessIs
  <2>2. CASE p \notin {Outs(x), Bus}
    <3>1. p \in GraphicsPlace \ {Own(x), Outs(x), Bus}
      BY <2>2, SharedFacts
    <3> QED
      BY <1>1, <1>2, <3>1 DEF ProcessIs
  <2> QED
    BY <2>1, <2>2
<1>5. \A y \in Unit : Placed(c, here, y)
  <2> TAKE y \in Unit
  <2>1. CASE y = x
    <3> PICK kind : kind = KindOf(x)
      OBVIOUS
    <3>1. kind \in Shapes \cup Commands => HasObject(c, x)
      BY <1>2, <1>3 DEF ProcessIs, HasMade, HasObject
    <3>2. kind \notin Shapes \cup Commands => PicturesAt(c, Own(x)) = <<>>
      BY <1>2 DEF ProcessIs, OwnAfter
    <3>3. kind = "translate" => Len(c.at[Cmd(x)]) = 1
      BY <1>1, <1>2 DEF ProcessIs, SameCommands, Fits
    <3>4. kind \notin OutKinds => PicturesAt(c, Outs(x)) = <<>>
      <4>1. kind \notin OutKinds => OutsAfter(m, x, v) = <<>>
        BY DEF OutsAfter, OutKinds
      <4> QED
        BY <1>2, <4>1 DEF ProcessIs
    <3> QED
      BY <2>1, <3>1, <3>2, <3>3, <3>4 DEF Placed, Fits
  <2>2. CASE y # x
    <3>1. Own(y) \in GraphicsPlace \ {Own(x), Outs(x), Bus} /\ Outs(y) \in GraphicsPlace \ {Own(x), Outs(x), Bus}
      BY <2>2, PlacesDiffer
    <3>2. /\ PicturesAt(c, Own(y)) = PicturesAt(m, Own(y)) /\ PicturesAt(c, Outs(y)) = PicturesAt(m, Outs(y))
          /\ Len(c.at[Cmd(y)]) = Len(m.at[Cmd(y)])
      BY <1>2, <3>1 DEF ProcessIs, SameCommands
    <3>3. \A e : Placed(c, e, y) <=> Placed(m, e, y)
      BY <3>2, FitsSame
    <3> QED
      BY <3>3 DEF MemoryOK
  <2> QED
    BY <2>1, <2>2
<1> PICK w : w = Held(c)
  OBVIOUS
<1>6. MemoryOK(w, here) /\ SameHeld(c, w)
  BY <1>2, <1>4, <1>5, HeldKeeps
<1>7. ProcessIs(m, w, x, v)
  <2>1. \A p \in GraphicsPlace : PicturesAt(w, p) = PicturesAt(c, p)
    BY <1>6 DEF SameHeld
  <2>2. \A y \in Unit : w.at[Cmd(y)] = c.at[Cmd(y)]
    BY <1>6 DEF SameHeld
  <2>3. Own(x) \in GraphicsPlace /\ Outs(x) \in GraphicsPlace /\ Bus \in GraphicsPlace
    BY PlacesDiffer
  <2>4. /\ PicturesAt(w, Own(x)) = OwnAfter(m, x, v) /\ PicturesAt(w, Outs(x)) = OutsAfter(m, x, v)
        /\ PicturesAt(w, Bus) = BusAfter(m, x, v)
    BY <1>2, <2>1, <2>3 DEF ProcessIs
  <2>5. \A q \in GraphicsPlace \ {Own(x), Outs(x), Bus} : PicturesAt(w, q) = PicturesAt(m, q)
    BY <1>2, <2>1 DEF ProcessIs
  <2>6. SameCommands(m, w)
    BY <1>2, <2>2 DEF ProcessIs, SameCommands
  <2> QED
    BY <2>4, <2>5, <2>6 DEF ProcessIs
<1> QED
  BY <1>6, <1>7

\* The busses are cleared and swapped.
Begun(m) == Held([m EXCEPT !.at = [@ EXCEPT ![Past] = m.at[Bus], ![Bus] = <<>>]])

\* Past is what the bus was, and the bus is empty.
BegunIs(m, w) ==
  /\ PicturesAt(w, Past) = PicturesAt(m, Bus) /\ PicturesAt(w, Bus) = <<>>
  /\ \A q \in GraphicsPlace \ {Past, Bus} : PicturesAt(w, q) = PicturesAt(m, q)

\* So does the start of a cycle.
LEMMA BegunKeeps ==
  ASSUME NEW m, NEW here, MemoryOK(m, here)
  PROVE  MemoryOK(Begun(m), here) /\ BegunIs(m, Begun(m))
<1> PICK a, c : a = Repoint(m, Past, m.at[Bus]) /\ c = Repoint(a, Bus, <<>>)
  OBVIOUS
<1>0. /\ WellFormed(m) /\ Bus \in GraphicsPlace /\ Past \in GraphicsPlace /\ Bus # Past
      /\ \A p \in SharedPlace : AllSettled(PicturesAt(m, p))
  BY PlacesDiffer DEF MemoryOK
<1>1. Begun(m) = Held(c)
  <2>1. /\ m = [graphics |-> m.graphics, faces |-> m.faces, commands |-> m.commands, at |-> m.at]
        /\ m.at \in [Place -> Seq(Nat)] /\ Past \in Place /\ Bus \in Place
    BY <1>0, MemoryFacts, PlacesDiffer DEF WellFormed
  <2>2. a = [graphics |-> m.graphics, faces |-> m.faces, commands |-> m.commands,
             at |-> [m.at EXCEPT ![Past] = m.at[Bus]]]
    BY <2>1 DEF Repoint
  <2>3. c = [graphics |-> m.graphics, faces |-> m.faces, commands |-> m.commands,
             at |-> [[m.at EXCEPT ![Past] = m.at[Bus]] EXCEPT ![Bus] = <<>>]]
    BY <2>2 DEF Repoint
  <2>4. [m EXCEPT !.at = [@ EXCEPT ![Past] = m.at[Bus], ![Bus] = <<>>]] = c
    <3>0. PICK new : new = [m.at EXCEPT ![Past] = m.at[Bus], ![Bus] = <<>>]
      OBVIOUS
    <3>1. new = [[m.at EXCEPT ![Past] = m.at[Bus]] EXCEPT ![Bus] = <<>>]
      BY <3>0
    <3>2. [m EXCEPT !.at = [@ EXCEPT ![Past] = m.at[Bus], ![Bus] = <<>>]] = [m EXCEPT !.at = new]
      BY <3>0
    <3>3. [m EXCEPT !.at = new] = [graphics |-> m.graphics, faces |-> m.faces, commands |-> m.commands, at |-> new]
      BY <2>1
    <3> QED
      BY <2>3, <3>1, <3>2, <3>3
  <2> QED
    BY <2>4 DEF Begun
<1>2. m.at[Bus] \in Seq(DOMAIN m.graphics)
  BY <1>0, PlaceTyped
<1>3. WellFormed(a) /\ OnlyAt(m, a, Past) /\ Repointed(m, a, Past, m.at[Bus])
  BY <1>0, <1>2, RepointedOK
<1>4. <<>> \in Seq(DOMAIN a.graphics)
  OBVIOUS
<1>5. WellFormed(c) /\ OnlyAt(a, c, Bus) /\ Repointed(a, c, Bus, <<>>)
  BY <1>0, <1>3, <1>4, RepointedOK
<1>6. PicturesAt(c, Bus) = <<>>
  <2>1. PicturesAt(c, Bus) = [i \in DOMAIN <<>> |-> Picture(a, <<>>[i])]
    BY <1>5 DEF Repointed
  <2> QED
    BY <2>1
<1>7. PicturesAt(c, Past) = PicturesAt(m, Bus)
  <2>1. PicturesAt(a, Past) = PicturesAt(m, Bus)
    BY <1>3 DEF Repointed, PicturesAt
  <2> QED
    BY <1>0, <1>5, <2>1 DEF OnlyAt
<1>8. \A q \in GraphicsPlace \ {Past, Bus} : PicturesAt(c, q) = PicturesAt(m, q)
  BY <1>3, <1>5 DEF OnlyAt
<1>9. \A p \in SharedPlace : AllSettled(PicturesAt(c, p))
  <2>1. AllSettled(<<>>)
    BY DEF AllSettled
  <2> TAKE p \in SharedPlace
  <2>2. p \in GraphicsPlace
    BY SharedFacts
  <2> QED
    BY <1>0, <1>6, <1>7, <1>8, <2>1, <2>2, SharedFacts
<1>10. \A x \in Unit : Placed(c, here, x)
  <2> TAKE x \in Unit
  <2>1. Own(x) \in GraphicsPlace \ {Past, Bus} /\ Outs(x) \in GraphicsPlace \ {Past, Bus}
    BY PlacesDiffer
  <2>2. /\ PicturesAt(c, Own(x)) = PicturesAt(m, Own(x)) /\ PicturesAt(c, Outs(x)) = PicturesAt(m, Outs(x))
        /\ Len(c.at[Cmd(x)]) = Len(m.at[Cmd(x)])
    BY <1>3, <1>5, <1>8, <2>1 DEF OnlyAt
  <2>3. \A e : Placed(c, e, x) <=> Placed(m, e, x)
    BY <2>2, FitsSame
  <2> QED
    BY <2>3 DEF MemoryOK
<1> PICK w : w = Held(c)
  OBVIOUS
<1>11. MemoryOK(w, here) /\ SameHeld(c, w)
  BY <1>5, <1>9, <1>10, HeldKeeps
<1>12. BegunIs(m, w)
  BY <1>0, <1>6, <1>7, <1>8, <1>11 DEF BegunIs, SameHeld
<1> QED
  BY <1>1, <1>11, <1>12

\* A synth comes.
LEMMA CreatedKeeps ==
  ASSUME NEW m, NEW here, MemoryOK(m, here), NEW s \in Synth, s \notin here, NEW now, now = here \cup {s}
  PROVE  MemoryOK(Created(m, s), now) /\ CreatedIs(m, Created(m, s), s)
<1> PICK w : w = Created(m, s)
  OBVIOUS
<1>0. WellFormed(m) /\ DOMAIN m.graphics = GraphicsHeld(m)
  BY DEF MemoryOK
<1>1. WellFormed(w) /\ CreatedIs(m, w, s)
  BY <1>0, CreatedIsOK
<1>2. \A x \in Unit : x[1] = s <=> \E i \in DOMAIN Programs[s] : x = <<s, i>>
  BY DEF Unit
<1>3. \A x \in Unit : x[1] = s => PicturesAt(m, Own(x)) = <<>> /\ PicturesAt(m, Outs(x)) = <<>>
  BY DEF MemoryOK, Placed, Absent
<1>4. \A i \in DOMAIN Programs[s] : <<s, i>> \in Unit /\ <<s, i>>[1] = s
  BY DEF Unit
<1>5. OwnEmpty(m, s)
  <2> SUFFICES ASSUME NEW i \in DOMAIN Programs[s] PROVE m.at[Own(<<s, i>>)] = <<>>
    BY DEF OwnEmpty
  <2> PICK x : x = <<s, i>>
    OBVIOUS
  <2>1. x \in Unit /\ Own(x) \in GraphicsPlace /\ PicturesAt(m, Own(x)) = <<>>
    BY <1>3, <1>4, PlacesDiffer
  <2> QED
    BY <1>0, <2>1, NothingThere
<1>6. DOMAIN w.graphics = GraphicsHeld(w)
  BY <1>0, <1>1, <1>5 DEF CreatedIs, StillHeld
<1>7. \A q \in GraphicsPlace : (\A x \in Unit : x[1] = s => q # Own(x)) => PicturesAt(w, q) = PicturesAt(m, q)
  BY <1>1, <1>4 DEF CreatedIs
<1>8. \A p \in SharedPlace : PicturesAt(w, p) = PicturesAt(m, p)
  BY <1>7, SharedFacts
<1>9. \A x \in Unit : Placed(w, now, x)
  <2> TAKE x \in Unit
  <2>1. PicturesAt(w, Outs(x)) = PicturesAt(m, Outs(x))
    BY <1>8, SharedFacts
  <2>2. CASE x[1] = s
    <3>1. MadeAt(m, w, x)
      BY <1>1, <2>2 DEF CreatedIs
    <3>2. PicturesAt(m, Own(x)) = <<>> /\ PicturesAt(w, Outs(x)) = <<>>
      BY <1>3, <2>1, <2>2
    <3>3. KindOf(x) \in Shapes \cup Commands => HasObject(w, x)
      <4> SUFFICES ASSUME KindOf(x) \in Shapes \cup Commands PROVE HasObject(w, x)
        OBVIOUS
      <4> PICK new : new = Values!Made(KindOf(x))
        OBVIOUS
      <4>1. PicturesAt(w, Own(x)) = <<new>>
        BY <3>1 DEF MadeAt
      <4>2. new.kind = KindOf(x)
        <5>1. Shapes \cap Commands = {}
          BY DEF Shapes, Commands
        <5> QED
          BY <5>1, MadeShape, MadeCommand
      <4> QED
        BY <4>1, <4>2 DEF HasObject
    <3> QED
      BY <2>2, <3>1, <3>2, <3>3 DEF Placed, Fits, MadeAt
  <2>3. CASE x[1] # s
    <3>1. Own(x) \in GraphicsPlace /\ \A y \in Unit : y[1] = s => Own(x) # Own(y)
      BY <2>3, PlacesDiffer
    <3>2. PicturesAt(w, Own(x)) = PicturesAt(m, Own(x))
      BY <1>7, <3>1
    <3>3. Len(w.at[Cmd(x)]) = Len(m.at[Cmd(x)])
      BY <1>1, <2>3 DEF CreatedIs
    <3>4. \A e : Placed(w, e, x) <=> Placed(m, e, x)
      BY <2>1, <3>2, <3>3, FitsSame
    <3>5. Placed(w, here, x)
      BY <3>4 DEF MemoryOK
    <3>6. x[1] \in now <=> x[1] \in here
      BY <2>3
    <3> QED
      BY <3>5, <3>6 DEF Placed
  <2> QED
    BY <2>2, <2>3
<1>10. MemoryOK(w, now)
  BY <1>1, <1>6, <1>8, <1>9 DEF MemoryOK
<1> QED
  BY <1>1, <1>10

\* A synth goes.
LetGo(m, mine) == [m EXCEPT !.at = [p \in Place |-> IF p \in mine THEN <<>> ELSE @[p]]]

\* The places mine are empty, and no other one changes.
LetGoIs(m, w, mine) ==
  /\ \A q \in GraphicsPlace : PicturesAt(w, q) = IF q \in mine THEN <<>> ELSE PicturesAt(m, q)
  /\ \A x \in Unit : Cmd(x) \notin mine => Len(w.at[Cmd(x)]) = Len(m.at[Cmd(x)])

\* Places that let go of their pointers hold nothing, the others what they did.
LEMMA LetGoOK ==
  ASSUME NEW m, WellFormed(m), NEW mine
  PROVE  WellFormed(LetGo(m, mine)) /\ LetGoIs(m, LetGo(m, mine), mine)
<1> PICK w : w = LetGo(m, mine)
  OBVIOUS
<1>1. /\ m.at \in [Place -> Seq(Nat)] /\ Linked(m) /\ Finite(m) /\ m \in Memories
      /\ m = [graphics |-> m.graphics, faces |-> m.faces, commands |-> m.commands, at |-> m.at]
  BY MemoryFacts DEF WellFormed
<1>2. PICK new : new = [p \in Place |-> IF p \in mine THEN <<>> ELSE m.at[p]]
  OBVIOUS
<1>3. w = [graphics |-> m.graphics, faces |-> m.faces, commands |-> m.commands, at |-> new]
  <2>1. w = [m EXCEPT !.at = new]
    BY <1>2 DEF LetGo
  <2> QED
    BY <1>1, <2>1
<1>4. w.graphics = m.graphics /\ w.faces = m.faces /\ w.commands = m.commands /\ w.at = new
  BY <1>3
<1>5. \A p \in Place : w.at[p] = IF p \in mine THEN <<>> ELSE m.at[p]
  BY <1>2, <1>4
<1>6. \A p \in Place : m.at[p] \in Seq(Nat)
  BY <1>1
<1>7. new \in [Place -> Seq(Nat)]
  BY <1>2, <1>6
<1>8. w \in Memories
  BY <1>1, <1>3, <1>7 DEF Memories
<1>9. \A p \in Place : \A i \in DOMAIN w.at[p] : i \in DOMAIN m.at[p] /\ w.at[p][i] = m.at[p][i]
  <2> SUFFICES ASSUME NEW p \in Place, NEW i \in DOMAIN w.at[p]
               PROVE  i \in DOMAIN m.at[p] /\ w.at[p][i] = m.at[p][i]
    OBVIOUS
  <2>1. DOMAIN <<>> = {}
    OBVIOUS
  <2> QED
    BY <1>5, <2>1
<1>10. Linked(w)
  <2>1. \A p \in GraphicsPlace : \A i \in DOMAIN w.at[p] : w.at[p][i] \in DOMAIN w.graphics
    BY <1>1, <1>4, <1>9, PlacesDiffer DEF Linked
  <2>2. \A x \in Unit : \A i \in DOMAIN w.at[Cmd(x)] : w.at[Cmd(x)][i] \in DOMAIN w.commands
    BY <1>1, <1>4, <1>9, PlacesDiffer DEF Linked
  <2> QED
    BY <1>1, <1>4, <2>1, <2>2 DEF Linked, IsShape
<1>11. WellFormed(w)
  BY <1>1, <1>4, <1>8, <1>10 DEF WellFormed, Finite
<1>12. \A r : Picture(w, r) = Picture(m, r)
  BY <1>4 DEF Picture
<1>13. LetGoIs(m, w, mine)
  <2>1. \A q \in GraphicsPlace : PicturesAt(w, q) = IF q \in mine THEN <<>> ELSE PicturesAt(m, q)
    <3> TAKE q \in GraphicsPlace
    <3>0. q \in Place
      BY PlacesDiffer
    <3>1. CASE q \in mine
      <4>1. w.at[q] = <<>>
        BY <1>5, <3>0, <3>1
      <4>2. PicturesAt(w, q) = <<>>
        BY <1>11, <4>1, NothingThere
      <4> QED
        BY <3>1, <4>2
    <3>2. CASE q \notin mine
      <4>1. w.at[q] = m.at[q]
        BY <1>5, <3>0, <3>2
      <4> QED
        BY <1>12, <3>2, <4>1, PicturesAtSame
    <3> QED
      BY <3>1, <3>2
  <2>2. \A x \in Unit : Cmd(x) \notin mine => Len(w.at[Cmd(x)]) = Len(m.at[Cmd(x)])
    BY <1>5, PlacesDiffer
  <2> QED
    BY <2>1, <2>2 DEF LetGoIs
<1> QED
  BY <1>11, <1>13

\* What n_free leaves when synth s goes.
Freed(m, s) == Held(LetGo(m, PlacesOf(s)))

\* Its units hold nothing; other units and the busses what they held.
FreedIs(m, w, s) ==
  /\ \A q \in {Bus, Past} : PicturesAt(w, q) = PicturesAt(m, q)
  /\ \A x \in Unit : IF x[1] = s THEN Absent(w, x)
                     ELSE /\ PicturesAt(w, Own(x)) = PicturesAt(m, Own(x))
                          /\ PicturesAt(w, Outs(x)) = PicturesAt(m, Outs(x))

\* The places of a synth are those of its units; no bus is among them.
LEMMA MineFacts ==
  ASSUME NEW s
  PROVE  /\ Bus \notin PlacesOf(s) /\ Past \notin PlacesOf(s)
         /\ \A x \in Unit : /\ Own(x) \in PlacesOf(s) <=> x[1] = s
                            /\ Outs(x) \in PlacesOf(s) <=> x[1] = s
                            /\ Cmd(x) \in PlacesOf(s) <=> x[1] = s
BY DEF PlacesOf, Bus, Past, Own, Outs, Cmd

\* Pictures of a freed synth stay on the busses for as long as they hold them,
\* and the memory is as it should be (synth.cc, cow_ptr.h).
LEMMA FreedKeeps ==
  ASSUME NEW m, NEW here, MemoryOK(m, here), NEW s, NEW now, now = here \ {s}
  PROVE  MemoryOK(Freed(m, s), now) /\ FreedIs(m, Freed(m, s), s)
<1> PICK mine, c : mine = PlacesOf(s) /\ c = LetGo(m, mine)
  OBVIOUS
<1>0. WellFormed(m) /\ \A p \in SharedPlace : AllSettled(PicturesAt(m, p))
  BY DEF MemoryOK
<1>1. WellFormed(c) /\ LetGoIs(m, c, mine)
  BY <1>0, LetGoOK
<1>2. /\ Bus \notin mine /\ Past \notin mine
      /\ \A x \in Unit : /\ Own(x) \in mine <=> x[1] = s
                         /\ Outs(x) \in mine <=> x[1] = s
                         /\ Cmd(x) \in mine <=> x[1] = s
  BY MineFacts
<1>3. FreedIs(m, c, s)
  BY <1>1, <1>2, PlacesDiffer DEF LetGoIs, FreedIs, Absent
<1>4. \A p \in SharedPlace : AllSettled(PicturesAt(c, p))
  <2>1. AllSettled(<<>>)
    BY DEF AllSettled
  <2>2. \A p \in GraphicsPlace : PicturesAt(c, p) \in {<<>>, PicturesAt(m, p)}
    BY <1>1 DEF LetGoIs
  <2> QED
    BY <1>0, <2>1, <2>2, SharedFacts
<1>5. \A x \in Unit : Placed(c, now, x)
  <2> TAKE x \in Unit
  <2>1. CASE x[1] = s
    BY <1>3, <2>1 DEF FreedIs, Placed
  <2>2. CASE x[1] # s
    <3>1. Len(c.at[Cmd(x)]) = Len(m.at[Cmd(x)])
      BY <1>1, <1>2, <2>2 DEF LetGoIs
    <3>2. PicturesAt(c, Own(x)) = PicturesAt(m, Own(x)) /\ PicturesAt(c, Outs(x)) = PicturesAt(m, Outs(x))
      BY <1>3, <2>2 DEF FreedIs
    <3>3. \A e : Placed(c, e, x) <=> Placed(m, e, x)
      BY <3>1, <3>2, FitsSame
    <3>4. Placed(c, here, x)
      BY <3>3 DEF MemoryOK
    <3>5. x[1] \in now <=> x[1] \in here
      BY <2>2
    <3> QED
      BY <3>4, <3>5 DEF Placed
  <2> QED
    BY <2>1, <2>2
<1> PICK w : w = Held(c)
  OBVIOUS
<1>6. MemoryOK(w, now) /\ SameHeld(c, w)
  BY <1>1, <1>4, <1>5, HeldKeeps
<1>7. \A p \in GraphicsPlace : PicturesAt(w, p) = PicturesAt(c, p)
  BY <1>6 DEF SameHeld
<1>8. FreedIs(m, w, s)
  BY <1>3, <1>7, PlacesDiffer DEF FreedIs, Absent
<1> QED
  BY <1>6, <1>8 DEF Freed

------------------------------------------------------------------------------
(* What a window draws                                                     *)

\* A state of GL, field by field.
Fields(g) == [blend |-> g.blend, cull |-> g.cull, lit |-> g.lit, depth |-> g.depth,
              flat |-> g.flat, shader |-> g.shader]

LEMMA GLFields ==
  ASSUME NEW g \in GLState
  PROVE  /\ g = Fields(g)
         /\ g.blend \in BOOLEAN /\ g.cull \in BOOLEAN /\ g.lit \in BOOLEAN
         /\ g.depth \in BOOLEAN /\ g.flat \in BOOLEAN /\ g.shader \in BOOLEAN
BY DEF GLState, Fields

\* A frame starts without blending, with culling and light as the window has
\* them.  It does not ask for the depth test, smooth shading or a shader.
Start(g, c) ==
  LET flattened == g.flat \/ c.clear
  IN [blend |-> FALSE, cull |-> c.culling, lit |-> c.lighting, depth |-> g.depth,
      flat |-> flattened, shader |-> g.shader]

LEMMA FrameStartTyped ==
  ASSUME NEW g \in GLState, NEW c \in Controls
  PROVE  FrameStart(g, c) \in GLState /\ FrameStart(g, c) = Start(g, c)
<1>1. /\ g = Fields(g) /\ g.depth \in BOOLEAN /\ g.flat \in BOOLEAN /\ g.shader \in BOOLEAN
  BY GLFields
<1>2. c.lighting \in BOOLEAN /\ c.culling \in BOOLEAN /\ c.clear \in BOOLEAN
  BY DEF Controls
<1>3. PICK flattened \in BOOLEAN : flattened = (g.flat \/ c.clear)
  OBVIOUS
<1>4. FrameStart(g, c) = [g EXCEPT !.blend = FALSE, !.lit = c.lighting, !.cull = c.culling, !.flat = flattened]
  BY <1>3 DEF FrameStart
<1>5. Start(g, c) = [blend |-> FALSE, cull |-> c.culling, lit |-> c.lighting, depth |-> g.depth,
                     flat |-> flattened, shader |-> g.shader]
  BY <1>3 DEF Start
<1>6. FrameStart(g, c) = Start(g, c)
  BY <1>1, <1>4, <1>5 DEF Fields
<1>7. Start(g, c) \in GLState
  BY <1>1, <1>2, <1>5 DEF GLState
<1> QED
  BY <1>6, <1>7

\* What a visit changes.
Visiting(g, c, p) ==
  LET lights == p.on = 1 /\ c.lighting
      blends == p.on = 1 /\ c.transparency
      culls  == p.on # 0
      shades == p.on = 1
  IN [blend |-> IF p.kind = "blending" THEN blends ELSE g.blend,
      cull  |-> IF p.kind = "blending" /\ blends THEN FALSE
                ELSE IF p.kind = "culling" /\ p.on \in Modes THEN culls ELSE g.cull,
      lit   |-> IF p.kind = "lighting" THEN lights
                ELSE IF p.kind = "line" /\ c.lighting THEN TRUE ELSE g.lit,
      depth |-> IF p.kind = "blending" /\ blends THEN FALSE ELSE g.depth,
      flat  |-> IF p.kind = "blending" /\ blends THEN TRUE ELSE g.flat,
      shader |-> IF p.kind = "shader" THEN shades ELSE g.shader]

\* Visit, field by field.
LEMMA VisitIs ==
  ASSUME NEW g \in GLState, NEW c \in Controls, NEW p
  PROVE  Visit(g, c, p) = Visiting(g, c, p) /\ Visit(g, c, p) \in GLState
<1>1. /\ g = Fields(g)
      /\ g.blend \in BOOLEAN /\ g.cull \in BOOLEAN /\ g.lit \in BOOLEAN
      /\ g.depth \in BOOLEAN /\ g.flat \in BOOLEAN /\ g.shader \in BOOLEAN
  BY GLFields
<1>2. PICK lights \in BOOLEAN, blends \in BOOLEAN, culls \in BOOLEAN, shades \in BOOLEAN :
        /\ lights = (p.on = 1 /\ c.lighting) /\ blends = (p.on = 1 /\ c.transparency) /\ culls = (p.on # 0)
        /\ shades = (p.on = 1)
  OBVIOUS
<1>3. CASE p.kind = "blending" /\ blends
  <2>1. Visit(g, c, p) = [g EXCEPT !.blend = TRUE, !.cull = FALSE, !.depth = FALSE, !.flat = TRUE]
    BY <1>2, <1>3 DEF Visit
  <2>2. Visiting(g, c, p) = [blend |-> TRUE, cull |-> FALSE, lit |-> g.lit, depth |-> FALSE,
                             flat |-> TRUE, shader |-> g.shader]
    BY <1>2, <1>3 DEF Visiting
  <2> QED
    BY <1>1, <2>1, <2>2 DEF GLState, Fields
<1>4. CASE p.kind = "blending" /\ ~blends
  <2>1. Visit(g, c, p) = [g EXCEPT !.blend = FALSE]
    BY <1>2, <1>4 DEF Visit
  <2>2. Visiting(g, c, p) = [blend |-> FALSE, cull |-> g.cull, lit |-> g.lit, depth |-> g.depth,
                             flat |-> g.flat, shader |-> g.shader]
    BY <1>2, <1>4 DEF Visiting
  <2> QED
    BY <1>1, <2>1, <2>2 DEF GLState, Fields
<1>5. CASE p.kind = "lighting"
  <2>1. Visit(g, c, p) = [g EXCEPT !.lit = lights]
    BY <1>2, <1>5 DEF Visit
  <2>2. Visiting(g, c, p) = [blend |-> g.blend, cull |-> g.cull, lit |-> lights, depth |-> g.depth,
                             flat |-> g.flat, shader |-> g.shader]
    BY <1>2, <1>5 DEF Visiting
  <2> QED
    BY <1>1, <2>1, <2>2 DEF GLState, Fields
<1>6. CASE p.kind = "culling" /\ p.on \in Modes
  <2>1. Visit(g, c, p) = [g EXCEPT !.cull = culls]
    BY <1>2, <1>6 DEF Visit
  <2>2. Visiting(g, c, p) = [blend |-> g.blend, cull |-> culls, lit |-> g.lit, depth |-> g.depth,
                             flat |-> g.flat, shader |-> g.shader]
    BY <1>2, <1>6 DEF Visiting
  <2> QED
    BY <1>1, <2>1, <2>2 DEF GLState, Fields
<1>7. CASE p.kind = "line"
  <2>1. Visit(g, c, p) = IF c.lighting THEN [g EXCEPT !.lit = TRUE] ELSE g
    BY <1>7 DEF Visit, DrawLine
  <2>2. Visiting(g, c, p) = [blend |-> g.blend, cull |-> g.cull, lit |-> IF c.lighting THEN TRUE ELSE g.lit,
                             depth |-> g.depth, flat |-> g.flat, shader |-> g.shader]
    BY <1>7 DEF Visiting
  <2> QED
    BY <1>1, <2>1, <2>2 DEF GLState, Fields
<1>8. CASE p.kind = "shader"
  <2>1. Visit(g, c, p) = [g EXCEPT !.shader = shades]
    BY <1>2, <1>8 DEF Visit, VisitShader
  <2>2. Visiting(g, c, p) = [blend |-> g.blend, cull |-> g.cull, lit |-> g.lit, depth |-> g.depth,
                             flat |-> g.flat, shader |-> shades]
    BY <1>2, <1>8 DEF Visiting
  <2> QED
    BY <1>1, <2>1, <2>2 DEF GLState, Fields
<1>9. CASE p.kind \notin {"blending", "lighting", "line", "shader"} /\ ~(p.kind = "culling" /\ p.on \in Modes)
  <2>1. Visit(g, c, p) = g
    BY <1>9 DEF Visit
  <2>2. Visiting(g, c, p) = Fields(g)
    BY <1>9 DEF Visiting, Fields
  <2> QED
    BY <1>1, <2>1, <2>2
<1> QED
  BY <1>3, <1>4, <1>5, <1>6, <1>7, <1>8, <1>9

\* The state is visited picture by picture.
VisitedIs(g, c, pictures, after) ==
  /\ after \in [0..Len(pictures) -> GLState] /\ after[0] = FrameStart(g, c)
  /\ \A i \in 1..Len(pictures) : after[i] = Visit(after[i - 1], c, pictures[i])

\* The states of a frame, one after the other: by induction.
LEMMA VisitedOK ==
  ASSUME NEW g \in GLState, NEW c \in Controls, NEW pictures, Len(pictures) \in Nat
  PROVE  VisitedIs(g, c, pictures, Visited(g, c, pictures))
<1> PICK n \in Nat : n = Len(pictures)
  OBVIOUS
<1> PICK start : start = FrameStart(g, c)
  OBVIOUS
<1> DEFINE turn == [i \in 1..n |-> [e \in GLState |-> Visit(e, c, pictures[i])]]
           Body(h) == [i \in 0..n |-> IF i = 0 THEN start ELSE Visit(h[i - 1], c, pictures[i])]
           after == CHOOSE h : h = Body(h)
<1>1. start \in GLState
  BY FrameStartTyped
<1>2. turn \in [1..n -> [GLState -> GLState]]
  BY VisitIs
<1>3. PICK f \in Loops(GLState, start, n, turn) : TRUE
  <2> HIDE DEF turn
  <2> QED
    BY <1>1, <1>2, TurnsAdd
<1>4. f \in [0..n -> GLState] /\ f[0] = start /\ \A i \in 1..n : f[i] = turn[i][f[i - 1]]
  BY <1>3 DEF Loops
<1>5. \A i \in 1..n : f[i] = Visit(f[i - 1], c, pictures[i])
  <2> TAKE i \in 1..n
  <2>1. f[i - 1] \in GLState
    BY <1>4
  <2> QED
    BY <1>4, <2>1
<1>6. f = Body(f)
  <2>1. f = [i \in 0..n |-> f[i]]
    BY <1>4
  <2>2. \A i \in 0..n : f[i] = IF i = 0 THEN start ELSE Visit(f[i - 1], c, pictures[i])
    <3> TAKE i \in 0..n
    <3>1. i # 0 => i \in 1..n
      OBVIOUS
    <3> QED
      BY <1>4, <1>5, <3>1
  <2> QED
    BY <2>1, <2>2
<1>7. after = Body(after)
  BY <1>6
<1>8. Visited(g, c, pictures) = after
  BY DEF Visited
<1> HIDE DEF turn
<1>9. PICK h : h = after
  OBVIOUS
<1>10. h = [i \in 0..n |-> IF i = 0 THEN start ELSE Visit(h[i - 1], c, pictures[i])]
  BY <1>7, <1>9
<1> HIDE DEF after, Body
<1>11. h[0] = start /\ \A i \in 1..n : h[i] = Visit(h[i - 1], c, pictures[i])
  BY <1>10
<1>12. h \in [0..n -> GLState]
  <2> DEFINE T == {i \in 0..n : h[i] \in GLState}
  <2>1. 0 \in T /\ \A i \in 1..n : i - 1 \in T => i \in T
    BY <1>1, <1>11, VisitIs
  <2>2. 0..n \subseteq T
    <3> HIDE DEF T
    <3> QED
      BY <2>1, EveryTurn
  <2>3. h = [i \in 0..n |-> h[i]]
    BY <1>10
  <2> QED
    BY <2>2, <2>3
<1> QED
  BY <1>8, <1>9, <1>11, <1>12 DEF VisitedIs

\* What a frame leaves is a state of GL.
LEMMA FrameEndTyped ==
  ASSUME NEW g \in GLState, NEW c \in Controls, NEW pictures, Len(pictures) \in Nat
  PROVE  FrameEnd(g, c, pictures) \in GLState
<1> PICK after : after = Visited(g, c, pictures)
  OBVIOUS
<1>1. VisitedIs(g, c, pictures, after)
  BY VisitedOK
<1>2. after[Len(pictures)] \in GLState
  BY <1>1 DEF VisitedIs
<1> QED
  BY <1>2 DEF FrameEnd, GLState

\* The context y has not been used before: blending, culling and light are the
\* same in x, the depth test and smooth shading may be lost.
Like(x, y) ==
  /\ x.blend = y.blend /\ x.cull = y.cull /\ x.lit = y.lit
  /\ x.depth => y.depth
  /\ y.flat => x.flat

\* The depth test and smooth shading are lost to blending only.
LEMMA OnlyBlendingLoses ==
  ASSUME NEW g, NEW c, NEW p, ~(p.kind = "blending" /\ p.on = 1 /\ c.transparency)
  PROVE  Visiting(g, c, p).depth = g.depth /\ Visiting(g, c, p).flat = g.flat
<1>1. Visiting(g, c, p).depth =
        IF p.kind = "blending" /\ (p.on = 1 /\ c.transparency) THEN FALSE ELSE g.depth
  BY DEF Visiting
<1>2. Visiting(g, c, p).flat =
        IF p.kind = "blending" /\ (p.on = 1 /\ c.transparency) THEN TRUE ELSE g.flat
  BY DEF Visiting
<1> QED
  BY <1>1, <1>2, Zenon

\* A picture does the same to both, and a shader command is the end of the
\* program that was left.
LEMMA VisitAlike ==
  ASSUME NEW x \in GLState, NEW y \in GLState, NEW c \in Controls, NEW p, Like(x, y)
  PROVE  /\ Like(Visit(x, c, p), Visit(y, c, p))
         /\ p.kind = "shader" \/ x.shader = y.shader => Visit(x, c, p).shader = Visit(y, c, p).shader
<1> PICK u, w : u = Visit(x, c, p) /\ w = Visit(y, c, p)
  OBVIOUS
<1>1. u = Visiting(x, c, p) /\ w = Visiting(y, c, p)
  BY VisitIs
<1>2. x.blend = y.blend /\ x.cull = y.cull /\ x.lit = y.lit
  BY DEF Like
<1>3. u.blend = w.blend /\ u.cull = w.cull /\ u.lit = w.lit
  BY <1>1, <1>2 DEF Visiting
<1>4. p.kind = "shader" \/ x.shader = y.shader => u.shader = w.shader
  BY <1>1 DEF Visiting
<1>5. (u.depth => w.depth) /\ (w.flat => u.flat)
  <2>1. CASE p.kind = "blending" /\ p.on = 1 /\ c.transparency
    <3>1. u.depth = FALSE /\ u.flat = TRUE
      BY <1>1, <2>1 DEF Visiting
    <3> QED
      BY <3>1
  <2>2. CASE ~(p.kind = "blending" /\ p.on = 1 /\ c.transparency)
    <3>1. u.depth = x.depth /\ u.flat = x.flat /\ w.depth = y.depth /\ w.flat = y.flat
      BY <1>1, <2>2, OnlyBlendingLoses
    <3> QED
      BY <3>1 DEF Like
  <2> QED
    BY <2>1, <2>2
<1> QED
  BY <1>3, <1>4, <1>5 DEF Like

\* One of the first i pictures is a shader command.
Shaded(pictures, i) == \E j \in 1..i : pictures[j].kind = "shader"

\* Frames are alike whatever the context was left in.
LEMMA FramesAlike ==
  ASSUME NEW g \in GLState, NEW c \in Controls, NEW pictures, Len(pictures) \in Nat
  PROVE  \A i \in 0..Len(pictures) :
           /\ Like(Visited(g, c, pictures)[i], Visited(NewGL, c, pictures)[i])
           /\ Shaded(pictures, i) =>
                Visited(g, c, pictures)[i].shader = Visited(NewGL, c, pictures)[i].shader
<1> PICK a, b : a = Visited(g, c, pictures) /\ b = Visited(NewGL, c, pictures)
  OBVIOUS
<1> PICK n \in Nat : n = Len(pictures)
  OBVIOUS
<1>0. NewGL \in GLState
  BY DEF NewGL, GLState
<1>1. VisitedIs(g, c, pictures, a) /\ VisitedIs(NewGL, c, pictures, b)
  BY <1>0, VisitedOK
<1>2. /\ a \in [0..n -> GLState] /\ a[0] = FrameStart(g, c)
      /\ \A i \in 1..n : a[i] = Visit(a[i - 1], c, pictures[i])
      /\ b \in [0..n -> GLState] /\ b[0] = FrameStart(NewGL, c)
      /\ \A i \in 1..n : b[i] = Visit(b[i - 1], c, pictures[i])
  BY <1>1 DEF VisitedIs
<1> DEFINE T == {i \in 0..n : /\ Like(a[i], b[i])
                              /\ Shaded(pictures, i) => a[i].shader = b[i].shader}
<1>3. 0 \in T
  <2> PICK x, y : x = a[0] /\ y = b[0]
    OBVIOUS
  <2>1. x = Start(g, c) /\ y = Start(NewGL, c)
    BY <1>0, <1>2, FrameStartTyped
  <2>2. x.blend = y.blend /\ x.cull = y.cull /\ x.lit = y.lit
    BY <2>1 DEF Start
  <2>3. x.depth => y.depth
    BY <2>1 DEF Start, NewGL
  <2>4. y.flat => x.flat
    <3>1. x.flat = (g.flat \/ c.clear) /\ y.flat = (FALSE \/ c.clear)
      BY <2>1 DEF Start, NewGL
    <3> QED
      BY <3>1, Zenon
  <2>5. ~Shaded(pictures, 0)
    BY DEF Shaded
  <2> QED
    BY <2>2, <2>3, <2>4, <2>5 DEF Like
<1>4. ASSUME NEW i \in 1..n, i - 1 \in T
      PROVE  i \in T
  <2> PICK x, y, p : x = a[i - 1] /\ y = b[i - 1] /\ p = pictures[i]
    OBVIOUS
  <2>1. x \in GLState /\ y \in GLState /\ Like(x, y)
    BY <1>2, <1>4
  <2>2. a[i] = Visit(x, c, p) /\ b[i] = Visit(y, c, p)
    BY <1>2
  <2>3. /\ Like(a[i], b[i])
        /\ p.kind = "shader" \/ x.shader = y.shader => a[i].shader = b[i].shader
    BY <2>1, <2>2, VisitAlike
  <2>4. Shaded(pictures, i) => p.kind = "shader" \/ Shaded(pictures, i - 1)
    <3>1. \A j \in 1..i : j = i \/ j \in 1..i - 1
      OBVIOUS
    <3> QED
      BY <3>1, Zenon DEF Shaded
  <2>5. Shaded(pictures, i - 1) => x.shader = y.shader
    BY <1>4
  <2>6. i \in 0..n
    OBVIOUS
  <2> QED
    BY <2>3, <2>4, <2>5, <2>6
<1>5. 0..n \subseteq T
  <2> HIDE DEF T
  <2> QED
    BY <1>3, <1>4, EveryTurn
<1> QED
  BY <1>5

\* A window draws the pictures of a bus, from the state its context was left in.
Window(d) ==
  d = <<>> \/ \E g \in GLState, c \in Controls, pictures \in Seq(PictureSet) :
                AllSettled(pictures) /\ d = Drawn(g, c, pictures)

\* A frame, picture by picture.
LEMMA DrawnIs ==
  ASSUME NEW g \in GLState, NEW c \in Controls, NEW pictures \in Seq(PictureSet),
         NEW n \in Nat, n = Len(pictures)
  PROVE  LET d == Drawn(g, c, pictures)
         IN /\ DOMAIN d = 1..n
            /\ \A i \in 1..n : /\ d[i].picture = pictures[i] /\ d[i].controls = c
                               /\ d[i].state = While(Visited(g, c, pictures)[i - 1], c, pictures[i])
BY DEF Drawn

\* What is different while a line is drawn is the same in both.
LEMMA WhileAlike ==
  ASSUME NEW x \in GLState, NEW y \in GLState, NEW c \in Controls, NEW p, Like(x, y)
  PROVE  /\ Like(While(x, c, p), While(y, c, p))
         /\ While(x, c, p).shader = x.shader /\ While(y, c, p).shader = y.shader
<1>1. CASE p.kind = "line" /\ c.lighting
  <2> PICK u, w : u = While(x, c, p) /\ w = While(y, c, p)
    OBVIOUS
  <2>1. u = [x EXCEPT !.lit = FALSE] /\ w = [y EXCEPT !.lit = FALSE]
    BY <1>1 DEF While
  <2>2. x = Fields(x) /\ y = Fields(y)
    BY GLFields
  <2>3. /\ u.blend = x.blend /\ u.cull = x.cull /\ u.lit = FALSE /\ u.depth = x.depth
        /\ u.flat = x.flat /\ u.shader = x.shader
        /\ w.blend = y.blend /\ w.cull = y.cull /\ w.lit = FALSE /\ w.depth = y.depth
        /\ w.flat = y.flat /\ w.shader = y.shader
    BY <2>1, <2>2 DEF Fields
  <2>4. Like(u, w)
    BY <2>3 DEF Like
  <2> QED
    BY <2>3, <2>4
<1>2. CASE ~(p.kind = "line" /\ c.lighting)
  BY <1>2 DEF While
<1> QED
  BY <1>1, <1>2

\* So a frame is what it would be in a new window, but for what outlives frames.
LEMMA WindowsAlike ==
  ASSUME Window(drawn)
  PROVE  FramesAreIndependent
<1> SUFFICES ASSUME drawn # <<>>
             PROVE  LET pictures == [i \in DOMAIN drawn |-> drawn[i].picture]
                        afresh   == Drawn(NewGL, drawn[1].controls, pictures)
                    IN \A i \in DOMAIN drawn :
                         /\ Like(drawn[i].state, afresh[i].state)
                         /\ (\E j \in 1..i - 1 : pictures[j].kind = "shader") =>
                              drawn[i].state.shader = afresh[i].state.shader
  BY DEF FramesAreIndependent, Like
<1>1. PICK g \in GLState, c \in Controls, pictures \in Seq(PictureSet) : drawn = Drawn(g, c, pictures)
  BY DEF Window
<1> PICK n \in Nat : n = Len(pictures)
  OBVIOUS
<1> PICK d : d = drawn
  OBVIOUS
<1> PICK a, b : a = Visited(g, c, pictures) /\ b = Visited(NewGL, c, pictures)
  OBVIOUS
<1>2. /\ DOMAIN d = 1..n
      /\ \A i \in 1..n : /\ d[i].picture = pictures[i] /\ d[i].controls = c
                         /\ d[i].state = While(a[i - 1], c, pictures[i])
  BY <1>1, DrawnIs
<1>3. n # 0
  <2> SUFFICES ASSUME n = 0 PROVE FALSE
    OBVIOUS
  <2>1. 1..n = {}
    OBVIOUS
  <2>2. DOMAIN d = {}
    BY <1>2, <2>1
  <2>3. d = [i \in DOMAIN d |-> d[i]]
    BY <1>1 DEF Drawn
  <2>4. d = <<>>
    BY <2>2, <2>3
  <2> QED
    BY <2>4
<1>4. d[1].controls = c /\ pictures = [i \in DOMAIN d |-> d[i].picture]
  <2>1. pictures = [i \in 1..n |-> pictures[i]]
    OBVIOUS
  <2>2. [i \in DOMAIN d |-> d[i].picture] = [i \in 1..n |-> pictures[i]]
    BY <1>2
  <2>3. 1 \in 1..n
    BY <1>3
  <2>4. d[1].controls = c
    BY <1>2, <2>3
  <2> QED
    BY <2>1, <2>2, <2>4
<1>5. NewGL \in GLState
  BY DEF NewGL, GLState
<1>6. \A i \in 0..n : /\ a[i] \in GLState /\ b[i] \in GLState /\ Like(a[i], b[i])
                      /\ Shaded(pictures, i) => a[i].shader = b[i].shader
  <2>1. VisitedIs(g, c, pictures, a) /\ VisitedIs(NewGL, c, pictures, b)
    BY <1>5, VisitedOK
  <2>2. \A i \in 0..n : /\ Like(a[i], b[i])
                        /\ Shaded(pictures, i) => a[i].shader = b[i].shader
    BY FramesAlike
  <2> QED
    BY <2>1, <2>2 DEF VisitedIs
<1> PICK e : e = Drawn(NewGL, c, pictures)
  OBVIOUS
<1>7. \A i \in 1..n : e[i].state = While(b[i - 1], c, pictures[i])
  BY <1>5, DrawnIs
<1>8. \A i \in 1..n : /\ Like(d[i].state, e[i].state)
                      /\ Shaded(pictures, i - 1) => d[i].state.shader = e[i].state.shader
  <2> TAKE i \in 1..n
  <2> PICK x, y, p : x = a[i - 1] /\ y = b[i - 1] /\ p = pictures[i]
    OBVIOUS
  <2>1. /\ x \in GLState /\ y \in GLState /\ Like(x, y)
        /\ Shaded(pictures, i - 1) => x.shader = y.shader
    <3>1. i - 1 \in 0..n
      OBVIOUS
    <3> QED
      BY <1>6, <3>1
  <2>2. /\ Like(While(x, c, p), While(y, c, p))
        /\ While(x, c, p).shader = x.shader /\ While(y, c, p).shader = y.shader
    BY <2>1, WhileAlike
  <2>3. d[i].state = While(x, c, p) /\ e[i].state = While(y, c, p)
    BY <1>2, <1>7
  <2> QED
    BY <2>1, <2>2, <2>3
<1>9. Drawn(NewGL, drawn[1].controls, [i \in DOMAIN drawn |-> drawn[i].picture]) = e
  BY <1>4
<1>10. \A i \in 1..n : (\E j \in 1..i - 1 : [k \in DOMAIN d |-> d[k].picture][j].kind = "shader")
                          => Shaded(pictures, i - 1)
  BY <1>4 DEF Shaded
<1> QED
  BY <1>2, <1>8, <1>9, <1>10

------------------------------------------------------------------------------
(* The invariant                                                           *)

\* No synth is twice in the tree.
OrderOK == order \in Seq(Synth) /\ \A i, j \in DOMAIN order : order[i] = order[j] => i = j

\* The unit that is due is there.
FrameOK == frame = Between \/ /\ frame \in Nat \X Nat
                              /\ frame[1] \in DOMAIN order /\ frame[2] \in DOMAIN Programs[order[frame[1]]]

\* The inductive invariant.
IInv ==
  /\ MemoryOK(memory, Elements(order))
  /\ OrderOK /\ FrameOK
  /\ gl \in [Synth -> GLState] /\ level \in Value /\ cycles \in 0..MaxCycles
  /\ Window(drawn)

\* Nothing is there at first.
LEMMA InitOK ==
  ASSUME Init
  PROVE  IInv
<1>1. /\ memory = [graphics |-> <<>>, faces |-> <<>>, commands |-> <<>>, at |-> [p \in Place |-> <<>>]]
      /\ order = <<>> /\ level = 0 /\ frame = Between /\ cycles = 0
      /\ gl = [s \in Synth |-> NewGL] /\ drawn = <<>>
  BY DEF Init
<1>2. DOMAIN <<>> = {} /\ \A S : <<>> \in Tables(S)
  <2>1. \A S : <<>> \in [{} -> S]
    OBVIOUS
  <2>2. {} \in SUBSET Cell
    OBVIOUS
  <2> QED
    BY <2>1, <2>2 DEF Tables
<1>3. \A p \in Place : memory.at[p] = <<>>
  BY <1>1
<1>4. memory \in Memories
  <2>1. [p \in Place |-> <<>>] \in [Place -> Seq(Nat)]
    OBVIOUS
  <2> QED
    BY <1>1, <1>2, <2>1 DEF Memories
<1>5. WellFormed(memory)
  <2>1. DOMAIN memory.graphics = {} /\ DOMAIN memory.faces = {} /\ DOMAIN memory.commands = {}
    BY <1>1, <1>2
  <2>2. Finite(memory)
    BY <2>1, FS_EmptySet DEF Finite
  <2>3. Linked(memory)
    BY <1>2, <1>3, <2>1, PlacesDiffer DEF Linked
  <2> QED
    BY <1>4, <2>2, <2>3 DEF WellFormed
<1>6. \A p \in GraphicsPlace : PicturesAt(memory, p) = <<>>
  BY <1>3, <1>5, PlacesDiffer, NothingThere
<1>7. MemoryOK(memory, Elements(order))
  <2>1. Elements(order) = {}
    BY <1>1, <1>2 DEF Elements
  <2>2. \A x \in Unit : Placed(memory, Elements(order), x)
    BY <1>6, <2>1, PlacesDiffer DEF Placed, Absent
  <2>3. \A p \in SharedPlace : AllSettled(PicturesAt(memory, p))
    BY <1>2, <1>6, SharedFacts DEF AllSettled
  <2>4. DOMAIN memory.graphics = GraphicsHeld(memory)
    BY <1>1, <1>2, <1>3, PlacesDiffer DEF GraphicsHeld, Elements
  <2> QED
    BY <1>5, <2>2, <2>3, <2>4 DEF MemoryOK
<1>8. OrderOK /\ FrameOK /\ Window(drawn)
  BY <1>1 DEF OrderOK, FrameOK, Window
<1>9. gl \in [Synth -> GLState] /\ level \in Value /\ cycles \in 0..MaxCycles
  <2>1. NewGL \in GLState
    BY DEF NewGL, GLState
  <2> QED
    BY <1>1, <2>1, ValueAssumption, BoundsAssumption
<1> QED
  BY <1>7, <1>8, <1>9 DEF IInv

\* The unit that is due is one of a synth that is there.
LEMMA HereFacts ==
  ASSUME OrderOK, FrameOK, frame # Between
  PROVE  /\ Here \in Unit /\ Here[1] \in Elements(order) /\ Here[1] \in Synth
         /\ Here[1] = order[frame[1]] /\ Here[2] = frame[2]
<1>1. frame[1] \in DOMAIN order /\ frame[2] \in DOMAIN Programs[order[frame[1]]]
  BY DEF FrameOK
<1>2. order[frame[1]] \in Synth
  BY <1>1 DEF OrderOK
<1> QED
  BY <1>1, <1>2 DEF Here, Unit, Elements

\* So is the one behind it.
LEMMA NextUnitOK ==
  ASSUME OrderOK, FrameOK, frame # Between
  PROVE  \/ NextUnit = Between
         \/ /\ NextUnit \in Nat \X Nat
            /\ NextUnit[1] \in DOMAIN order /\ NextUnit[2] \in DOMAIN Programs[order[NextUnit[1]]]
<1>1. /\ frame \in Nat \X Nat /\ frame[1] \in DOMAIN order
      /\ frame[2] \in DOMAIN Programs[order[frame[1]]]
  BY DEF FrameOK
<1> PICK n \in Nat : n = Len(order)
  BY DEF OrderOK
<1>2. DOMAIN order = 1..n /\ \A i \in 1..n : order[i] \in Synth
  BY DEF OrderOK
<1>3. \A s \in Synth : /\ Len(Programs[s]) \in Nat \ {0} /\ DOMAIN Programs[s] = 1..Len(Programs[s])
  <2> TAKE s \in Synth
  <2>1. PICK T : Programs[s] \in Seq(T) \ {<<>>}
    BY ProgramAssumption DEF Synth
  <2> PICK p : p = Programs[s]
    OBVIOUS
  <2>2. p \in Seq(T) /\ p # <<>>
    BY <2>1
  <2>3. Len(p) \in Nat \ {0} /\ DOMAIN p = 1..Len(p)
    BY <2>2
  <2> QED
    BY <2>3
<1> PICK i, j, k : i = frame[1] /\ j = frame[2] /\ k = Len(Programs[order[i]])
  OBVIOUS
<1>4. i \in 1..n /\ j \in 1..k /\ k \in Nat
  BY <1>1, <1>2, <1>3
<1>5. CASE j < k
  <2>1. NextUnit = <<i, j + 1>>
    BY <1>5 DEF NextUnit
  <2>2. j + 1 \in 1..k
    BY <1>4, <1>5
  <2> QED
    BY <1>2, <1>3, <1>4, <2>1, <2>2
<1>6. CASE ~(j < k) /\ i < n
  <2>1. NextUnit = <<i + 1, 1>>
    BY <1>6 DEF NextUnit
  <2>2. i + 1 \in 1..n /\ 1 \in DOMAIN Programs[order[i + 1]]
    BY <1>2, <1>3, <1>4, <1>6
  <2> QED
    BY <1>2, <2>1, <2>2
<1>7. CASE ~(j < k) /\ ~(i < n)
  BY <1>7 DEF NextUnit
<1> QED
  BY <1>5, <1>6, <1>7

\* A unit that runs.
LEMMA UnitOK ==
  ASSUME IInv, G_Unit
  PROVE  IInv' /\ ProcessIs(memory, memory', Here, level)
<1> PICK x : x = Here
  OBVIOUS
<1>1. /\ frame # Between /\ memory' = Held(Process(memory, x, level)) /\ frame' = NextUnit
      /\ UNCHANGED <<order, level, cycles, gl, made, drawn>>
  BY DEF G_Unit
<1>2. MemoryOK(memory, Elements(order)) /\ OrderOK /\ FrameOK /\ level \in Int
  BY ValueAssumption DEF IInv
<1>3. x \in Unit /\ x[1] \in Elements(order)
  BY <1>1, <1>2, HereFacts
<1>4. MemoryOK(memory', Elements(order)) /\ ProcessIs(memory, memory', x, level)
  BY <1>1, <1>2, <1>3, ProcessKeeps
<1>5. FrameOK'
  BY <1>1, <1>2, NextUnitOK DEF FrameOK
<1>6. OrderOK'
  BY <1>1, <1>2 DEF OrderOK
<1> QED
  BY <1>1, <1>4, <1>5, <1>6 DEF IInv

\* What a renderer reads.
LEMMA InputOK ==
  ASSUME IInv, frame # Between, KindOf(Here) = "renderer"
  PROVE  Input(Here) \in Seq(PictureSet) /\ AllSettled(Input(Here))
<1> PICK x : x = Here
  OBVIOUS
<1>1. x \in Unit
  BY HereFacts DEF IInv
<1>2. 1 \in 1..Arity(KindOf(x))
  BY DEF Arity
<1>3. InputUnit(x, 1) \in Unit
  BY <1>1, <1>2, InputFacts
<1>4. Input(x) = PicturesAt(memory, Outs(InputUnit(x, 1)))
  BY DEF Input, InputUnit
<1> PICK p : p = Outs(InputUnit(x, 1))
  OBVIOUS
<1>5. p \in SharedPlace /\ p \in GraphicsPlace
  BY <1>3, SharedFacts
<1>6. WellFormed(memory) /\ AllSettled(PicturesAt(memory, p))
  BY <1>5 DEF IInv, MemoryOK
<1> QED
  BY <1>4, <1>5, <1>6, PlaceTyped

\* A renderer draws settled pictures.
LEMMA DrawOK ==
  ASSUME IInv, G_Draw
  PROVE  IInv'
<1> PICK x, in : x = Here /\ in = Input(Here)
  OBVIOUS
<1>1. /\ frame # Between /\ KindOf(x) = "renderer" /\ frame' = NextUnit
      /\ UNCHANGED <<memory, order, level, cycles, made>>
  BY DEF G_Draw
<1>2. PICK c \in Settings : /\ drawn' = Drawn(gl[x[1]], c, in)
                            /\ gl' = [gl EXCEPT ![x[1]] = FrameEnd(@, c, in)]
  BY DEF G_Draw
<1>3. OrderOK /\ FrameOK /\ gl \in [Synth -> GLState] /\ c \in Controls
  BY SettingsAssumption DEF IInv
<1>4. x[1] \in Synth
  BY <1>1, <1>3, HereFacts
<1>5. in \in Seq(PictureSet) /\ AllSettled(in)
  BY <1>1, InputOK
<1>6. gl[x[1]] \in GLState
  BY <1>3, <1>4
<1>7. FrameEnd(gl[x[1]], c, in) \in GLState
  <2>1. Len(in) \in Nat
    BY <1>5
  <2> QED
    BY <1>3, <1>6, <2>1, FrameEndTyped
<1>8. gl' \in [Synth -> GLState]
  BY <1>2, <1>3, <1>4, <1>7
<1>9. Window(drawn')
  BY <1>2, <1>3, <1>5, <1>6 DEF Window
<1>10. FrameOK'
  BY <1>1, <1>3, NextUnitOK DEF FrameOK
<1>11. OrderOK'
  BY <1>1, <1>3 DEF OrderOK
<1>12. MemoryOK(memory', Elements(order'))
  BY <1>1 DEF IInv
<1>13. level' \in Value /\ cycles' \in 0..MaxCycles
  BY <1>1 DEF IInv
<1> QED
  BY <1>8, <1>9, <1>10, <1>11, <1>12, <1>13 DEF IInv

\* A cycle begins.
LEMMA BeginOK ==
  ASSUME IInv, G_Begin
  PROVE  IInv' /\ BegunIs(memory, memory')
<1>1. /\ frame = Between /\ order # <<>> /\ cycles < MaxCycles /\ memory' = Begun(memory)
      /\ frame' = <<1, 1>> /\ cycles' = cycles + 1 /\ drawn' = <<>>
      /\ UNCHANGED <<order, level, gl, made>>
  BY DEF G_Begin, Begun
<1>2. MemoryOK(memory, Elements(order)) /\ OrderOK
  BY DEF IInv
<1>3. MemoryOK(memory', Elements(order)) /\ BegunIs(memory, memory')
  BY <1>1, <1>2, BegunKeeps
<1>4. FrameOK'
  <2> PICK n \in Nat : n = Len(order)
    BY <1>2 DEF OrderOK
  <2>1. 1 \in DOMAIN order /\ order[1] \in Synth
    BY <1>1, <1>2 DEF OrderOK
  <2>2. PICK T : Programs[order[1]] \in Seq(T) \ {<<>>}
    BY <2>1, ProgramAssumption DEF Synth
  <2> PICK p : p = Programs[order[1]]
    OBVIOUS
  <2>3. p \in Seq(T) /\ p # <<>>
    BY <2>2
  <2>4. 1 \in DOMAIN p
    BY <2>3
  <2> QED
    BY <1>1, <2>1, <2>4 DEF FrameOK
<1>5. OrderOK'
  BY <1>1, <1>2 DEF OrderOK
<1>6. cycles' \in 0..MaxCycles
  BY <1>1, BoundsAssumption DEF IInv
<1>7. Window(drawn')
  BY <1>1 DEF Window
<1> QED
  BY <1>1, <1>3, <1>4, <1>5, <1>6, <1>7 DEF IInv

\* The synth s that s_new makes, or that n_free frees.
NewOf(s) ==
  /\ s \in Synth \ Elements(order) /\ order' \in {<<s>> \o order, Append(order, s)}
  /\ memory' = Created(memory, s) /\ gl' = [gl EXCEPT ![s] = NewGL]

\* A synth is made.
LEMMA NewOK ==
  ASSUME IInv, NEW s, NewOf(s), UNCHANGED <<level, frame, cycles, drawn>>, frame = Between
  PROVE  IInv' /\ CreatedIs(memory, memory', s)
<1>1. /\ s \in Synth /\ s \notin Elements(order) /\ order' \in {<<s>> \o order, Append(order, s)}
      /\ memory' = Created(memory, s) /\ gl' = [gl EXCEPT ![s] = NewGL]
  BY DEF NewOf
<1>2. MemoryOK(memory, Elements(order)) /\ OrderOK /\ gl \in [Synth -> GLState]
  BY DEF IInv
<1>3. \A i \in DOMAIN order : order[i] # s
  BY <1>1 DEF Elements
<1> PICK r : r = order'
  OBVIOUS
<1>4. /\ r \in Seq(Synth)
      /\ \A i \in DOMAIN r : r[i] = s \/ \E j \in DOMAIN order : r[i] = order[j]
      /\ \A j \in DOMAIN order : \E i \in DOMAIN r : r[i] = order[j]
      /\ \E i \in DOMAIN r : r[i] = s
      /\ \A i, j \in DOMAIN r : r[i] = r[j] => i = j
  BY <1>1, <1>2, <1>3, AddedOnce DEF OrderOK
<1>5. Elements(r) = Elements(order) \cup {s}
  BY <1>4 DEF Elements
<1>6. MemoryOK(memory', Elements(r)) /\ CreatedIs(memory, memory', s)
  BY <1>1, <1>2, <1>5, CreatedKeeps
<1>7. OrderOK' /\ FrameOK'
  BY <1>4 DEF OrderOK, FrameOK
<1>8. gl' \in [Synth -> GLState]
  <2>1. NewGL \in GLState
    BY DEF NewGL, GLState
  <2> QED
    BY <1>1, <1>2, <2>1
<1>9. level' \in Value /\ cycles' \in 0..MaxCycles /\ Window(drawn')
  BY DEF IInv
<1> QED
  BY <1>6, <1>7, <1>8, <1>9 DEF IInv

\* The memory that s_new computes is that of the lemmas above.
LEMMA NewSynth ==
  ASSUME s_new
  PROVE  \E s : NewOf(s) /\ UNCHANGED <<level, frame, cycles, drawn>> /\ frame = Between
BY DEF s_new, NewOf, Created

\* The synth at a place of the order goes.
FreeOf(place) ==
  /\ place \in DOMAIN order /\ order' = RemoveAt(order, place)
  /\ memory' = Freed(memory, order[place])

\* A synth is freed.
LEMMA FreeOK ==
  ASSUME IInv, NEW place, FreeOf(place), UNCHANGED <<level, frame, cycles, gl, made, drawn>>, frame = Between
  PROVE  IInv' /\ FreedIs(memory, memory', order[place])
<1> PICK s : s = order[place]
  OBVIOUS
<1>1. place \in DOMAIN order /\ order' = RemoveAt(order, place) /\ memory' = Freed(memory, s)
  BY DEF FreeOf
<1>2. MemoryOK(memory, Elements(order)) /\ OrderOK
  BY DEF IInv
<1> PICK r : r = RemoveAt(order, place)
  OBVIOUS
<1>3. /\ r \in Seq(Synth)
      /\ \A i \in DOMAIN r : \E j \in DOMAIN order : j # place /\ r[i] = order[j]
      /\ \A j \in DOMAIN order : j # place => \E i \in DOMAIN r : r[i] = order[j]
      /\ \A i, j \in DOMAIN r : r[i] = r[j] => i = j
  BY <1>1, <1>2, RemovedOnce DEF OrderOK
<1>4. Elements(r) = Elements(order) \ {s}
  <2>1. \A j \in DOMAIN order : j # place <=> order[j] # s
    BY <1>1, <1>2 DEF OrderOK
  <2> QED
    BY <1>3, <2>1 DEF Elements
<1>5. MemoryOK(memory', Elements(r)) /\ FreedIs(memory, memory', s)
  BY <1>1, <1>2, <1>4, FreedKeeps
<1>6. OrderOK' /\ FrameOK'
  BY <1>1, <1>3 DEF OrderOK, FrameOK
<1>7. gl' \in [Synth -> GLState] /\ level' \in Value /\ cycles' \in 0..MaxCycles /\ Window(drawn')
  BY DEF IInv
<1> QED
  BY <1>1, <1>5, <1>6, <1>7 DEF IInv

\* The memory that n_free computes is that of the lemmas above.
LEMMA FreeSynth ==
  ASSUME n_free
  PROVE  \E place : FreeOf(place) /\ UNCHANGED <<level, frame, cycles, gl, made, drawn>> /\ frame = Between
BY DEF n_free, FreeOf, Freed, LetGo

\* Setting a control leaves the pictures.
LEMMA SetOK ==
  ASSUME IInv, c_set \/ UNCHANGED vars
  PROVE  IInv'
<1>1. level' \in Value /\ UNCHANGED <<memory, order, frame, cycles, gl, made, drawn>>
  BY DEF c_set, vars, IInv
<1>2. OrderOK' /\ FrameOK' /\ MemoryOK(memory', Elements(order')) /\ Window(drawn')
  BY <1>1 DEF OrderOK, FrameOK, IInv
<1> QED
  BY <1>1, <1>2 DEF IInv

\* Every step keeps the invariant.
LEMMA StepOK ==
  ASSUME IInv, [Next]_vars
  PROVE  IInv'
BY UnitOK, DrawOK, BeginOK, NewOK, NewSynth, FreeOK, FreeSynth, SetOK DEF Next

\* The invariant holds in every state.
LEMMA Invariant == Spec => []IInv
<1>1. Init => IInv
  BY InitOK
<1>2. IInv /\ [Next]_vars => IInv'
  BY StepOK
<1> QED
  BY <1>1, <1>2, PTL DEF Spec

\* The invariant has the types in it.
LEMMA TypesOK ==
  ASSUME IInv
  PROVE  TypeOK
<1>1. WellFormed(memory) /\ DOMAIN memory.graphics = GraphicsHeld(memory)
  BY DEF IInv, MemoryOK
<1>2. /\ memory.graphics \in Tables(GraphicsCell) /\ memory.faces \in Tables(Face)
      /\ memory.at \in [Place -> Seq(Nat)] /\ Linked(memory)
  BY <1>1, MemoryFacts DEF WellFormed
<1>3. \A r \in DOMAIN memory.graphics :
        LET g == memory.graphics[r]
        IN /\ g.kind \in Shapes \cup Commands /\ g.on \in Modes \cup {4}
           /\ Elements(g.commands) \subseteq DOMAIN memory.commands
           /\ g.kind \in Shapes <=> g.face \in DOMAIN memory.faces
           /\ g.kind \in Commands <=> g.face = 0
  <2> TAKE r \in DOMAIN memory.graphics
  <2> PICK g : g = memory.graphics[r]
    OBVIOUS
  <2>1. g \in GraphicsCell
    BY <1>2, TableFacts
  <2>2. /\ g.face \in IF g.kind \in Shapes THEN DOMAIN memory.faces ELSE {0}
        /\ \A i \in DOMAIN g.commands : g.commands[i] \in DOMAIN memory.commands
    BY <1>2 DEF Linked, IsShape
  <2>3. 0 \notin DOMAIN memory.faces
    BY <1>2, TableFacts DEF Cell
  <2>4. Shapes \cap Commands = {}
    BY DEF Shapes, Commands
  <2>5. g.kind \in Shapes \cup Commands /\ g.on \in Modes \cup {4}
    BY <2>1 DEF GraphicsCell
  <2> QED
    BY <2>2, <2>3, <2>4, <2>5 DEF Elements
<1>4. \A x \in Unit : Elements(memory.at[Cmd(x)]) \subseteq DOMAIN memory.commands
  BY <1>2 DEF Linked, Elements
<1>5. frame \in {Between} \cup ((DOMAIN order) \X Nat)
  BY DEF IInv, FrameOK
<1>6. gl \in [Synth -> GLState] /\ level \in Value /\ cycles \in 0..MaxCycles
  BY DEF IInv
<1> QED
  BY <1>1, <1>2, <1>3, <1>4, <1>5, <1>6 DEF TypeOK, GraphicsHeld

\* Every cow_ptr leads to a cell, every graphics cell is held by one, and a
\* shape has a face of its own or a shared one, in every run of every set of
\* synths: touch, the units' loops, s_new and n_free (cow_ptr.h, graphics.h,
\* synth.cc) neither lose a cell nor leave a pointer behind.
THEOREM PicturesTypes == Spec => []TypeOK
BY Invariant, TypesOK, PTL

\* Blending, light and culling of a frame do not depend on what the frames
\* before it left in the window's context; the depth test and smooth shading can
\* only be lost, and a shader program stays until the frame's first shader
\* command (gl_renderer.cc, visit_* and the start of really_process_g).
THEOREM FramesAreIndependentHolds == Spec => []FramesAreIndependent
<1>1. IInv => FramesAreIndependent
  BY WindowsAlike DEF IInv
<1> QED
  BY <1>1, Invariant, PTL

------------------------------------------------------------------------------
(* The cells stand for values                                              *)

\* A unit's picture is the one its object stands for, if it has one.
LEMMA OwnIs ==
  ASSUME NEW m, WellFormed(m), NEW x \in Unit
  PROVE  OwnPicture(m, x) = IF PicturesAt(m, Own(x)) = <<>> THEN Values!NoPicture
                            ELSE PicturesAt(m, Own(x))[1]
<1>1. Own(x) \in GraphicsPlace
  BY PlacesDiffer
<1>2. PicturesAt(m, Own(x)) = <<>> <=> m.at[Own(x)] = <<>>
  BY <1>1, NothingThere
<1>3. CASE m.at[Own(x)] = <<>>
  BY <1>2, <1>3 DEF OwnPicture, Values!NoPicture, Values!NoFace, NoFace
<1>4. CASE m.at[Own(x)] # <<>>
  <2>1. m.at[Own(x)] \in Seq(DOMAIN m.graphics)
    BY <1>1, PlaceTyped
  <2> PICK s : s = m.at[Own(x)]
    OBVIOUS
  <2>2. 1 \in DOMAIN s
    BY <1>4, <2>1
  <2>3. PicturesAt(m, Own(x))[1] = Picture(m, s[1])
    BY <2>2 DEF PicturesAt
  <2> QED
    BY <1>2, <1>4, <2>3 DEF OwnPicture
<1> QED
  BY <1>3, <1>4

\* Objects that stand for the same pictures.
LEMMA OwnSame ==
  ASSUME NEW m, WellFormed(m), NEW w, WellFormed(w), NEW x \in Unit,
         PicturesAt(w, Own(x)) = PicturesAt(m, Own(x))
  PROVE  OwnPicture(w, x) = OwnPicture(m, x)
BY OwnIs

KindsAgree == Values!Makers = Shapes \cup Commands /\ Values!Shapes = Shapes /\ Values!Commands = Commands

\* Both modules have the same kinds.
LEMMA KindsAgreeOK == KindsAgree
BY DEF KindsAgree, Values!Makers, Values!Shapes, Values!Commands, Shapes, Commands

\* What the unit that is due reads, and its object afterwards.
InsOf(x) == [k \in DOMAIN Programs[x[1]][x[2]].ins |-> PicturesAt(memory, Outs(InputUnit(x, k)))]

ObjectOf(x, v) == IF KindOf(x) \in Values!Makers THEN Values!Remade(OwnPicture(memory, x), v)
                  ELSE Values!NoPicture

\* What the cells hold after a unit is what the values say it puts out and writes.
LEMMA OutputIs ==
  ASSUME NEW x \in Unit, NEW v, WellFormed(memory), Fits(memory, x)
  PROVE  /\ Values!Output(KindOf(x), ObjectOf(x, v), InsOf(x), v) = OutsAfter(memory, x, v)
         /\ Values!Written(KindOf(x), InsOf(x), v) = BusAfter(memory, x, v)
         /\ OwnAfter(memory, x, v) = IF KindOf(x) \in Shapes \cup Commands THEN <<ObjectOf(x, v)>> ELSE <<>>
<1> PICK kind, ins, object : kind = KindOf(x) /\ ins = InsOf(x) /\ object = ObjectOf(x, v)
  OBVIOUS
<1>1. \A k \in 1..Arity(kind) : ins[k] = In(memory, x, k)
  BY InputFacts DEF InsOf, In
<1>2. kind \in Shapes \cup Commands => object = Values!Remade(PicturesAt(memory, Own(x))[1], v)
  <2> SUFFICES ASSUME kind \in Shapes \cup Commands
               PROVE  object = Values!Remade(PicturesAt(memory, Own(x))[1], v)
    OBVIOUS
  <2>1. PicturesAt(memory, Own(x)) # <<>>
    BY DEF Fits, HasObject
  <2>2. OwnPicture(memory, x) = PicturesAt(memory, Own(x))[1]
    BY <2>1, OwnIs
  <2> QED
    BY <2>2, KindsAgreeOK DEF KindsAgree, ObjectOf
<1>3. OwnAfter(memory, x, v) = IF kind \in Shapes \cup Commands THEN <<object>> ELSE <<>>
  BY <1>2 DEF OwnAfter
<1>4. Values!Output(kind, object, ins, v) = OutsAfter(memory, x, v)
  <2>1. CASE kind \in Shapes \cup Commands
    <3>1. Values!Output(kind, object, ins, v) = <<object>>
      BY <2>1, KindsAgreeOK DEF KindsAgree, Values!Output, Shapes, Commands
    <3>2. OutsAfter(memory, x, v) = OwnAfter(memory, x, v)
      BY <2>1 DEF OutsAfter, Shapes, Commands
    <3> QED
      BY <1>3, <2>1, <3>1, <3>2
  <2>2. CASE kind \in {"translate", "color", "fade"}
    <3>1. ins[1] = In(memory, x, 1) /\ kind \notin Shapes \cup Commands
      <4>1. 1 \in 1..Arity(kind)
        BY <2>2 DEF Arity
      <4> QED
        BY <1>1, <2>2, <4>1 DEF Shapes, Commands
    <3>2. CASE kind = "translate"
      BY <3>1, <3>2, KindsAgreeOK DEF KindsAgree, Values!Output, Values!Each, OutsAfter
    <3>3. CASE kind = "color"
      BY <3>1, <3>3, KindsAgreeOK DEF KindsAgree, Values!Output, Values!Each, OutsAfter
    <3>4. CASE kind = "fade"
      BY <3>1, <3>4, KindsAgreeOK DEF KindsAgree, Values!Output, Values!Each, OutsAfter
    <3> QED
      BY <2>2, <3>2, <3>3, <3>4
  <2>3. CASE kind = "mix"
    <3>1. 1 \in 1..Arity(kind) /\ 2 \in 1..Arity(kind) /\ kind \notin Shapes \cup Commands
      BY <2>3 DEF Arity, Shapes, Commands
    <3>2. ins[1] = In(memory, x, 1) /\ ins[2] = In(memory, x, 2)
      BY <1>1, <3>1
    <3> QED
      BY <2>3, <3>1, <3>2, KindsAgreeOK DEF KindsAgree, Values!Output, OutsAfter
  <2>4. CASE kind \in {"In", "InFeedback"}
    <3>1. kind \notin Shapes \cup Commands
      BY <2>4 DEF Shapes, Commands
    <3> QED
      BY <2>4, <3>1, KindsAgreeOK DEF KindsAgree, Values!Output, OutsAfter
  <2>5. CASE kind \notin OutKinds
    BY <2>5, KindsAgreeOK DEF KindsAgree, OutKinds, Values!Output, OutsAfter
  <2> QED
    BY <2>1, <2>2, <2>3, <2>4, <2>5 DEF OutKinds
<1>5. Values!Written(kind, ins, v) = BusAfter(memory, x, v)
  <2>1. CASE kind \in {"Out", "ReplaceOut", "XOut"}
    <3>1. ins[1] = In(memory, x, 1)
      <4>1. 1 \in 1..Arity(kind)
        BY <2>1 DEF Arity
      <4> QED
        BY <1>1, <4>1
    <3>2. CASE kind = "Out"
      BY <3>1, <3>2 DEF Values!Written, BusAfter
    <3>3. CASE kind = "ReplaceOut"
      BY <3>1, <3>3 DEF Values!Written, BusAfter
    <3>4. CASE kind = "XOut"
      BY <3>1, <3>4 DEF Values!Written, Values!Each, BusAfter, AllFaded
    <3> QED
      BY <2>1, <3>2, <3>3, <3>4
  <2>2. CASE kind \notin {"Out", "ReplaceOut", "XOut"}
    BY <2>2 DEF Values!Written, BusAfter
  <2> QED
    BY <2>1, <2>2
<1> QED
  BY <1>3, <1>4, <1>5

\* A unit's step, of whichever kind, is a step of the values.
LEMMA UnitRefines ==
  ASSUME IInv, frame # Between, ProcessIs(memory, memory', Here, level), WellFormed(memory'),
         frame' = NextUnit, UNCHANGED <<order, cycles, made>>
  PROVE  Values!G_Unit
<1> PICK x : x = Here
  OBVIOUS
<1>1. x \in Unit /\ x[1] \in Elements(order) /\ x = <<order[frame[1]], frame[2]>>
  BY HereFacts DEF IInv, Here
<1>2. WellFormed(memory) /\ Fits(memory, x) /\ level \in Value
  BY <1>1 DEF IInv, MemoryOK, Placed
<1> PICK ins, object : ins = InsOf(x) /\ object = ObjectOf(x, level)
  OBVIOUS
<1>3. /\ Values!Output(KindOf(x), object, ins, level) = OutsAfter(memory, x, level)
      /\ Values!Written(KindOf(x), ins, level) = BusAfter(memory, x, level)
      /\ OwnAfter(memory, x, level) = IF KindOf(x) \in Shapes \cup Commands THEN <<object>> ELSE <<>>
  BY <1>1, <1>2, OutputIs
<1>4. /\ PicturesAt(memory', Own(x)) = OwnAfter(memory, x, level)
      /\ PicturesAt(memory', Outs(x)) = OutsAfter(memory, x, level)
      /\ PicturesAt(memory', Bus) = BusAfter(memory, x, level)
      /\ \A q \in GraphicsPlace \ {Own(x), Outs(x), Bus} : PicturesAt(memory', q) = PicturesAt(memory, q)
  BY DEF ProcessIs
<1>5. OwnPicture(memory', x) = object
  <2>1. OwnPicture(memory', x) = IF PicturesAt(memory', Own(x)) = <<>> THEN Values!NoPicture
                                 ELSE PicturesAt(memory', Own(x))[1]
    BY <1>1, OwnIs
  <2>2. CASE KindOf(x) \in Shapes \cup Commands
    <3>1. PicturesAt(memory', Own(x)) = <<object>>
      BY <1>3, <1>4, <2>2
    <3> QED
      BY <2>1, <3>1
  <2>3. CASE KindOf(x) \notin Shapes \cup Commands
    <3>1. object = Values!NoPicture
      BY <2>3, KindsAgreeOK DEF KindsAgree, ObjectOf
    <3>2. PicturesAt(memory', Own(x)) = <<>>
      BY <1>3, <1>4, <2>3
    <3> QED
      BY <2>1, <3>1, <3>2
  <2> QED
    BY <2>2, <2>3
<1>6. \A y \in Unit : y # x => OwnPicture(memory', y) = OwnPicture(memory, y)
  <2> TAKE y \in Unit
  <2>1. CASE y # x
    <3>1. Own(y) \in GraphicsPlace \ {Own(x), Outs(x), Bus}
      BY <1>1, <2>1, PlacesDiffer
    <3>2. PicturesAt(memory', Own(y)) = PicturesAt(memory, Own(y))
      BY <1>4, <3>1
    <3> QED
      BY <1>2, <3>2, OwnSame
  <2> QED
    BY <2>1
<1>7. [y \in Unit |-> OwnPicture(memory', y)] = [[y \in Unit |-> OwnPicture(memory, y)] EXCEPT ![x] = object]
  BY <1>1, <1>5, <1>6
<1>8. \A y \in Unit : y # x => PicturesAt(memory', Outs(y)) = PicturesAt(memory, Outs(y))
  <2> TAKE y \in Unit
  <2>1. y # x => Outs(y) \in GraphicsPlace \ {Own(x), Outs(x), Bus}
    BY <1>1, PlacesDiffer
  <2> QED
    BY <1>4, <2>1
<1>9. [y \in Unit |-> PicturesAt(memory', Outs(y))] =
      [[y \in Unit |-> PicturesAt(memory, Outs(y))] EXCEPT ![x] = OutsAfter(memory, x, level)]
  BY <1>1, <1>4, <1>8
<1>10. PicturesAt(memory', Past) = PicturesAt(memory, Past)
  <2>1. Past \in GraphicsPlace \ {Own(x), Outs(x), Bus}
    BY <1>1, PlacesDiffer
  <2> QED
    BY <1>4, <2>1
<1> PICK s, unit : s = order[frame[1]] /\ unit = Programs[s][frame[2]]
  OBVIOUS
<1>11. x = <<s, frame[2]>> /\ unit.kind = KindOf(x) /\ unit = Programs[x[1]][x[2]]
  BY <1>1 DEF KindOf
<1>12. [k \in DOMAIN unit.ins |-> [y \in Unit |-> PicturesAt(memory, Outs(y))][<<s, unit.ins[k]>>]] = ins
  <2>1. \A k \in DOMAIN unit.ins : <<s, unit.ins[k]>> \in Unit /\ <<s, unit.ins[k]>> = InputUnit(x, k)
    <3> TAKE k \in DOMAIN unit.ins
    <3>1. s \in Synth /\ frame[2] \in DOMAIN Programs[s]
      BY <1>1 DEF Unit
    <3>2. unit.ins \in Seq(1..frame[2] - 1) /\ Len(Programs[s]) \in Nat /\ DOMAIN Programs[s] = 1..Len(Programs[s])
      BY <3>1, ProgramAssumption DEF Synth
    <3>3. unit.ins[k] \in DOMAIN Programs[s]
      <4> PICK n \in Nat : n = Len(Programs[s])
        BY <3>2
      <4> PICK j, ks : j = frame[2] /\ ks = unit.ins
        OBVIOUS
      <4>1. j \in 1..n /\ ks \in Seq(1..j - 1) /\ DOMAIN Programs[s] = 1..n /\ k \in DOMAIN ks
        BY <3>1, <3>2
      <4> PICK S : S = 1..j - 1
        OBVIOUS
      <4>3. ks \in Seq(S)
        BY <4>1
      <4>2. ks[k] \in S
        BY <4>1, <4>3
      <4> QED
        BY <4>1, <4>2
    <3> QED
      BY <1>11, <3>1, <3>3 DEF Unit, InputUnit
  <2> QED
    BY <1>11, <2>1 DEF InsOf
<1>13. (IF unit.kind \in Values!Makers THEN Values!Remade([y \in Unit |-> OwnPicture(memory, y)][x], level)
        ELSE Values!NoPicture) = object
  BY <1>1, <1>11 DEF ObjectOf
<1>14. frame' = Values!Next_frame
  BY DEF NextUnit, Values!Next_frame, Between, Values!Between
<1>15. /\ Values!Output(unit.kind, object, ins, level) = OutsAfter(memory, x, level)
       /\ Values!Written(unit.kind, ins, level) = PicturesAt(memory', Bus)
  BY <1>3, <1>4, <1>11
<1>16. LET own == [y \in Unit |-> OwnPicture(memory, y)]
           outs == [y \in Unit |-> PicturesAt(memory, Outs(y))]
       IN \E v \in Value :
            LET s_ == order[frame[1]]
                x_ == <<s_, frame[2]>>
                unit_ == Programs[s_][frame[2]]
                ins_ == [k \in DOMAIN unit_.ins |-> outs[<<s_, unit_.ins[k]>>]]
                object_ == IF unit_.kind \in Values!Makers THEN Values!Remade(own[x_], v) ELSE Values!NoPicture
            IN /\ [y \in Unit |-> OwnPicture(memory', y)] = [own EXCEPT ![x_] = object_]
               /\ [y \in Unit |-> PicturesAt(memory', Outs(y))] =
                  [outs EXCEPT ![x_] = Values!Output(unit_.kind, object_, ins_, v)]
               /\ PicturesAt(memory', Bus) = Values!Written(unit_.kind, ins_, v)
  BY <1>2, <1>7, <1>9, <1>11, <1>12, <1>13, <1>15
<1>17. frame # Values!Between /\ UNCHANGED <<order, cycles, made>>
  BY DEF Between, Values!Between
<1> QED
  BY <1>10, <1>14, <1>16, <1>17 DEF Values!G_Unit

UnitsAgree == Values!Unit = Unit /\ Values!Synth = Synth

\* Both modules have the same units.
LEMMA UnitsAgreeOK == UnitsAgree
BY DEF UnitsAgree, Values!Unit, Unit, Values!Synth, Synth

\* The start of a cycle is one of the values.
LEMMA BeginRefines ==
  ASSUME IInv, G_Begin
  PROVE  Values!G_Begin
<1>1. /\ frame = Between /\ order # <<>> /\ cycles < MaxCycles
      /\ frame' = <<1, 1>> /\ cycles' = cycles + 1 /\ UNCHANGED <<order, made>>
  BY DEF G_Begin
<1>2. BegunIs(memory, memory') /\ IInv'
  BY BeginOK
<1>3. WellFormed(memory) /\ WellFormed(memory')
  BY <1>2 DEF IInv, MemoryOK
<1>4. \A x \in Unit : /\ OwnPicture(memory', x) = OwnPicture(memory, x)
                      /\ PicturesAt(memory', Outs(x)) = PicturesAt(memory, Outs(x))
  <2> TAKE x \in Unit
  <2>1. Own(x) \in GraphicsPlace \ {Past, Bus} /\ Outs(x) \in GraphicsPlace \ {Past, Bus}
    BY PlacesDiffer
  <2>2. /\ PicturesAt(memory', Own(x)) = PicturesAt(memory, Own(x))
        /\ PicturesAt(memory', Outs(x)) = PicturesAt(memory, Outs(x))
    BY <1>2, <2>1 DEF BegunIs
  <2> QED
    BY <1>3, <2>2, OwnSame
<1>5. /\ [x \in Unit |-> OwnPicture(memory', x)] = [x \in Unit |-> OwnPicture(memory, x)]
      /\ [x \in Unit |-> PicturesAt(memory', Outs(x))] = [x \in Unit |-> PicturesAt(memory, Outs(x))]
  BY <1>4
<1>6. PicturesAt(memory', Past) = PicturesAt(memory, Bus) /\ PicturesAt(memory', Bus) = <<>>
  BY <1>2 DEF BegunIs
<1> QED
  BY <1>1, <1>5, <1>6 DEF Values!G_Begin, Values!Between, Between

\* So is making a synth.
LEMMA NewRefines ==
  ASSUME IInv, NEW s, NewOf(s), UNCHANGED <<level, frame, cycles, drawn>>, frame = Between,
         made < MaxMade, made' = made + 1
  PROVE  Values!s_new
<1>1. /\ s \in Synth /\ s \notin Elements(order) /\ order' \in {<<s>> \o order, Append(order, s)}
  BY DEF NewOf
<1>2. CreatedIs(memory, memory', s) /\ IInv'
  BY NewOK
<1>3. WellFormed(memory) /\ WellFormed(memory')
  BY <1>2 DEF IInv, MemoryOK
<1>4. \A p \in SharedPlace : PicturesAt(memory', p) = PicturesAt(memory, p)
  <2> TAKE p \in SharedPlace
  <2>1. p \in GraphicsPlace /\ \A i \in DOMAIN Programs[s] : p # Own(<<s, i>>)
    <3>1. \A i \in DOMAIN Programs[s] : <<s, i>> \in Unit
      BY <1>1 DEF Unit
    <3> QED
      BY <3>1, SharedFacts
  <2> QED
    BY <1>2, <2>1 DEF CreatedIs
<1> DEFINE Now(x) == IF x[1] = s /\ Programs[s][x[2]].kind \in Values!Makers
                     THEN Values!Made(Programs[s][x[2]].kind) ELSE OwnPicture(memory, x)
<1>5. \A x \in Unit : OwnPicture(memory', x) = Now(x)
  <2> TAKE x \in Unit
  <2>1. CASE x[1] = s
    <3> PICK kind : kind = KindOf(x)
      OBVIOUS
    <3>1. Programs[s][x[2]].kind = kind
      BY <2>1 DEF KindOf
    <3>2. MadeAt(memory, memory', x)
      BY <1>2, <2>1 DEF CreatedIs
    <3>3. CASE kind \in Shapes \cup Commands
      <4>1. PicturesAt(memory', Own(x)) = <<Values!Made(kind)>>
        BY <3>2, <3>3 DEF MadeAt
      <4>2. OwnPicture(memory', x) = Values!Made(kind)
        <5> PICK new : new = Values!Made(kind)
          OBVIOUS
        <5>1. <<new>> # <<>> /\ <<new>>[1] = new
          OBVIOUS
        <5> QED
          BY <1>3, <4>1, <5>1, OwnIs
      <4> QED
        BY <2>1, <3>1, <3>3, <4>2, KindsAgreeOK DEF KindsAgree
    <3>4. CASE kind \notin Shapes \cup Commands
      <4>1. PicturesAt(memory', Own(x)) = PicturesAt(memory, Own(x))
        BY <3>2, <3>4 DEF MadeAt
      <4>2. OwnPicture(memory', x) = OwnPicture(memory, x)
        BY <1>3, <4>1, OwnSame
      <4> QED
        BY <3>1, <3>4, <4>2, KindsAgreeOK DEF KindsAgree
    <3> QED
      BY <3>3, <3>4
  <2>2. CASE x[1] # s
    <3>1. Own(x) \in GraphicsPlace /\ \A i \in DOMAIN Programs[s] : Own(x) # Own(<<s, i>>)
      <4>1. \A i \in DOMAIN Programs[s] : <<s, i>> \in Unit /\ <<s, i>> # x
        BY <1>1, <2>2 DEF Unit
      <4> QED
        BY <4>1, PlacesDiffer
    <3>2. PicturesAt(memory', Own(x)) = PicturesAt(memory, Own(x))
      BY <1>2, <3>1 DEF CreatedIs
    <3>3. OwnPicture(memory', x) = OwnPicture(memory, x)
      BY <1>3, <3>2, OwnSame
    <3> QED
      BY <2>2, <3>3
  <2> QED
    BY <2>1, <2>2
<1>6. [x \in Unit |-> OwnPicture(memory', x)] =
      [x \in Unit |-> IF x[1] = s /\ Programs[s][x[2]].kind \in Values!Makers
                      THEN Values!Made(Programs[s][x[2]].kind)
                      ELSE [y \in Unit |-> OwnPicture(memory, y)][x]]
  BY <1>5
<1>7. [x \in Unit |-> PicturesAt(memory', Outs(x))] = [x \in Unit |-> PicturesAt(memory, Outs(x))]
  BY <1>4, SharedFacts
<1>8. PicturesAt(memory', Bus) = PicturesAt(memory, Bus) /\ PicturesAt(memory', Past) = PicturesAt(memory, Past)
  BY <1>4, SharedFacts
<1>9. s \in Values!Synth \ {order[i] : i \in DOMAIN order} /\ Values!Unit = Unit
  BY <1>1, UnitsAgreeOK DEF UnitsAgree, Elements
<1> QED
  BY <1>1, <1>6, <1>7, <1>8, <1>9 DEF Values!s_new, Values!Between, Between

\* So is freeing one.
LEMMA FreeRefines ==
  ASSUME IInv, NEW place, FreeOf(place), UNCHANGED <<level, frame, cycles, gl, made, drawn>>, frame = Between
  PROVE  Values!n_free
<1> PICK s : s = order[place]
  OBVIOUS
<1>1. place \in DOMAIN order /\ order' = RemoveAt(order, place)
  BY DEF FreeOf
<1>2. FreedIs(memory, memory', s) /\ IInv'
  BY FreeOK
<1>3. WellFormed(memory) /\ WellFormed(memory')
  BY <1>2 DEF IInv, MemoryOK
<1>4. \A x \in Unit :
        /\ OwnPicture(memory', x) = IF x[1] = s THEN Values!NoPicture ELSE OwnPicture(memory, x)
        /\ PicturesAt(memory', Outs(x)) = IF x[1] = s THEN <<>> ELSE PicturesAt(memory, Outs(x))
  <2> TAKE x \in Unit
  <2>1. CASE x[1] = s
    <3>1. PicturesAt(memory', Own(x)) = <<>> /\ PicturesAt(memory', Outs(x)) = <<>>
      BY <1>2, <2>1 DEF FreedIs, Absent
    <3> QED
      BY <1>3, <2>1, <3>1, OwnIs
  <2>2. CASE x[1] # s
    <3>1. /\ PicturesAt(memory', Own(x)) = PicturesAt(memory, Own(x))
          /\ PicturesAt(memory', Outs(x)) = PicturesAt(memory, Outs(x))
      BY <1>2, <2>2 DEF FreedIs
    <3> QED
      BY <1>3, <2>2, <3>1, OwnSame
  <2> QED
    BY <2>1, <2>2
<1>5. [x \in Unit |-> OwnPicture(memory', x)] =
      [x \in Unit |-> IF x[1] = order[place] THEN Values!NoPicture
                      ELSE [y \in Unit |-> OwnPicture(memory, y)][x]]
  BY <1>4
<1>6. [x \in Unit |-> PicturesAt(memory', Outs(x))] =
      [x \in Unit |-> IF x[1] = order[place] THEN <<>>
                      ELSE [y \in Unit |-> PicturesAt(memory, Outs(y))][x]]
  BY <1>4
<1>7. PicturesAt(memory', Bus) = PicturesAt(memory, Bus) /\ PicturesAt(memory', Past) = PicturesAt(memory, Past)
  BY <1>2 DEF FreedIs
<1>8. Values!Unit = Unit
  BY UnitsAgreeOK DEF UnitsAgree
<1>9. \E p \in DOMAIN order :
        /\ order' = Values!RemoveAt(order, p)
        /\ [x \in Unit |-> OwnPicture(memory', x)] =
           [x \in Unit |-> IF x[1] = order[p] THEN Values!NoPicture
                           ELSE [y \in Unit |-> OwnPicture(memory, y)][x]]
        /\ [x \in Unit |-> PicturesAt(memory', Outs(x))] =
           [x \in Unit |-> IF x[1] = order[p] THEN <<>>
                           ELSE [y \in Unit |-> PicturesAt(memory, Outs(y))][x]]
  <2>1. \A p \in DOMAIN order : Values!RemoveAt(order, p) = RemoveAt(order, p)
    BY DEF Values!RemoveAt, RemoveAt
  <2> QED
    BY <1>1, <1>5, <1>6, <2>1
<1>10. frame = Values!Between /\ UNCHANGED <<frame, cycles, made>>
  BY DEF Values!Between, Between
<1> QED
  BY <1>7, <1>8, <1>9, <1>10 DEF Values!n_free

\* A renderer changes no picture: a unit's step that puts out nothing.
LEMMA DrawRefines ==
  ASSUME IInv, G_Draw
  PROVE  Values!G_Unit
<1> PICK x : x = Here
  OBVIOUS
<1>1. /\ frame # Between /\ KindOf(x) = "renderer" /\ frame' = NextUnit
      /\ memory' = memory /\ UNCHANGED <<order, cycles, made>>
  BY DEF G_Draw
<1>2. x \in Unit /\ x[1] \in Elements(order)
  BY <1>1, HereFacts DEF IInv
<1>3. WellFormed(memory) /\ Fits(memory, x)
  BY <1>2 DEF IInv, MemoryOK, Placed
<1>4. KindOf(x) \notin OutKinds
  BY <1>1 DEF OutKinds, Shapes, Commands
<1>5. ProcessIs(memory, memory', x, level)
  <2>1. OnlyAt(memory, memory, Bus) /\ PicturesAt(memory, Bus) = BusAfter(memory, x, level)
    BY <1>1 DEF OnlyAt, BusAfter
  <2>2. ProcessIs(memory, memory, x, level)
    BY <1>2, <1>3, <1>4, <2>1, AtBus
  <2> QED
    BY <1>1, <2>2
<1>6. WellFormed(memory')
  BY <1>1, <1>3
<1> QED
  BY <1>1, <1>5, <1>6, UnitRefines

\* No pictures at first.
LEMMA InitRefines ==
  ASSUME Init
  PROVE  Values!Init
<1>1. /\ memory.at = [p \in Place |-> <<>>] /\ order = <<>> /\ frame = Between
      /\ cycles = 0 /\ made = 0
  BY DEF Init
<1>2. \A p \in GraphicsPlace : memory.at[p] = <<>>
  BY <1>1, PlacesDiffer
<1>3. \A p \in GraphicsPlace : PicturesAt(memory, p) = <<>>
  <2>1. WellFormed(memory)
    BY InitOK DEF IInv, MemoryOK
  <2> QED
    BY <1>2, <2>1, NothingThere
<1>4. \A x \in Unit : OwnPicture(memory, x) = Values!NoPicture /\ PicturesAt(memory, Outs(x)) = <<>>
  BY <1>2, <1>3, PlacesDiffer DEF OwnPicture, Values!NoPicture, Values!NoFace, NoFace
<1>5. /\ [x \in Unit |-> OwnPicture(memory, x)] = [x \in Unit |-> Values!NoPicture]
      /\ [x \in Unit |-> PicturesAt(memory, Outs(x))] = [x \in Unit |-> <<>>]
  BY <1>4
<1>6. PicturesAt(memory, Bus) = <<>> /\ PicturesAt(memory, Past) = <<>>
  BY <1>3, PlacesDiffer
<1>7. Values!Unit = Unit
  BY UnitsAgreeOK DEF UnitsAgree
<1> QED
  BY <1>1, <1>5, <1>6, <1>7 DEF Values!Init, Values!Between, Between

\* Every step of the cells is a step of the values, or a stutter.
LEMMA StepRefines ==
  ASSUME IInv, [Next]_vars
  PROVE  [Values!Next]_Values!vars
<1>1. CASE G_Begin
  BY <1>1, BeginRefines DEF Values!Next
<1>2. CASE G_Unit
  <2>1. IInv' /\ ProcessIs(memory, memory', Here, level)
    BY <1>2, UnitOK
  <2>2. WellFormed(memory')
    BY <2>1 DEF IInv, MemoryOK
  <2>3. frame # Between /\ frame' = NextUnit /\ UNCHANGED <<order, cycles, made>>
    BY <1>2 DEF G_Unit
  <2> QED
    BY <2>1, <2>2, <2>3, UnitRefines DEF Values!Next
<1>3. CASE G_Draw
  BY <1>3, DrawRefines DEF Values!Next
<1>4. CASE s_new
  <2>1. made < MaxMade /\ made' = made + 1
    BY <1>4 DEF s_new
  <2>2. PICK s : NewOf(s) /\ UNCHANGED <<level, frame, cycles, drawn>> /\ frame = Between
    BY <1>4, NewSynth
  <2>3. Values!s_new
    BY <2>1, <2>2, NewRefines
  <2> QED
    BY <2>3 DEF Values!Next
<1>5. CASE n_free
  <2>1. PICK place : FreeOf(place) /\ UNCHANGED <<level, frame, cycles, gl, made, drawn>> /\ frame = Between
    BY <1>5, FreeSynth
  <2>2. Values!n_free
    BY <2>1, FreeRefines
  <2> QED
    BY <2>2 DEF Values!Next
<1>6. CASE c_set \/ UNCHANGED vars
  <2>1. UNCHANGED <<memory, order, frame, cycles, made>>
    BY <1>6 DEF c_set, vars
  <2> QED
    BY <2>1 DEF Values!vars
<1> QED
  BY <1>1, <1>2, <1>3, <1>4, <1>5, <1>6 DEF Next

\* The cells that cow_ptr, touch and the units share implement pictures that are
\* values: no unit's write is seen through another unit's, synth's or bus's
\* pointer, in this cycle or by InFeedback in the next, for every set of synths
\* and every length of run (cow_ptr.h, graphics.cc, in_out.cc, color.cc, transform.cc).
THEOREM CellsStandForValues == Spec => ImplementsPictureValues
<1>1. Init => Values!Init
  BY InitRefines
<1>2. IInv /\ [Next]_vars => [Values!Next]_Values!vars
  BY StepRefines
<1> QED
  BY <1>1, <1>2, Invariant, PTL DEF Spec, ImplementsPictureValues, Values!Spec
=============================================================================

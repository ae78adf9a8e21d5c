--------------------------- MODULE TexturesProofs ---------------------------
(***************************************************************************)
(* Theorems about module Textures.                                         *)
(***************************************************************************)
EXTENDS Textures, DataLemmas, FiniteSetTheorems

Content == Picture \cup -MaxFrames..-1 \cup {Free}

-----------------------------------------------------------------------------
(* The contexts *)

\* The bounds are natural numbers.
LEMMA Bounds ==
  /\ MaxTextures \in Nat /\ MaxId \in Nat /\ MaxPictures \in Nat /\ MaxFrames \in Nat
  /\ MaxName \in Nat /\ MaxEvents \in Nat /\ MaxFeedback \in Nat \ {0}
BY BoundsAssumption

\* A context has its type whatever a renderer does to it.
LEMMA ContextTypes ==
  ASSUME NEW c \in Context, NEW n \in 0..MaxName, NEW p \in Content
  PROVE  /\ Bound(c, n) \in Context
         /\ Filled(c, p) \in Context
         /\ Uploaded(c, n, p) \in Context
         /\ n # 0 => Deleted(c, n) \in Context
         /\ NewContext \in Context
<1>1. /\ 0 \in Content /\ Free \in Content
      /\ Context = [texture: [Name -> Content], bound: 0..MaxName]
      /\ Name = 1..MaxName /\ MaxName \in Nat
  BY Bounds DEF Content, Picture, Context, Name
<1> HIDE DEF Content
<1>2. ASSUME NEW d \in Context PROVE Filled(d, p) \in Context
  BY <1>1 DEF Filled
<1>3. Bound(c, n) \in Context
  <2>1. CASE n = 0
    BY <1>1, <2>1 DEF Bound
  <2>2. CASE n # 0
    <3>1. Bound(c, n) = [texture |-> [c.texture EXCEPT ![n] = IF @ = Free THEN 0 ELSE @],
                         bound   |-> n]
      BY <1>1, <2>2 DEF Bound
    <3>2. [c.texture EXCEPT ![n] = IF @ = Free THEN 0 ELSE @] \in [Name -> Content]
      BY <1>1, <2>2
    <3> QED
      BY <1>1, <3>1, <3>2
  <2> QED
    BY <2>1, <2>2
<1>4. Uploaded(c, n, p) \in Context
  BY <1>2, <1>3 DEF Uploaded
<1>5. n # 0 => Deleted(c, n) \in Context
  BY <1>1 DEF Deleted
<1>6. NewContext \in Context
  BY <1>1 DEF NewContext
<1> QED
  BY <1>2, <1>3, <1>4, <1>5, <1>6

\* A signal is queued behind the events there are, once for every renderer.
Told(queue, new, signal, key, samep) ==
  /\ new \in Seq(Event) /\ Len(new) = Len(queue) + Len(open)
  /\ \A i \in 1..Len(queue) : new[i] = queue[i]
  /\ \A i \in 1..Len(open) :
       new[Len(queue) + i] = [to |-> open[i], signal |-> signal, key |-> key, samep |-> samep]

\* That is what it means to emit it.
LEMMA Emits ==
  ASSUME NEW queue \in Seq(Event), open \in Seq(Renderers),
         NEW signal \in {"changed", "tmp", "delete"}, NEW key \in Nat, NEW samep \in BOOLEAN
  PROVE  Told(queue, Emitted(queue, signal, key, samep), signal, key, samep)
<1> DEFINE new == [i \in DOMAIN open |->
                     [to |-> open[i], signal |-> signal, key |-> key, samep |-> samep]]
<1>1. new \in Seq(Event) /\ Len(new) = Len(open)
  <2>1. DOMAIN open = 1..Len(open) /\ Len(open) \in Nat
    OBVIOUS
  <2>2. \A i \in 1..Len(open) :
          [to |-> open[i], signal |-> signal, key |-> key, samep |-> samep] \in Event
    BY DEF Event
  <2>3. new \in [1..Len(open) -> Event]
    BY <2>1, <2>2
  <2> QED
    BY <2>1, <2>3
<1>2. \A i \in 1..Len(open) :
        new[i] = [to |-> open[i], signal |-> signal, key |-> key, samep |-> samep]
  OBVIOUS
<1>3. Emitted(queue, signal, key, samep) = queue \o new
  BY DEF Emitted
<1> HIDE DEF new
<1>4. Len(queue) \in Nat /\ Len(open) \in Nat
  OBVIOUS
<1>5. /\ queue \o new \in Seq(Event) /\ Len(queue \o new) = Len(queue) + Len(open)
      /\ \A i \in 1..Len(queue) : (queue \o new)[i] = queue[i]
      /\ \A i \in 1..Len(open) : (queue \o new)[Len(queue) + i] = new[i]
  BY <1>1, <1>4
<1> QED
  BY <1>2, <1>3, <1>5 DEF Told

\* Of the events that are queued, those for the other renderers are kept.
LEMMA KeptEvents ==
  ASSUME NEW r, events \in Seq(Event)
  PROVE  EventsForOthers(r) \in Seq({events[i] : i \in {j \in DOMAIN events : events[j].to # r}})
<1> DEFINE Others == {events[i] : i \in {j \in DOMAIN events : events[j].to # r}}
           n == Len(events)
           X == Seq(Others)
           turn == [i \in 1..n |-> [s \in X |->
                      IF events[i].to = r THEN s ELSE Append(s, events[i])]]
           Body(g) == [i \in 0..n |-> IF i = 0 THEN <<>>
                                      ELSE IF events[i].to = r THEN g[i - 1]
                                      ELSE Append(g[i - 1], events[i])]
           kept == CHOOSE g : g = Body(g)
<1>1. n \in Nat /\ <<>> \in X
  OBVIOUS
<1>2. \A i \in 1..n, s \in X : events[i].to # r => Append(s, events[i]) \in X
  <2> TAKE i \in 1..n, s \in X
  <2>1. events[i].to # r => events[i] \in Others
    OBVIOUS
  <2> HIDE DEF Others
  <2> QED
    BY <2>1
<1> HIDE DEF X, n
<1>0. turn \in [1..n -> [X -> X]]
  BY <1>2
<1>3. PICK f \in Loops(X, <<>>, n, turn) : TRUE
  <2> HIDE DEF turn
  <2> QED
    BY <1>0, <1>1, TurnsAdd
<1>4. f \in [0..n -> X] /\ f[0] = <<>> /\ \A i \in 1..n : f[i] = turn[i][f[i - 1]]
  BY <1>3 DEF Loops
<1>5. \A i \in 1..n : f[i] = IF events[i].to = r THEN f[i - 1] ELSE Append(f[i - 1], events[i])
  <2> TAKE i \in 1..n
  <2>1. f[i - 1] \in X
    BY <1>1, <1>4
  <2> QED
    BY <1>4, <2>1
<1>6. f = Body(f)
  <2>1. DOMAIN f = 0..n /\ f = [i \in 0..n |-> f[i]]
    BY <1>4
  <2>2. \A i \in 0..n : f[i] = IF i = 0 THEN <<>>
                               ELSE IF events[i].to = r THEN f[i - 1]
                               ELSE Append(f[i - 1], events[i])
    <3> TAKE i \in 0..n
    <3>1. CASE i = 0
      BY <1>4, <3>1
    <3>2. CASE i # 0
      <4>1. i \in 1..n
        BY <1>1, <3>2
      <4> QED
        BY <1>5, <3>2, <4>1
    <3> QED
      BY <3>1, <3>2
  <2> QED
    BY <2>1, <2>2
<1>7. kept = Body(kept)
  BY <1>6
<1>8. /\ kept[0] = <<>>
      /\ \A i \in 1..n : kept[i] = IF events[i].to = r THEN kept[i - 1]
                                   ELSE Append(kept[i - 1], events[i])
  <2>1. PICK g : g = kept
    OBVIOUS
  <2>2. kept = Body(g)
    BY <1>7, <2>1
  <2> HIDE DEF kept
  <2>3. \A i \in 0..n : kept[i] = IF i = 0 THEN <<>>
                                  ELSE IF events[i].to = r THEN g[i - 1]
                                  ELSE Append(g[i - 1], events[i])
    BY <2>2
  <2> QED
    BY <1>1, <2>1, <2>3
<1> DEFINE T == {i \in 0..n : kept[i] \in X}
<1> HIDE DEF kept
<1>9. 0 \in T /\ \A i \in 1..n : i - 1 \in T => i \in T
  <2>1. 0 \in T
    BY <1>1, <1>8
  <2>2. ASSUME NEW i \in 1..n, kept[i - 1] \in X PROVE kept[i] \in X
    BY <1>2, <1>8, <2>2
  <2> QED
    BY <2>1, <2>2
<1>10. 0..n \subseteq T
  <2> HIDE DEF T
  <2> QED
    BY <1>1, <1>9, EveryTurn
<1>11. EventsForOthers(r) = kept[n]
  BY DEF EventsForOthers, kept, n
<1> QED
  BY <1>1, <1>10, <1>11 DEF X

\* What the faces of a scene do to a context stays in a set that each of them
\* stays in, and the last one has the last word.
LEMMA DrawnIn ==
  ASSUME NEW r, NEW past, NEW X, NEW start \in X, NEW scene \in Seq(Face),
         \A c \in X, k \in DOMAIN scene :
           FaceName(r, past, scene[k]) # None => Bound(c, FaceName(r, past, scene[k])) \in X
  PROVE  /\ Drawn(r, past, start, scene) \in X
         /\ scene # <<>> /\ FaceName(r, past, scene[Len(scene)]) # None =>
              \E c \in X : Drawn(r, past, start, scene)
                             = Bound(c, FaceName(r, past, scene[Len(scene)]))
<1> DEFINE n == Len(scene)
           Drawing(c, k) == IF FaceName(r, past, scene[k]) = None THEN c
                            ELSE Bound(c, FaceName(r, past, scene[k]))
           turn == [k \in 1..n |-> [c \in X |-> Drawing(c, k)]]
           Body(g) == [k \in 0..n |-> IF k = 0 THEN start ELSE Drawing(g[k - 1], k)]
           after == CHOOSE g : g = Body(g)
<1>1. n \in Nat /\ DOMAIN scene = 1..n
  OBVIOUS
<1>2. \A k \in 1..n, c \in X : Drawing(c, k) \in X
  BY <1>1
<1>3. Drawn(r, past, start, scene) = after[n]
  BY DEF Drawn
<1>4. n > 0 => Drawing(after[n - 1], n) = IF FaceName(r, past, scene[Len(scene)]) = None THEN after[n - 1]
                                          ELSE Bound(after[n - 1], FaceName(r, past, scene[Len(scene)]))
  OBVIOUS
<1>5. scene # <<>> => n > 0
  OBVIOUS
<1> HIDE DEF n, Drawing
<1>6. turn \in [1..n -> [X -> X]]
  BY <1>2
<1>7. PICK f \in Loops(X, start, n, turn) : TRUE
  <2> HIDE DEF turn
  <2> QED
    BY <1>1, <1>6, TurnsAdd
<1>8. f \in [0..n -> X] /\ f[0] = start /\ \A k \in 1..n : f[k] = turn[k][f[k - 1]]
  BY <1>7 DEF Loops
<1>9. \A k \in 1..n : f[k] = Drawing(f[k - 1], k)
  <2> TAKE k \in 1..n
  <2>1. f[k - 1] \in X
    BY <1>1, <1>8
  <2> QED
    BY <1>8, <2>1
<1>10. f = Body(f)
  <2>1. f = [k \in 0..n |-> f[k]]
    BY <1>8
  <2>2. \A k \in 0..n : f[k] = IF k = 0 THEN start ELSE Drawing(f[k - 1], k)
    <3> TAKE k \in 0..n
    <3>1. k # 0 => k \in 1..n
      BY <1>1
    <3> QED
      BY <1>8, <1>9, <3>1
  <2> QED
    BY <2>1, <2>2
<1>11. after = Body(after)
  BY <1>10
<1>12. after[0] = start /\ \A k \in 1..n : after[k] = Drawing(after[k - 1], k)
  <2>1. PICK g : g = after
    OBVIOUS
  <2>2. after = Body(g)
    BY <1>11, <2>1
  <2> HIDE DEF after
  <2>3. \A k \in 0..n : after[k] = IF k = 0 THEN start ELSE Drawing(g[k - 1], k)
    BY <2>2
  <2> QED
    BY <1>1, <2>1, <2>3
<1> DEFINE T == {k \in 0..n : after[k] \in X}
<1> HIDE DEF after
<1>13. 0 \in T /\ \A k \in 1..n : k - 1 \in T => k \in T
  <2>1. 0 \in T
    BY <1>1, <1>12
  <2>2. ASSUME NEW k \in 1..n, after[k - 1] \in X PROVE after[k] \in X
    BY <1>2, <1>12, <2>2
  <2> QED
    BY <2>1, <2>2
<1>14. 0..n \subseteq T
  <2> HIDE DEF T
  <2> QED
    BY <1>1, <1>13, EveryTurn
<1>15. after[n] \in X
  BY <1>1, <1>14
<1>16. ASSUME n > 0 PROVE after[n - 1] \in X /\ after[n] = Drawing(after[n - 1], n)
  BY <1>1, <1>12, <1>14, <1>16
<1> QED
  BY <1>3, <1>4, <1>5, <1>15, <1>16

-----------------------------------------------------------------------------
(* The names of the textures of a new window *)

\* How many of S there are up to n.
UpTo(S, n) == Cardinality({m \in S : m <= n})

\* Counting numbers the elements of a set from 1.
LEMMA Counting ==
  ASSUME NEW S \in SUBSET Int, IsFiniteSet(S)
  PROVE  /\ Cardinality(S) \in Nat
         /\ \A n \in S : UpTo(S, n) \in 1..Cardinality(S)
         /\ \A m, n \in S : UpTo(S, m) = UpTo(S, n) => m = n
<1>1. \A n : IsFiniteSet({m \in S : m <= n}) /\ UpTo(S, n) \in Nat /\ UpTo(S, n) <= Cardinality(S)
  BY FS_Subset, FS_CardinalityType DEF UpTo
<1>2. Cardinality(S) \in Nat
  BY FS_CardinalityType
<1>3. ASSUME NEW n \in S PROVE UpTo(S, n) # 0
  <2>1. n \in {m \in S : m <= n}
    OBVIOUS
  <2> QED
    BY <1>1, <2>1, FS_EmptySet DEF UpTo
<1>4. ASSUME NEW m \in S, NEW n \in S, m < n PROVE UpTo(S, m) # UpTo(S, n)
  <2>1. {k \in S : k <= m} \subseteq {k \in S : k <= n}
    <3>1. m \in Int /\ n \in Int /\ \A k \in S : k \in Int
      OBVIOUS
    <3>2. \A k \in S : k <= m => k <= n
      BY <1>4, <3>1
    <3> QED
      BY <3>2
  <2>2. n \in {k \in S : k <= n} /\ n \notin {k \in S : k <= m}
    BY <1>4
  <2>3. Cardinality({k \in S : k <= m}) = Cardinality({k \in S : k <= n}) =>
          {k \in S : k <= m} = {k \in S : k <= n}
    BY <1>1, <2>1, FS_Subset
  <2> QED
    BY <2>2, <2>3 DEF UpTo
<1>5. \A m, n \in S : UpTo(S, m) = UpTo(S, n) => m = n
  <2>1. \A m, n \in S : m < n \/ n < m \/ m = n
    OBVIOUS
  <2> QED
    BY <1>4, <2>1
<1>6. \A n \in S : UpTo(S, n) \in 1..Cardinality(S)
  <2> TAKE n \in S
  <2>1. UpTo(S, n) \in Nat /\ UpTo(S, n) <= Cardinality(S) /\ UpTo(S, n) # 0
    BY <1>1, <1>3
  <2> QED
    BY <1>2, <2>1
<1> QED
  BY <1>2, <1>5, <1>6

Images == {i \in DOMAIN textures : ~textures[i].video}
Framed == {id \in Id : frames[id] # NoFrame}

\* The textures of a new window have names of their own.
LEMMA NewNames ==
  ASSUME textures \in Seq(Texture), Cardinality(Images) + Cardinality(Framed) <= MaxName
  PROVE  /\ init_textures.handles \in [DOMAIN textures -> Name \cup {None}]
         /\ \A i \in DOMAIN textures : init_textures.handles[i] # None <=> ~textures[i].video
         /\ \A i, j \in DOMAIN textures :
              init_textures.handles[i] = init_textures.handles[j]
              /\ init_textures.handles[i] # None => i = j
         /\ init_textures.tmp \in [Id -> Name \cup {None}]
         /\ \A id \in Id : init_textures.tmp[id] # None <=> frames[id] # NoFrame
         /\ \A a, b \in Id : init_textures.tmp[a] = init_textures.tmp[b]
                             /\ init_textures.tmp[a] # None => a = b
         /\ \A i \in DOMAIN textures, id \in Id :
              init_textures.handles[i] # None => init_textures.handles[i] # init_textures.tmp[id]
<1> DEFINE names == init_textures
<1>1. names = [handles |-> [i \in DOMAIN textures |-> IF i \in Images THEN UpTo(Images, i) ELSE None],
               tmp     |-> [id \in Id |-> IF id \in Framed
                                          THEN Cardinality(Images) + UpTo(Framed, id) ELSE None]]
  BY DEF init_textures, Images, Framed, UpTo
<1>2. Images \in SUBSET Int /\ IsFiniteSet(Images)
  <2>1. Images \subseteq 1..Len(textures) /\ Len(textures) \in Nat
    BY DEF Images
  <2>2. IsFiniteSet(1..Len(textures))
    BY <2>1, FS_Interval
  <2>3. IsFiniteSet(Images)
    BY <2>1, <2>2, FS_Subset
  <2> QED
    BY <2>1, <2>3
<1>3. Framed \in SUBSET Int /\ IsFiniteSet(Framed)
  <2>1. Framed \subseteq 0..MaxId - 1
    BY DEF Framed, Id
  <2>2. IsFiniteSet(0..MaxId - 1)
    BY Bounds, FS_Interval
  <2>3. IsFiniteSet(Framed)
    BY <2>1, <2>2, FS_Subset
  <2> QED
    BY <2>1, <2>3
<1>4. /\ Cardinality(Images) \in Nat /\ Cardinality(Framed) \in Nat
      /\ \A i \in Images : UpTo(Images, i) \in 1..Cardinality(Images)
      /\ \A i, j \in Images : UpTo(Images, i) = UpTo(Images, j) => i = j
      /\ \A id \in Framed : UpTo(Framed, id) \in 1..Cardinality(Framed)
      /\ \A a, b \in Framed : UpTo(Framed, a) = UpTo(Framed, b) => a = b
  BY <1>2, <1>3, Counting
<1>5. \A i \in DOMAIN textures : i \in Images <=> ~textures[i].video
  BY DEF Images
<1>6. \A id \in Id : id \in Framed <=> frames[id] # NoFrame
  BY DEF Framed
<1> HIDE DEF names
<1>7. /\ \A i \in Images : UpTo(Images, i) \in Name /\ UpTo(Images, i) # None
                           /\ UpTo(Images, i) <= Cardinality(Images)
      /\ \A id \in Framed : /\ Cardinality(Images) + UpTo(Framed, id) \in Name
                            /\ Cardinality(Images) + UpTo(Framed, id) # None
                            /\ Cardinality(Images) + UpTo(Framed, id) > Cardinality(Images)
  BY <1>4, Bounds DEF Name, None
<1>8. /\ \A i \in DOMAIN textures : names.handles[i] = IF i \in Images THEN UpTo(Images, i) ELSE None
      /\ \A id \in Id : names.tmp[id] = IF id \in Framed
                                        THEN Cardinality(Images) + UpTo(Framed, id) ELSE None
  BY <1>1
<1>9. /\ names.handles \in [DOMAIN textures -> Name \cup {None}]
      /\ names.tmp \in [Id -> Name \cup {None}]
  BY <1>1, <1>7
<1>10. /\ \A i \in DOMAIN textures : names.handles[i] # None <=> ~textures[i].video
       /\ \A id \in Id : names.tmp[id] # None <=> frames[id] # NoFrame
  BY <1>5, <1>6, <1>7, <1>8
<1>11. \A i, j \in DOMAIN textures :
         names.handles[i] = names.handles[j] /\ names.handles[i] # None => i = j
  BY <1>4, <1>7, <1>8
<1>12. \A a, b \in Id : names.tmp[a] = names.tmp[b] /\ names.tmp[a] # None => a = b
  BY <1>4, <1>7, <1>8
<1>13. \A i \in DOMAIN textures, id \in Id :
         names.handles[i] # None => names.handles[i] # names.tmp[id]
  BY <1>4, <1>7, <1>8
<1> QED
  BY <1>9, <1>10, <1>11, <1>12, <1>13 DEF names

-----------------------------------------------------------------------------
(* The types, for all renderers, scenes and troubles *)

WellFormed ==
  /\ TypeOK
  /\ \A i \in DOMAIN events : events[i].to \in ToSet(open)
  /\ \A i, j \in DOMAIN open : open[i] = open[j] => i = j
  /\ \A r \in Renderers : ring[r] # <<>> => Len(ring[r]) = MaxFeedback

\* A signal of the pool keeps the queue well formed.
LEMMA EmittedTypes ==
  ASSUME NEW queue \in Seq(Event), open \in Seq(Renderers),
         \A i \in DOMAIN queue : queue[i].to \in ToSet(open),
         NEW signal \in {"changed", "tmp", "delete"}, NEW key \in Nat, NEW samep \in BOOLEAN
  PROVE  /\ Emitted(queue, signal, key, samep) \in Seq(Event)
         /\ \A i \in DOMAIN Emitted(queue, signal, key, samep) :
              Emitted(queue, signal, key, samep)[i].to \in ToSet(open)
<1> DEFINE new == Emitted(queue, signal, key, samep)
<1>1. /\ new \in Seq(Event)
      /\ Len(new) = Len(queue) + Len(open)
      /\ \A i \in 1..Len(queue) : new[i] = queue[i]
      /\ \A i \in 1..Len(open) :
           new[Len(queue) + i] = [to |-> open[i], signal |-> signal, key |-> key, samep |-> samep]
  <2>1. Told(queue, new, signal, key, samep)
    BY Emits
  <2> HIDE DEF new
  <2> QED
    BY <2>1 DEF Told
<1>2. Len(queue) \in Nat /\ Len(open) \in Nat /\ DOMAIN new = 1..Len(new)
  BY <1>1
<1> HIDE DEF new
<1>3. ASSUME NEW i \in DOMAIN new PROVE new[i].to \in ToSet(open)
  <2>1. CASE i <= Len(queue)
    BY <1>1, <1>2, <2>1
  <2>2. CASE i > Len(queue)
    <3>1. PICK k \in 1..Len(open) : i = Len(queue) + k
      <4>1. i - Len(queue) \in 1..Len(open)
        BY <1>1, <1>2, <2>2
      <4> QED
        BY <1>2, <4>1
    <3>2. new[i] = [to |-> open[k], signal |-> signal, key |-> key, samep |-> samep]
      BY <1>1, <3>1
    <3>3. new[i].to = open[k] /\ k \in DOMAIN open
      BY <1>2, <3>2
    <3> QED
      BY <3>3 DEF ToSet
  <2> QED
    BY <1>2, <2>1, <2>2
<1> QED
  BY <1>1, <1>3 DEF new

\* What becomes of the texture of a frame when a worker has decoded, or failed to,
\* and whether the renderers are told.
Decoding(id, size, f, tells) ==
  /\ frames' = [frames EXCEPT ![id] = f]
  /\ events' = IF tells THEN Emitted(events, "tmp", id, frames[id].size = size) ELSE events
  /\ \/ NewPicture /\ tells /\ f = [Room(id, size, TRUE) EXCEPT !.pic = pictures']
     \/ UNCHANGED pictures /\ f = Room(id, size, tells)

LEMMA Decodes ==
  ASSUME NEW id, really_get_frame(id)
  PROVE  \E size \in IF "resize" \in Trouble THEN {1, 2} ELSE {1}, tells \in BOOLEAN :
           \E f : Decoding(id, size, f, tells)
<1>1. PICK size \in IF "resize" \in Trouble THEN {1, 2} ELSE {1} :
        \/ /\ NewPicture
           /\ frames' = [frames EXCEPT ![id] = [Room(id, size, TRUE) EXCEPT !.pic = pictures']]
           /\ events' = Emitted(events, "tmp", id, frames[id].size = size)
        \/ /\ frames' = [frames EXCEPT ![id] = Room(id, size, TRUE)]
           /\ events' = Emitted(events, "tmp", id, frames[id].size = size)
           /\ UNCHANGED pictures
        \/ /\ frames' = [frames EXCEPT ![id] = Room(id, size, FALSE)]
           /\ UNCHANGED <<pictures, events>>
  BY DEF really_get_frame
<1>2. \/ Decoding(id, size, [Room(id, size, TRUE) EXCEPT !.pic = pictures'], TRUE)
      \/ Decoding(id, size, Room(id, size, TRUE), TRUE)
      \/ Decoding(id, size, Room(id, size, FALSE), FALSE)
  BY <1>1 DEF Decoding
<1>3. TRUE \in BOOLEAN /\ FALSE \in BOOLEAN
  OBVIOUS
<1> QED
  BY <1>2, <1>3

\* The texture has the size of the video; a new one is announced if they are told.
LEMMA DecodedFrame ==
  ASSUME NEW id \in Id, NEW size \in {1, 2}, NEW f, NEW tells \in BOOLEAN, Decoding(id, size, f, tells),
         frames \in [Id -> Frame \cup {NoFrame}], pictures \in Picture
  PROVE  /\ f \in Frame /\ f.size = size /\ pictures' \in Picture
         /\ f.announced = IF frames[id].size = size THEN frames[id].announced ELSE tells
         /\ ~tells /\ frames[id].size = size => f = frames[id]
<1>1. pictures' \in Picture /\ 0 \in Picture
  <2>1. NewPicture \/ pictures' = pictures
    BY DEF Decoding
  <2> QED
    BY <2>1, Bounds DEF NewPicture, Picture
<1>2. ASSUME NEW told \in BOOLEAN
      PROVE  /\ Room(id, size, told) \in Frame /\ Room(id, size, told).size = size
             /\ Room(id, size, told).announced =
                  IF frames[id].size = size THEN frames[id].announced ELSE told
             /\ frames[id].size = size => Room(id, size, told) = frames[id]
  <2>1. CASE frames[id].size = size
    <3>1. Room(id, size, told) = frames[id]
      BY <2>1 DEF Room
    <3>2. frames[id] # NoFrame
      <4>1. NoFrame.size = 0
        BY DEF NoFrame
      <4> QED
        BY <2>1, <4>1
    <3> QED
      BY <2>1, <3>1, <3>2
  <2>2. CASE frames[id].size # size
    <3>1. Room(id, size, told) = [size |-> size, pic |-> 0, announced |-> told]
      BY <2>2 DEF Room
    <3> QED
      BY <1>1, <2>2, <3>1 DEF Frame
  <2> QED
    BY <2>1, <2>2
<1>3. CASE tells /\ f = [Room(id, size, TRUE) EXCEPT !.pic = pictures']
  <2> PICK room : room = Room(id, size, TRUE)
    OBVIOUS
  <2>1. /\ room \in Frame /\ room.size = size
        /\ room.announced = IF frames[id].size = size THEN frames[id].announced ELSE TRUE
    BY <1>2
  <2>2. f = [room EXCEPT !.pic = pictures']
    BY <1>3
  <2>3. f \in Frame /\ f.size = room.size /\ f.announced = room.announced
    BY <1>1, <2>1, <2>2 DEF Frame
  <2> QED
    BY <1>1, <1>3, <2>1, <2>3
<1>4. CASE f = Room(id, size, tells)
  BY <1>1, <1>2, <1>4
<1> QED
  BY <1>3, <1>4 DEF Decoding

\* The commands of clients, the quads and the workers keep the types.
LEMMA PoolTypes == WellFormed /\ Pool => WellFormed'
<1> SUFFICES ASSUME WellFormed, Pool PROVE WellFormed'
  OBVIOUS
<1> USE Bounds
<1>0. /\ textures \in Seq(Texture) /\ Len(textures) <= MaxTextures
      /\ frames \in [Id -> Frame \cup {NoFrame}]
      /\ pictures \in Picture
      /\ nextID \in 0..MaxId /\ quads \subseteq 0..nextID - 1
      /\ events \in Seq(Event) /\ open \in Seq(Renderers)
      /\ \A i \in DOMAIN events : events[i].to \in ToSet(open)
  BY DEF WellFormed, TypeOK
<1>1. ASSUME NEW key \in Nat, NEW signal \in {"changed", "tmp", "delete"}, NEW samep \in BOOLEAN
      PROVE  /\ Emitted(events, signal, key, samep) \in Seq(Event)
             /\ \A i \in DOMAIN Emitted(events, signal, key, samep) :
                  Emitted(events, signal, key, samep)[i].to \in ToSet(open)
  BY <1>0, EmittedTypes
<1>2. ASSUME NEW index \in Nat
      PROVE  /\ texture_changed(index) \in Seq(Event)
             /\ \A i \in DOMAIN texture_changed(index) : texture_changed(index)[i].to \in ToSet(open)
  BY <1>1 DEF texture_changed
<1>3. NewPicture => pictures' \in Picture /\ pictures' # 0
  BY <1>0 DEF NewPicture, Picture
<1>4. ASSUME textures' \in Seq(Texture), Len(textures') <= MaxTextures, Len(textures') >= Len(textures),
             frames' \in [Id -> Frame \cup {NoFrame}], pictures' \in Picture,
             nextID' \in 0..MaxId, quads' \subseteq 0..nextID' - 1,
             events' \in Seq(Event), \A i \in DOMAIN events' : events'[i].to \in ToSet(open),
             UNCHANGED windowVars
      PROVE  WellFormed'
  <2>1. /\ open' = open /\ current' = current /\ gl' = gl /\ handles' = handles
        /\ tmpHandles' = tmpHandles /\ ring' = ring /\ fbcounter' = fbcounter /\ drawn' = drawn
    BY <1>4 DEF windowVars, feedbackVars
  <2>2. \A r \in Renderers : Len(handles'[r]) <= Len(textures')
    BY <1>0, <1>4, <2>1 DEF WellFormed, TypeOK
  <2> QED
    BY <1>4, <2>1, <2>2 DEF WellFormed, TypeOK
<1>5. CASE add_image
  <2>1. textures' \in Seq(Texture) /\ Len(textures') = Len(textures) + 1
    <3>1. PICK t \in Texture : textures' = Append(textures, t)
      <4>1. ASSUME NEW v \in BOOLEAN, NEW p \in Picture PROVE [video |-> v, pic |-> p] \in Texture
        BY DEF Texture
      <4>2. 0 \in Picture
        BY DEF Picture
      <4> QED
        BY <1>3, <1>5, <4>1, <4>2 DEF add_image
    <3> QED
      BY <1>0, <3>1
  <2>2. pictures' \in Picture
    BY <1>0, <1>3, <1>5 DEF add_image
  <2>3. events' = texture_changed(Len(textures') - 1) /\ Len(textures') - 1 \in Nat
    BY <1>0, <1>5, <2>1 DEF add_image
  <2>4. events' \in Seq(Event) /\ \A i \in DOMAIN events' : events'[i].to \in ToSet(open)
    BY <1>2, <2>3
  <2>5. Len(textures') <= MaxTextures /\ Len(textures') >= Len(textures)
    BY <1>0, <1>5, <2>1 DEF add_image
  <2>6. UNCHANGED <<frames, nextID, quads, windowVars>>
    BY <1>5 DEF add_image
  <2> QED
    BY <1>0, <1>4, <2>1, <2>2, <2>4, <2>5, <2>6
<1>6. ASSUME NEW index \in Index, change_image(index) \/ b_zero(index) \/ b_set(index)
      PROVE  WellFormed'
  <2>1. index \in Nat /\ index + 1 \in DOMAIN textures
    BY <1>0 DEF Index
  <2>2. textures' \in Seq(Texture) /\ Len(textures') = Len(textures) /\ pictures' \in Picture
    <3>1. CASE change_image(index)
      <4>1. PICK t \in Texture : textures' = [textures EXCEPT ![index + 1] = t]
        BY <1>3, <3>1 DEF change_image, Texture
      <4> QED
        BY <1>0, <1>3, <2>1, <3>1, <4>1 DEF change_image
    <3>2. CASE Painted(index)
      <4>1. CASE UNCHANGED <<textures, pictures>>
        BY <1>0, <4>1
      <4>2. CASE NewPicture /\ textures' = [textures EXCEPT ![index + 1].pic = pictures']
        <5>1. textures[index + 1] \in Texture
          BY <1>0, <2>1
        <5>2. textures' = [textures EXCEPT ![index + 1] = [textures[index + 1] EXCEPT !.pic = pictures']]
          BY <4>2
        <5>3. [textures[index + 1] EXCEPT !.pic = pictures'] \in Texture
          BY <1>3, <4>2, <5>1 DEF Texture
        <5> QED
          BY <1>0, <1>3, <2>1, <4>2, <5>2, <5>3
      <4> QED
        BY <3>2, <4>1, <4>2 DEF Painted
    <3> QED
      BY <1>6, <3>1, <3>2 DEF b_zero, b_set
  <2>3. events' \in {texture_changed(index), events}
    BY <1>6 DEF change_image, b_zero, b_set
  <2>4. UNCHANGED <<frames, nextID, quads, windowVars>>
    BY <1>6 DEF change_image, b_zero, b_set
  <2>5. events' \in Seq(Event) /\ \A i \in DOMAIN events' : events'[i].to \in ToSet(open)
    BY <1>0, <1>2, <2>1, <2>3
  <2>6. Len(textures') <= MaxTextures /\ Len(textures') >= Len(textures)
    BY <1>0, <2>2
  <2>7. /\ frames' \in [Id -> Frame \cup {NoFrame}] /\ nextID' \in 0..MaxId
        /\ quads' \subseteq 0..nextID' - 1 /\ UNCHANGED windowVars
    BY <1>0, <2>4
  <2> QED
    BY <1>4, <2>2, <2>5, <2>6, <2>7
<1>7. CASE TexQuad
  <2>1. nextID' \in 0..MaxId /\ quads' \subseteq 0..nextID' - 1
    BY <1>0, <1>7 DEF TexQuad
  <2> QED
    BY <1>0, <1>4, <1>7, <2>1 DEF TexQuad
<1>8. ASSUME NEW a \in Id, NEW b \in Id, DeleteTexQuad(a, b) PROVE WellFormed'
  <2>1. a \in Nat /\ b \in Nat
    BY DEF Id
  <2>2. frames' \in [Id -> Frame \cup {NoFrame}]
    BY <1>0, <1>8 DEF DeleteTexQuad
  <2>3. /\ Emitted(events, "delete", a, FALSE) \in Seq(Event)
        /\ \A i \in DOMAIN Emitted(events, "delete", a, FALSE) :
             Emitted(events, "delete", a, FALSE)[i].to \in ToSet(open)
    BY <1>1, <2>1
  <2>5. /\ quads' \subseteq 0..nextID - 1
        /\ UNCHANGED <<textures, pictures, nextID, windowVars>>
    BY <1>0, <1>8 DEF DeleteTexQuad
  <2>4. /\ events' \in Seq(Event)
        /\ \A i \in DOMAIN events' : events'[i].to \in ToSet(open)
    <3>1. events' = Emitted(Emitted(events, "delete", a, FALSE), "delete", b, FALSE)
      BY <1>8 DEF DeleteTexQuad
    <3> QED
      BY <1>0, <2>1, <2>3, <3>1, EmittedTypes
  <2> QED
    BY <1>0, <1>4, <2>2, <2>4, <2>5
<1>9. ASSUME NEW id \in Id, really_get_frame(id) PROVE WellFormed'
  <2>1. id \in Nat
    BY DEF Id
  <2>0. PICK size \in {1, 2}, tells \in BOOLEAN : \E f : Decoding(id, size, f, tells)
    BY <1>9, Decodes
  <2>2. PICK f : Decoding(id, size, f, tells)
    BY <2>0
  <2>3. f \in Frame /\ pictures' \in Picture
    BY <1>0, <2>2, DecodedFrame
  <2>4. frames' \in [Id -> Frame \cup {NoFrame}]
    BY <1>0, <2>2, <2>3 DEF Decoding
  <2>5. UNCHANGED <<textures, nextID, quads, windowVars>>
    BY <1>9 DEF really_get_frame
  <2>6. events' \in Seq(Event) /\ \A i \in DOMAIN events' : events'[i].to \in ToSet(open)
    <3>1. CASE tells
      <4>1. PICK samep \in BOOLEAN : samep = (frames[id].size = size)
        OBVIOUS
      <4>2. events' = Emitted(events, "tmp", id, samep)
        BY <2>2, <3>1, <4>1 DEF Decoding
      <4> QED
        BY <1>1, <2>1, <4>2
    <3>2. CASE ~tells
      BY <1>0, <2>2, <3>2 DEF Decoding
    <3> QED
      BY <3>1, <3>2
  <2>7. /\ textures' \in Seq(Texture) /\ Len(textures') <= MaxTextures /\ Len(textures') >= Len(textures)
        /\ nextID' \in 0..MaxId /\ quads' \subseteq 0..nextID' - 1 /\ UNCHANGED windowVars
    BY <1>0, <2>5
  <2> QED
    BY <1>4, <2>3, <2>4, <2>6, <2>7
<1> QED
  BY <1>5, <1>6, <1>7, <1>8, <1>9 DEF Pool

\* The steps of a renderer keep the types if what they leave in the window does.
LEMMA WindowStep ==
  ASSUME WellFormed, UNCHANGED poolVars,
         open' \in Seq(Renderers), \A i, j \in DOMAIN open' : open'[i] = open'[j] => i = j,
         current' \in ToSet(open') \cup {None},
         events' \in Seq(Event), \A i \in DOMAIN events' : events'[i].to \in ToSet(open'),
         gl' \in [Renderers -> Context],
         handles' \in [Renderers -> Seq(Name \cup {None})],
         \A r \in Renderers : Len(handles'[r]) <= Len(textures),
         tmpHandles' \in [Renderers -> [Id -> Name \cup {None}]],
         ring' \in [Renderers -> Seq(Name)],
         \A r \in Renderers : ring'[r] # <<>> => Len(ring'[r]) = MaxFeedback,
         fbcounter' \in [Renderers -> 0..MaxFeedback - 1],
         drawn' \in [Renderers -> 0..MaxFrames]
  PROVE  WellFormed'
<1>1. /\ textures' = textures /\ frames' = frames /\ pictures' = pictures
      /\ nextID' = nextID /\ quads' = quads
  BY DEF poolVars
<1> QED
  BY <1>1 DEF WellFormed, TypeOK

\* A delivered signal leaves the ones behind it.
LEMMA DeliveredTypes ==
  ASSUME WellFormed, NEW signal, NEW r \in Renderers, NEW key, Delivers(signal, r, key)
  PROVE  /\ events' \in Seq(Event)
         /\ \A i \in DOMAIN events' : events'[i].to \in ToSet(open)
         /\ r \in ToSet(open)
         /\ Len(events') = Len(events) - 1
         /\ \A i \in DOMAIN events' : i + 1 \in DOMAIN events /\ events'[i] = events[i + 1]
         /\ events[1].signal = signal /\ events[1].to = r /\ events[1].key = key
         /\ 1 \in DOMAIN events
<1>1. /\ events \in Seq(Event) /\ events # <<>>
      /\ events' = Tail(events) /\ Head(events).to = r
      /\ Head(events).signal = signal /\ Head(events).key = key
      /\ \A i \in DOMAIN events : events[i].to \in ToSet(open)
  BY DEF WellFormed, TypeOK, Delivers
<1>2. /\ Len(events) \in Nat /\ Len(events) > 0 /\ DOMAIN events = 1..Len(events)
      /\ Head(events) = events[1]
  BY <1>1
<1>3. /\ events' \in Seq(Event) /\ Len(events') = Len(events) - 1 /\ DOMAIN events' = 1..Len(events')
      /\ \A i \in 1..Len(events') : events'[i] = events[i + 1]
  BY <1>1, <1>2
<1>4. \A i \in 1..Len(events') : i + 1 \in 1..Len(events)
  BY <1>2, <1>3
<1> QED
  BY <1>1, <1>2, <1>3, <1>4

\* delete_texture keeps the types.
LEMMA AfterTypes ==
  ASSUME WellFormed, NEW deletes \in BOOLEAN, NEW r \in Renderers, r \in ToSet(open),
         NEW n \in Name \cup {None}, deletes => n # None
  PROVE  /\ After(deletes, r, n).gl \in [Renderers -> Context]
         /\ After(deletes, r, n).current \in ToSet(open) \cup {None}
<1>1. gl \in [Renderers -> Context] /\ current \in ToSet(open) \cup {None}
  BY DEF WellFormed, TypeOK
<1>2. deletes => n \in 0..MaxName /\ n # 0
  BY Bounds DEF Name, None
<1>3. 0 \in Content
  BY Bounds DEF Content, Picture
<1>4. deletes => Deleted(gl[r], n) \in Context
  BY <1>1, <1>2, <1>3, ContextTypes
<1> QED
  BY <1>1, <1>4 DEF After

\* upload_texture into a new texture keeps the types.
LEMMA GeneratesTypes ==
  ASSUME WellFormed, NEW s, s.gl \in [Renderers -> Context], s.current \in ToSet(open) \cup {None},
         NEW n, NEW p \in Picture, Generates(s, n, p)
  PROVE  /\ gl' \in [Renderers -> Context]
         /\ current' \in ToSet(open) \cup {None}
         /\ n \in Name
<1>1. ToSet(open) \subseteq Renderers
  BY DEF WellFormed, TypeOK, ToSet
<1>2. CASE s.current = None
  BY <1>2 DEF Generates
<1>3. CASE s.current # None
  <2>1. n \in Name /\ gl' = [s.gl EXCEPT ![s.current] = Uploaded(@, n, p)] /\ current' = s.current
    BY <1>3 DEF Generates, Generated, Unused
  <2>2. s.current \in Renderers /\ s.gl[s.current] \in Context
    BY <1>1, <1>3
  <2>3. n \in 0..MaxName /\ p \in Content
    BY <2>1, Bounds DEF Name, Content
  <2>4. Uploaded(s.gl[s.current], n, p) \in Context
    BY <2>2, <2>3, ContextTypes
  <2> QED
    BY <2>1, <2>2, <2>4
<1> QED
  BY <1>2, <1>3

\* A padded vector of handles has its type, and no new name.
LEMMA PaddedTypes ==
  ASSUME NEW h \in Seq(Name \cup {None}), NEW n \in Nat
  PROVE  /\ Padded(h, n) \in Seq(Name \cup {None})
         /\ Len(Padded(h, n)) = IF Len(h) < n THEN n ELSE Len(h)
         /\ \A i \in 1..Len(Padded(h, n)) :
              Padded(h, n)[i] = IF i <= Len(h) THEN h[i] ELSE None
<1> DEFINE m == IF Len(h) < n THEN n ELSE Len(h)
           g == [i \in 1..m |-> IF i <= Len(h) THEN h[i] ELSE None]
<1>1. m \in Nat /\ Len(h) \in Nat /\ DOMAIN h = 1..Len(h)
  OBVIOUS
<1>2. Padded(h, n) = g
  BY DEF Padded
<1>3. \A i \in 1..m : i <= Len(h) => h[i] \in Name \cup {None}
  BY <1>1
<1> HIDE DEF m
<1>4. g \in [1..m -> Name \cup {None}]
  BY <1>3
<1>5. g \in Seq(Name \cup {None}) /\ Len(g) = m /\ \A i \in 1..m : g[i] = IF i <= Len(h) THEN h[i] ELSE None
  BY <1>1, <1>4
<1> QED
  BY <1>2, <1>5 DEF m

\* The signals delivered to a renderer keep the types.
LEMMA DeliveryTypes ==
  ASSUME WellFormed, NEW r \in Renderers,
         \/ \E index \in Index : change_texture(r, index)
         \/ \E id \in Id : change_tmp_texture(r, id) \/ delete_tmp_texture(r, id)
  PROVE  WellFormed'
<1>0. /\ textures \in Seq(Texture) /\ frames \in [Id -> Frame \cup {NoFrame}]
      /\ gl \in [Renderers -> Context] /\ handles \in [Renderers -> Seq(Name \cup {None})]
      /\ \A q \in Renderers : Len(handles[q]) <= Len(textures)
      /\ tmpHandles \in [Renderers -> [Id -> Name \cup {None}]]
      /\ current \in ToSet(open) \cup {None}
      /\ ToSet(open) \subseteq Renderers
  BY DEF WellFormed, TypeOK, ToSet
<1>1. ASSUME NEW signal, NEW key, Delivers(signal, r, key),
             gl' \in [Renderers -> Context], current' \in ToSet(open) \cup {None},
             handles' \in [Renderers -> Seq(Name \cup {None})],
             \A q \in Renderers : Len(handles'[q]) <= Len(textures),
             tmpHandles' \in [Renderers -> [Id -> Name \cup {None}]]
      PROVE  WellFormed'
  <2>1. /\ UNCHANGED poolVars /\ open' = open
        /\ ring' = ring /\ fbcounter' = fbcounter /\ drawn' = drawn
    BY <1>1 DEF Delivers, feedbackVars
  <2>2. events' \in Seq(Event) /\ \A i \in DOMAIN events' : events'[i].to \in ToSet(open)
    BY <1>1, DeliveredTypes
  <2>3. /\ open \in Seq(Renderers) /\ \A i, j \in DOMAIN open : open[i] = open[j] => i = j
        /\ ring \in [Renderers -> Seq(Name)]
        /\ \A q \in Renderers : ring[q] # <<>> => Len(ring[q]) = MaxFeedback
        /\ fbcounter \in [Renderers -> 0..MaxFeedback - 1] /\ drawn \in [Renderers -> 0..MaxFrames]
    BY DEF WellFormed, TypeOK
  <2> QED
    BY <1>1, <2>1, <2>2, <2>3, WindowStep
<1>2. ASSUME NEW index \in Index, change_texture(r, index) PROVE WellFormed'
  <2> DEFINE h == Padded(handles[r], index + 1)
             s == After(h[index + 1] # None, r, h[index + 1])
  <2>1. Delivers("changed", r, index) /\ tmpHandles' = tmpHandles
    BY <1>2 DEF change_texture
  <2>2. r \in ToSet(open)
    BY <2>1, DeliveredTypes
  <2>3. index \in Nat /\ index + 1 \in DOMAIN textures /\ index + 1 <= Len(textures)
    BY <1>0 DEF Index
  <2>4. /\ h \in Seq(Name \cup {None})
        /\ Len(h) <= Len(textures) /\ index + 1 \in 1..Len(h)
        /\ index + 1 \in DOMAIN h /\ h[index + 1] \in Name \cup {None}
    BY <1>0, <2>3, PaddedTypes
  <2>5. \/ gl' = s.gl /\ current' = s.current /\ handles' = [handles EXCEPT ![r] = h]
        \/ \E n \in Name : /\ Generates(s, n, textures[index + 1].pic)
                           /\ handles' = [handles EXCEPT ![r] = [h EXCEPT ![index + 1] = n]]
    BY <1>2 DEF change_texture
  <2>6. textures[index + 1].pic \in Picture
    <3>1. textures[index + 1] \in Texture
      BY <1>0, <2>3
    <3> QED
      BY <3>1 DEF Texture
  <2> HIDE DEF h
  <2>7. s.gl \in [Renderers -> Context] /\ s.current \in ToSet(open) \cup {None}
    BY <2>2, <2>4, AfterTypes
  <2> HIDE DEF s
  <2>8. gl' \in [Renderers -> Context] /\ current' \in ToSet(open) \cup {None}
    BY <2>5, <2>6, <2>7, GeneratesTypes
  <2>9. \E g \in Seq(Name \cup {None}) : /\ handles' = [handles EXCEPT ![r] = g]
                                         /\ Len(g) = Len(h)
    <3>1. ASSUME NEW n \in Name
          PROVE  [h EXCEPT ![index + 1] = n] \in Seq(Name \cup {None}) /\ Len([h EXCEPT ![index + 1] = n]) = Len(h)
      BY <2>4
    <3> QED
      BY <2>4, <2>5, <3>1
  <2>10. /\ handles' \in [Renderers -> Seq(Name \cup {None})]
         /\ \A q \in Renderers : Len(handles'[q]) <= Len(textures)
    BY <1>0, <2>4, <2>9
  <2> QED
    BY <1>0, <1>1, <2>1, <2>8, <2>10
<1>3. ASSUME NEW id \in Id, change_tmp_texture(r, id) PROVE WellFormed'
  <2> DEFINE h == tmpHandles[r][id]
             s == After(h # None /\ ~Head(events).samep, r, h)
  <2>1. Delivers("tmp", r, id) /\ handles' = handles
    BY <1>3 DEF change_tmp_texture
  <2>2. r \in ToSet(open)
    BY <2>1, DeliveredTypes
  <2>3. h \in Name \cup {None}
    BY <1>0
  <2>4. \/ gl' = s.gl /\ current' = s.current /\ UNCHANGED tmpHandles
        \/ /\ frames[id] # NoFrame
           /\ \E n \in Name : /\ Generates(s, n, frames[id].pic)
                              /\ tmpHandles' = [tmpHandles EXCEPT ![r][id] = n]
        \/ /\ frames[id] # NoFrame
           /\ gl' = IF current = None THEN gl
                    ELSE [gl EXCEPT ![current] = Uploaded(@, IF h = None THEN 0 ELSE h, frames[id].pic)]
           /\ UNCHANGED <<current, tmpHandles>>
    BY <1>3 DEF change_tmp_texture
  <2>5. frames[id] # NoFrame => frames[id].pic \in Picture
    BY <1>0 DEF Frame
  <2>6. s.gl \in [Renderers -> Context] /\ s.current \in ToSet(open) \cup {None}
    <3>1. (h # None /\ ~Head(events).samep) \in BOOLEAN
      OBVIOUS
    <3> HIDE DEF h
    <3> QED
      BY <2>2, <2>3, <3>1, AfterTypes
  <2> HIDE DEF s
  <2>7. CASE gl' = s.gl /\ current' = s.current /\ UNCHANGED tmpHandles
    BY <1>0, <1>1, <2>1, <2>6, <2>7
  <2>8. ASSUME frames[id] # NoFrame, NEW n \in Name, Generates(s, n, frames[id].pic),
               tmpHandles' = [tmpHandles EXCEPT ![r][id] = n]
        PROVE  WellFormed'
    <3>1. gl' \in [Renderers -> Context] /\ current' \in ToSet(open) \cup {None}
      BY <2>5, <2>6, <2>8, GeneratesTypes
    <3>2. tmpHandles' \in [Renderers -> [Id -> Name \cup {None}]]
      BY <1>0, <2>8
    <3> QED
      BY <1>0, <1>1, <2>1, <3>1, <3>2
  <2>9. ASSUME frames[id] # NoFrame, UNCHANGED <<current, tmpHandles>>,
               gl' = IF current = None THEN gl
                     ELSE [gl EXCEPT ![current] = Uploaded(@, IF h = None THEN 0 ELSE h, frames[id].pic)]
        PROVE  WellFormed'
    <3>1. /\ (IF h = None THEN 0 ELSE h) \in 0..MaxName
          /\ frames[id].pic \in Content
      BY <2>3, <2>5, <2>9, Bounds DEF Name, Content
    <3>2. current # None =>
            Uploaded(gl[current], IF h = None THEN 0 ELSE h, frames[id].pic) \in Context
      BY <1>0, <3>1, ContextTypes
    <3>3. gl' \in [Renderers -> Context]
      BY <1>0, <2>9, <3>2
    <3> QED
      BY <1>0, <1>1, <2>1, <2>9, <3>3
  <2> QED
    BY <2>4, <2>7, <2>8, <2>9
<1>4. ASSUME NEW id \in Id, delete_tmp_texture(r, id) PROVE WellFormed'
  <2> DEFINE h == tmpHandles[r][id]
             s == After(h # None, r, h)
  <2>1. /\ Delivers("delete", r, id) /\ handles' = handles /\ tmpHandles' = tmpHandles
        /\ gl' = s.gl /\ current' = s.current
    BY <1>4 DEF delete_tmp_texture
  <2>2. r \in ToSet(open) /\ h \in Name \cup {None}
    BY <1>0, <2>1, DeliveredTypes
  <2>3. s.gl \in [Renderers -> Context] /\ s.current \in ToSet(open) \cup {None}
    <3> HIDE DEF h
    <3> QED
      BY <2>2, AfterTypes
  <2> QED
    BY <1>0, <1>1, <2>1, <2>3
<1> QED
  BY <1>2, <1>3, <1>4

\* A window opens with a context of its own.
LEMMA OpenTypes ==
  ASSUME WellFormed, NEW r \in Renderers, OpenWindow(r)
  PROVE  WellFormed'
<1> DEFINE names == init_textures
           Shows(n, p) == \/ \E i \in DOMAIN textures : names.handles[i] = n /\ textures[i].pic = p
                          \/ \E id \in Id : names.tmp[id] = n /\ frames[id].pic = p
           used == {n \in Name : \E p \in Picture : Shows(n, p)}
           c == [texture |-> [n \in Name |-> IF n \in used THEN CHOOSE p \in Picture : Shows(n, p)
                                             ELSE Free],
                 bound |-> Cardinality(used)]
<1>1. /\ textures \in Seq(Texture) /\ open \in Seq(Renderers) /\ events \in Seq(Event)
      /\ gl \in [Renderers -> Context] /\ handles \in [Renderers -> Seq(Name \cup {None})]
      /\ tmpHandles \in [Renderers -> [Id -> Name \cup {None}]]
      /\ \A q \in Renderers : Len(handles[q]) <= Len(textures)
      /\ \A i \in DOMAIN events : events[i].to \in ToSet(open)
      /\ \A i, j \in DOMAIN open : open[i] = open[j] => i = j
      /\ ring \in [Renderers -> Seq(Name)] /\ fbcounter \in [Renderers -> 0..MaxFeedback - 1]
      /\ \A q \in Renderers : ring[q] # <<>> => Len(ring[q]) = MaxFeedback
      /\ drawn \in [Renderers -> 0..MaxFrames]
  BY DEF WellFormed, TypeOK
<1>2. /\ r \notin ToSet(open) /\ open' = Append(open, r) /\ current' = r
      /\ handles' = [handles EXCEPT ![r] = names.handles]
      /\ tmpHandles' = [tmpHandles EXCEPT ![r] = names.tmp]
      /\ gl' = [gl EXCEPT ![r] = c]
      /\ UNCHANGED <<poolVars, events, feedbackVars>>
  BY DEF OpenWindow
<1>3. Cardinality(Images) + Cardinality(Framed) <= MaxName
  BY DEF OpenWindow, Images, Framed
<1>4. names.handles \in [DOMAIN textures -> Name \cup {None}] /\ names.tmp \in [Id -> Name \cup {None}]
  BY <1>1, <1>3, NewNames
<1> HIDE DEF names
<1>5. names.handles \in Seq(Name \cup {None}) /\ Len(names.handles) = Len(textures)
  BY <1>1, <1>4
<1>6. c \in Context
  <2>1. used \subseteq 1..MaxName
    BY DEF Name
  <2>2. Cardinality(used) \in 0..MaxName
    <3>1. IsFiniteSet(1..MaxName) /\ Cardinality(1..MaxName) = MaxName
      BY Bounds, FS_Interval
    <3>2. IsFiniteSet(used) /\ Cardinality(used) <= MaxName
      BY <2>1, <3>1, FS_Subset
    <3>3. Cardinality(used) \in Nat
      BY <3>2, FS_CardinalityType
    <3> QED
      BY <3>2, <3>3, Bounds
  <2>3. \A n \in used : (CHOOSE p \in Picture : Shows(n, p)) \in Picture
    <3> HIDE DEF Shows
    <3> QED
      OBVIOUS
  <2>4. Picture \subseteq Content /\ Free \in Content
    BY DEF Content
  <2> HIDE DEF used, Shows
  <2>5. c.texture \in [Name -> Content]
    BY <2>3, <2>4
  <2> QED
    BY <2>2, <2>5 DEF Context, Content
<1>7. /\ gl' \in [Renderers -> Context] /\ handles' \in [Renderers -> Seq(Name \cup {None})]
      /\ tmpHandles' \in [Renderers -> [Id -> Name \cup {None}]]
      /\ \A q \in Renderers : Len(handles'[q]) <= Len(textures)
  <2> HIDE DEF c
  <2> QED
    BY <1>1, <1>2, <1>4, <1>5, <1>6
<1>8. /\ open' \in Seq(Renderers) /\ DOMAIN open' = 1..Len(open) + 1 /\ Len(open) \in Nat
      /\ \A i \in 1..Len(open) : open'[i] = open[i]
      /\ open'[Len(open) + 1] = r /\ DOMAIN open = 1..Len(open)
  BY <1>1, <1>2
<1>9. \A i \in 1..Len(open) : open[i] # r
  BY <1>2, <1>8 DEF ToSet
<1>10. \A i, j \in DOMAIN open' : open'[i] = open'[j] => i = j
  <2> SUFFICES ASSUME NEW i \in 1..Len(open) + 1, NEW j \in 1..Len(open) + 1, open'[i] = open'[j]
               PROVE  i = j
    BY <1>8
  <2>1. (i \in 1..Len(open) \/ i = Len(open) + 1) /\ (j \in 1..Len(open) \/ j = Len(open) + 1)
    BY <1>8
  <2> QED
    BY <1>1, <1>8, <1>9, <2>1
<1>11. ToSet(open) \subseteq ToSet(open') /\ r \in ToSet(open')
  <2>1. \A i \in DOMAIN open : i \in DOMAIN open' /\ open'[i] = open[i]
    BY <1>8
  <2>2. Len(open) + 1 \in DOMAIN open'
    BY <1>8
  <2> QED
    BY <1>8, <2>1, <2>2 DEF ToSet
<1>12. /\ current' \in ToSet(open') \cup {None}
       /\ events' \in Seq(Event) /\ \A i \in DOMAIN events' : events'[i].to \in ToSet(open')
  BY <1>1, <1>2, <1>11
<1>13. UNCHANGED poolVars /\ ring' = ring /\ fbcounter' = fbcounter /\ drawn' = drawn
  BY <1>2 DEF feedbackVars
<1> QED
  BY <1>1, <1>7, <1>8, <1>10, <1>12, <1>13, WindowStep

\* A window closes, and with it go the signals for it.
LEMMA CloseTypes ==
  ASSUME WellFormed, NEW r \in Renderers, CloseWindow(r)
  PROVE  WellFormed'
<1>1. /\ open \in Seq(Renderers) /\ events \in Seq(Event)
      /\ gl \in [Renderers -> Context] /\ handles \in [Renderers -> Seq(Name \cup {None})]
      /\ tmpHandles \in [Renderers -> [Id -> Name \cup {None}]]
      /\ \A q \in Renderers : Len(handles[q]) <= Len(textures)
      /\ textures \in Seq(Texture)
      /\ \A i \in DOMAIN events : events[i].to \in ToSet(open)
      /\ \A i, j \in DOMAIN open : open[i] = open[j] => i = j
      /\ ring \in [Renderers -> Seq(Name)] /\ fbcounter \in [Renderers -> 0..MaxFeedback - 1]
      /\ \A q \in Renderers : ring[q] # <<>> => Len(ring[q]) = MaxFeedback
      /\ drawn \in [Renderers -> 0..MaxFrames]
  BY DEF WellFormed, TypeOK
<1>2. PICK place \in DOMAIN open : open[place] = r /\ open' = RemoveAt(open, place)
  BY DEF CloseWindow
<1>3. place \in 1..Len(open) /\ Len(open) \in Nat /\ DOMAIN open = 1..Len(open)
  BY <1>1, <1>2
<1> DEFINE old(i) == IF i < place THEN i ELSE i + 1
<1>4. /\ open' \in Seq(Renderers) /\ Len(open') = Len(open) - 1
      /\ \A i \in 1..Len(open) - 1 : open'[i] = open[old(i)]
  <2>0. open \in Seq(Renderers)
    BY <1>1
  <2>1. /\ RemoveAt(open, place) \in Seq(Renderers) /\ Len(RemoveAt(open, place)) = Len(open) - 1
        /\ \A i \in 1..Len(open) - 1 :
             RemoveAt(open, place)[i] = open[IF i < place THEN i ELSE i + 1]
    BY <1>3, <2>0, Removed
  <2> QED
    BY <1>2, <2>1
<1>5. /\ DOMAIN open' = 1..Len(open) - 1
      /\ \A i \in 1..Len(open) - 1 : old(i) \in 1..Len(open) /\ old(i) # place
  BY <1>3, <1>4
<1>6. \A i, j \in DOMAIN open' : open'[i] = open'[j] => i = j
  <2> SUFFICES ASSUME NEW i \in DOMAIN open', NEW j \in DOMAIN open', open'[i] = open'[j] PROVE i = j
    OBVIOUS
  <2>1. i \in 1..Len(open) - 1 /\ j \in 1..Len(open) - 1
    BY <1>5
  <2>2. open[old(i)] = open[old(j)] /\ old(i) \in DOMAIN open /\ old(j) \in DOMAIN open
    BY <1>3, <1>4, <1>5, <2>1
  <2>3. old(i) = old(j)
    <3> HIDE DEF old
    <3> QED
      BY <1>1, <2>2
  <2> QED
    BY <1>3, <2>1, <2>3
<1>7. \A q \in ToSet(open) : q # r => q \in ToSet(open')
  <2> SUFFICES ASSUME NEW i \in DOMAIN open, open[i] # r PROVE open[i] \in ToSet(open')
    BY DEF ToSet
  <2>1. i # place
    BY <1>2
  <2> DEFINE j == IF i < place THEN i ELSE i - 1
  <2>2. j \in 1..Len(open) - 1 /\ old(j) = i
    BY <1>3, <2>1
  <2>3. j \in DOMAIN open' /\ open'[j] = open[i]
    <3> HIDE DEF j, old
    <3> QED
      BY <1>4, <1>5, <2>2
  <2> HIDE DEF j
  <2> QED
    BY <2>3 DEF ToSet
<1>8. events' \in Seq(Event) /\ \A i \in DOMAIN events' : events'[i].to \in ToSet(open')
  <2> DEFINE Others == {events[i] : i \in {j \in DOMAIN events : events[j].to # r}}
  <2>1. events' \in Seq(Others)
    BY <1>1, KeptEvents DEF CloseWindow
  <2>2. ASSUME NEW e \in Others PROVE e \in Event /\ e.to \in ToSet(open')
    <3>1. PICK i \in DOMAIN events : e = events[i] /\ events[i].to # r
      OBVIOUS
    <3> HIDE DEF Others
    <3>2. events[i] \in Event /\ events[i].to \in ToSet(open)
      BY <1>1
    <3>3. events[i].to \in ToSet(open')
      BY <1>7, <3>1, <3>2
    <3> QED
      BY <3>1, <3>2, <3>3
  <2> HIDE DEF Others
  <2> QED
    BY <2>1, <2>2
<1>9. gl' \in [Renderers -> Context]
  <2>1. 0 \in 0..MaxName /\ 0 \in Content /\ gl[r] \in Context
    BY <1>1, Bounds DEF Content, Picture
  <2>2. NewContext \in Context
    BY <2>1, ContextTypes
  <2> QED
    BY <1>1, <2>2 DEF CloseWindow
<1>10. /\ handles' = [handles EXCEPT ![r] = <<>>]
       /\ tmpHandles' = [tmpHandles EXCEPT ![r] = [id \in Id |-> None]]
       /\ ring' = [ring EXCEPT ![r] = <<>>]
       /\ fbcounter' = [fbcounter EXCEPT ![r] = 0]
       /\ drawn' = [drawn EXCEPT ![r] = 0]
       /\ UNCHANGED poolVars /\ current' = None
  BY DEF CloseWindow
<1>11. /\ handles' \in [Renderers -> Seq(Name \cup {None})]
       /\ \A q \in Renderers : Len(handles'[q]) <= Len(textures)
  <2>1. <<>> \in Seq(Name \cup {None}) /\ Len(<<>>) <= Len(textures)
    BY <1>1
  <2> QED
    BY <1>1, <1>10, <2>1
<1>12. /\ tmpHandles' \in [Renderers -> [Id -> Name \cup {None}]]
       /\ ring' \in [Renderers -> Seq(Name)]
       /\ \A q \in Renderers : ring'[q] # <<>> => Len(ring'[q]) = MaxFeedback
  <2>1. <<>> \in Seq(Name) /\ [id \in Id |-> None] \in [Id -> Name \cup {None}]
    OBVIOUS
  <2> QED
    BY <1>1, <1>10, <2>1
<1>13. fbcounter' \in [Renderers -> 0..MaxFeedback - 1] /\ drawn' \in [Renderers -> 0..MaxFrames]
  <2>1. 0 \in 0..MaxFeedback - 1 /\ 0 \in 0..MaxFrames
    BY Bounds
  <2> QED
    BY <1>1, <1>10, <2>1
<1> QED
  BY <1>4, <1>6, <1>8, <1>9, <1>10, <1>11, <1>12, <1>13, WindowStep

\* The ring that a frame is drawn with, and the context it is drawn to.
RingFor(r) == IF ring[r] = <<>> THEN NewRings(gl[r]) ELSE {ring[r]}

StartOf(r, past) == IF ring[r] = <<>> THEN change_feedback_frames(gl[r], past) ELSE gl[r]

\* A past frame has a place in the ring.
LEMMA PlaceInRing ==
  ASSUME NEW k \in 0..MaxFeedback - 1, NEW p \in Int
  PROVE  ((MaxFeedback - p + k) % MaxFeedback) + 1 \in 1..MaxFeedback
<1>1. MaxFeedback \in Int /\ MaxFeedback > 0 /\ MaxFeedback - p + k \in Int
  BY Bounds
<1>2. (MaxFeedback - p + k) % MaxFeedback \in 0..MaxFeedback - 1
  BY <1>1
<1> QED
  BY <1>1, <1>2

\* What drawing starts with, and the names of the faces' textures, have their types.
LEMMA DrawingTypes ==
  ASSUME WellFormed, NEW r \in Renderers, NEW past \in RingFor(r)
  PROVE  /\ past \in Seq(Name) /\ Len(past) = MaxFeedback
         /\ StartOf(r, past) \in Context
         /\ \A face \in Face : FaceName(r, past, face) \in Name \cup {None}
<1>1. /\ textures \in Seq(Texture) /\ gl \in [Renderers -> Context]
      /\ handles \in [Renderers -> Seq(Name \cup {None})]
      /\ Len(handles[r]) <= Len(textures)
      /\ tmpHandles \in [Renderers -> [Id -> Name \cup {None}]]
      /\ ring \in [Renderers -> Seq(Name)] /\ fbcounter \in [Renderers -> 0..MaxFeedback - 1]
      /\ ring[r] # <<>> => Len(ring[r]) = MaxFeedback
  BY DEF WellFormed, TypeOK
<1>2. past \in Seq(Name) /\ Len(past) = MaxFeedback
  <2>1. CASE ring[r] = <<>>
    <3>1. past \in [1..MaxFeedback -> Name]
      BY <2>1 DEF RingFor, NewRings, Unused
    <3> QED
      BY <3>1, Bounds
  <2>2. CASE ring[r] # <<>>
    BY <1>1, <2>2 DEF RingFor
  <2> QED
    BY <2>1, <2>2
<1>3. \A k \in 1..MaxFeedback : past[k] \in Name
  BY <1>2
<1>4. StartOf(r, past) \in Context
  <2>1. MaxFeedback \in 1..MaxFeedback
    BY Bounds
  <2>2. gl[r].texture \in [Name -> Content] /\ gl[r] \in Context
    BY <1>1 DEF Context, Content
  <2>3. 0 \in Content
    BY Bounds DEF Content, Picture
  <2>4. [n \in Name |-> IF n \in ToSet(past) THEN 0 ELSE gl[r].texture[n]] \in [Name -> Content]
    BY <2>2, <2>3
  <2>5. past[MaxFeedback] \in 0..MaxName
    BY <1>3, <2>1, Bounds DEF Name
  <2> QED
    BY <2>2, <2>4, <2>5 DEF StartOf, change_feedback_frames, Context, Content
<1>5. ASSUME NEW face \in Face PROVE FaceName(r, past, face) \in Name \cup {None}
  <2>1. face.tex \in Nat /\ face.frame \in Id /\ face.past \in Int
    BY Bounds DEF Face
  <2>2. ((MaxFeedback - face.past + fbcounter[r]) % MaxFeedback) + 1 \in 1..MaxFeedback
    BY <1>1, <2>1, PlaceInRing
  <2>3. past[((MaxFeedback - face.past + fbcounter[r]) % MaxFeedback) + 1] \in Name
    BY <1>3, <2>2
  <2>4. tmpHandles[r][face.frame] \in Name \cup {None}
    BY <1>1, <2>1
  <2>5. ~(face.tex >= Len(handles[r])) => handles[r][face.tex + 1] \in Name \cup {None}
    <3>1. handles[r] \in Seq(Name \cup {None}) /\ Len(handles[r]) \in Nat
      BY <1>1
    <3>2. ~(face.tex >= Len(handles[r])) => face.tex + 1 \in 1..Len(handles[r])
      BY <2>1, <3>1
    <3> QED
      BY <3>1, <3>2
  <2> QED
    BY <2>3, <2>4, <2>5 DEF FaceName
<1> QED
  BY <1>2, <1>4, <1>5

\* What a frame leaves.
LEMMA DrawEffect ==
  ASSUME NEW r \in Renderers, NEW scene, Draw(r, scene)
  PROVE  \E past \in RingFor(r) :
           /\ ring' = [ring EXCEPT ![r] = past]
           /\ gl' = [gl EXCEPT ![r] =
                       IF \A face \in ToSet(scene) : ~(face.past > 0)
                       THEN Drawn(r, past, StartOf(r, past), scene)
                       ELSE Filled(Drawn(r, past, StartOf(r, past), scene), -drawn'[r])]
<1>1. {face \in ToSet(scene) : face.past > 0} = {} <=> \A face \in ToSet(scene) : ~(face.past > 0)
  OBVIOUS
<1> QED
  BY <1>1 DEF Draw, RingFor, StartOf

\* A frame keeps the types.
LEMMA DrawTypes ==
  ASSUME WellFormed, NEW r \in Renderers, NEW scene \in Scenes, Draw(r, scene)
  PROVE  WellFormed'
<1>1. /\ textures \in Seq(Texture) /\ gl \in [Renderers -> Context]
      /\ handles \in [Renderers -> Seq(Name \cup {None})]
      /\ \A q \in Renderers : Len(handles[q]) <= Len(textures)
      /\ tmpHandles \in [Renderers -> [Id -> Name \cup {None}]]
      /\ ring \in [Renderers -> Seq(Name)] /\ fbcounter \in [Renderers -> 0..MaxFeedback - 1]
      /\ \A q \in Renderers : ring[q] # <<>> => Len(ring[q]) = MaxFeedback
      /\ drawn \in [Renderers -> 0..MaxFrames] /\ open \in Seq(Renderers)
      /\ \A i, j \in DOMAIN open : open[i] = open[j] => i = j
      /\ events \in Seq(Event) /\ \A i \in DOMAIN events : events[i].to \in ToSet(open)
  BY DEF WellFormed, TypeOK
<1>2. /\ r \in ToSet(open) /\ drawn[r] < MaxFrames
      /\ drawn' = [drawn EXCEPT ![r] = @ + 1] /\ current' = r
      /\ fbcounter' = [fbcounter EXCEPT ![r] = NextPlace(@)]
      /\ UNCHANGED <<poolVars, events, open, handles, tmpHandles>>
  BY DEF Draw
<1>3. PICK past \in RingFor(r) :
        /\ ring' = [ring EXCEPT ![r] = past]
        /\ gl' = [gl EXCEPT ![r] =
                    IF \A face \in ToSet(scene) : ~(face.past > 0)
                    THEN Drawn(r, past, StartOf(r, past), scene)
                    ELSE Filled(Drawn(r, past, StartOf(r, past), scene), -drawn'[r])]
  BY DrawEffect
<1>4. /\ past \in Seq(Name) /\ Len(past) = MaxFeedback
      /\ StartOf(r, past) \in Context
      /\ \A face \in Face : FaceName(r, past, face) \in Name \cup {None}
  BY DrawingTypes
<1>5. scene \in Seq(Face) /\ \A k \in DOMAIN scene : scene[k] \in Face
  BY BoundsAssumption
<1>6. drawn' \in [Renderers -> 0..MaxFrames] /\ -drawn'[r] \in Content /\ 0 \in Content
  <2>1. drawn[r] + 1 \in 1..MaxFrames /\ drawn'[r] = drawn[r] + 1
    BY <1>1, <1>2, Bounds
  <2> QED
    BY <1>1, <1>2, <2>1, Bounds DEF Content, Picture
<1>7. Drawn(r, past, StartOf(r, past), scene) \in Context
  <2>1. ASSUME NEW c \in Context, NEW k \in DOMAIN scene, FaceName(r, past, scene[k]) # None
        PROVE  Bound(c, FaceName(r, past, scene[k])) \in Context
    <3>1. FaceName(r, past, scene[k]) \in 0..MaxName
      BY <1>4, <1>5, <2>1, Bounds DEF Name
    <3> QED
      BY <1>6, <3>1, ContextTypes
  <2> QED
    BY <1>4, <1>5, <2>1, DrawnIn
<1>8. Filled(Drawn(r, past, StartOf(r, past), scene), -drawn'[r]) \in Context
  <2>1. 0 \in 0..MaxName
    BY Bounds
  <2> QED
    BY <1>6, <1>7, <2>1, ContextTypes
<1>9. gl' \in [Renderers -> Context]
  BY <1>1, <1>3, <1>7, <1>8
<1>10. ring' \in [Renderers -> Seq(Name)] /\ \A q \in Renderers : ring'[q] # <<>> => Len(ring'[q]) = MaxFeedback
  BY <1>1, <1>3, <1>4
<1>11. fbcounter' \in [Renderers -> 0..MaxFeedback - 1]
  <2>1. fbcounter[r] + 1 \in Int /\ MaxFeedback \in Int /\ MaxFeedback > 0
    BY <1>1, Bounds
  <2>2. NextPlace(fbcounter[r]) \in 0..MaxFeedback - 1
    BY <2>1 DEF NextPlace
  <2> QED
    BY <1>1, <1>2, <2>2
<1> QED
  BY <1>1, <1>2, <1>6, <1>9, <1>10, <1>11, WindowStep

\* At the start the pool is empty and there is no window.
LEMMA InitTypes == Init => WellFormed
<1> SUFFICES ASSUME Init PROVE WellFormed
  OBVIOUS
<1> USE Bounds
<1>1. 0 \in Picture /\ 0 \in 0..MaxId /\ 0 \in 0..MaxFeedback - 1 /\ 0 \in 0..MaxFrames
      /\ 0 \in Content /\ 0 \in 0..MaxName
  BY DEF Picture, Content
<1>2. NewContext \in Context
  BY DEF NewContext, Context, Name, Content
<1>3. /\ <<>> \in Seq(Texture) /\ <<>> \in Seq(Event) /\ <<>> \in Seq(Renderers)
      /\ <<>> \in Seq(Name) /\ <<>> \in Seq(Name \cup {None}) /\ Len(<<>>) = 0 /\ DOMAIN <<>> = {}
  OBVIOUS
<1>4. TypeOK
  BY <1>1, <1>2, <1>3 DEF Init, TypeOK
<1> QED
  BY <1>3, <1>4 DEF Init, WellFormed

\* Every variable has its type, with any number of windows, whatever goes wrong.
THEOREM TexturesTypes == Spec => []TypeOK
<1>1. Init => WellFormed
  BY InitTypes
<1>2. WellFormed /\ [Next]_vars => WellFormed'
  <2> SUFFICES ASSUME WellFormed, [Next]_vars PROVE WellFormed'
    OBVIOUS
  <2>1. CASE Pool
    BY <2>1, PoolTypes
  <2>2. ASSUME NEW r \in Renderers, Window(r) PROVE WellFormed'
    BY <2>2, OpenTypes, CloseTypes, DeliveryTypes, DrawTypes DEF Window
  <2>3. CASE UNCHANGED vars
    BY <2>3 DEF vars, poolVars, windowVars, feedbackVars, WellFormed, TypeOK
  <2> QED
    BY <2>1, <2>2, <2>3 DEF Next
<1>3. WellFormed => TypeOK
  BY DEF WellFormed
<1> QED
  BY <1>1, <1>2, <1>3, PTL DEF Spec

-----------------------------------------------------------------------------
(* One window, and nothing that goes wrong: frames come for quads that are *)
(* alive, in the size of their video, and a past frame is drawn last.      *)

PastsLast ==
  \A scene \in Scenes : (\E face \in ToSet(scene) : face.past > 0) =>
    scene # <<>> /\ scene[Len(scene)].past > 0

Simple(w) == Renderers = {w} /\ Trouble = {} /\ PastsLast

\* The window is closed, and nothing is left of it, or open and current.
ClosedOrOpen(w) ==
  \/ /\ open = <<>> /\ current = None /\ events = <<>>
     /\ gl[w].texture = [n \in Name |-> Free] /\ handles[w] = <<>> /\ ring[w] = <<>>
     /\ tmpHandles[w] = [id \in Id |-> None]
  \/ open = <<w>> /\ current = w

\* Word of the first frame of a buffer, of which there is no texture yet.
First(i, id) == events[i].signal = "tmp" /\ ~events[i].samep /\ events[i].key = id

About(i, id) == events[i].signal # "changed" /\ events[i].key = id

\* There is a texture for the buffer, or there will be, by the i-th event.
HasName(w, id, i) ==
  tmpHandles[w][id] # None \/ \E j \in DOMAIN events : j < i /\ First(j, id)

FramesHaveQuads ==
  \A id \in Id : frames[id] # NoFrame => id \in quads /\ frames[id].size = 1

NamesHaveFrames(w) ==
  \A id \in Id : /\ tmpHandles[w][id] # None => id < nextID
                 /\ id \in quads /\ frames[id] = NoFrame => tmpHandles[w][id] = None

\* The renderers were told when the texture was made.
Announced(id) == frames[id] # NoFrame /\ frames[id].announced

FramesHaveNames(w) ==
  open = <<w>> => \A id \in Id : Announced(id) => HasName(w, id, Len(events) + 1)

KeysAreKnown == \A i \in DOMAIN events, id \in Nat : About(i, id) => id \in Id /\ id < nextID

\* Word of the end of a quad is the last of it.
DeletedLast ==
  \A i \in DOMAIN events, id \in Id : events[i].signal = "delete" /\ events[i].key = id =>
    id \notin quads /\ \A j \in DOMAIN events : About(j, id) => j <= i

Ends(w, id) == Pending("delete", w, id)

Alive(w, id) == id \in quads \/ Ends(w, id)

FramesAreAlive(w) ==
  \A i \in DOMAIN events, id \in Id : events[i].signal = "tmp" /\ events[i].key = id => Alive(w, id)

\* Word of the first frame comes before any other of the frames.
FirstIsFirst(w) ==
  \A i \in DOMAIN events, id \in Id : First(i, id) =>
    /\ tmpHandles[w][id] = None
    /\ Announced(id) \/ id \notin quads
    /\ \A j \in DOMAIN events : events[j].signal = "tmp" /\ events[j].key = id => i <= j

OthersHaveNames(w) ==
  \A i \in DOMAIN events, id \in quads :
    events[i].signal = "tmp" /\ events[i].samep /\ events[i].key = id /\ Announced(id) => HasName(w, id, i)

\* There is no word of a frame without a texture, as long as there is the quad.
WordsHaveFrames ==
  \A i \in DOMAIN events, id \in quads :
    events[i].signal = "tmp" /\ events[i].key = id => frames[id] # NoFrame

Signals(w) ==
  /\ FramesHaveQuads /\ NamesHaveFrames(w) /\ FramesHaveNames(w)
  /\ KeysAreKnown /\ DeletedLast /\ FramesAreAlive(w)
  /\ FirstIsFirst(w) /\ OthersHaveNames(w) /\ WordsHaveFrames

\* The textures of the context have one owner each, and are all that is in use.
Slot == ({"image"} \X (1..MaxTextures)) \cup ({"frame"} \X Id) \cup ({"past"} \X (1..MaxFeedback))

ImageName(w, i) == IF i <= Len(handles[w]) THEN handles[w][i] ELSE None
FrameName(w, id) == IF Alive(w, id) THEN tmpHandles[w][id] ELSE None
PastName(w, k) == IF k <= Len(ring[w]) THEN ring[w][k] ELSE None

Owner(w) == [s \in Slot |-> IF s[1] = "image" THEN ImageName(w, s[2])
                            ELSE IF s[1] = "frame" THEN FrameName(w, s[2])
                            ELSE PastName(w, s[2])]

Accounts(own, texture) ==
  /\ \A n \in Name : texture[n] # Free <=> \E s \in Slot : own[s] = n
  /\ \A s, t \in Slot : own[s] = own[t] /\ own[s] # None => s = t

ImagesShown(w) ==
  open = <<w>> => \A i \in DOMAIN textures :
    IF textures[i].video THEN ImageName(w, i) = None
    ELSE ~Pending("changed", w, i - 1) =>
           ImageName(w, i) # None /\ gl[w].texture[ImageName(w, i)] = textures[i].pic

FramesShown(w) ==
  open = <<w>> => \A id \in Id : frames[id] # NoFrame /\ ~Pending("tmp", w, id) =>
    IF tmpHandles[w][id] = None THEN ~Announced(id)
    ELSE gl[w].texture[tmpHandles[w][id]] = frames[id].pic

Consistent(w) ==
  /\ WellFormed /\ ClosedOrOpen(w) /\ Signals(w)
  /\ Accounts(Owner(w), gl[w].texture)
  /\ ImagesShown(w) /\ FramesShown(w)

\* News: the events there were, and behind them others.
News(n) ==
  /\ Len(events) \in Nat /\ DOMAIN events = 1..Len(events) /\ n \in Nat
  /\ Len(events') = Len(events) + n /\ DOMAIN events' = 1..Len(events')
  /\ \A i \in DOMAIN events : i \in DOMAIN events' /\ events'[i] = events[i]

\* A command on an image tells of the image, or of nothing.
LEMMA CommandKeeps ==
  ASSUME NEW w, Signals(w), NEW n \in {0, 1}, News(n),
         \A i \in DOMAIN events' : i > Len(events) => events'[i].signal = "changed",
         UNCHANGED <<frames, quads, nextID, open, tmpHandles>>
  PROVE  Signals(w)' /\ \A id : Ends(w, id)' <=> Ends(w, id)
<1>1. \A i \in DOMAIN events' : i \in DOMAIN events \/ events'[i].signal = "changed"
  BY DEF News
<1>2. \A i \in DOMAIN events : i \in DOMAIN events' /\ events'[i] = events[i]
  BY DEF News
<1>3. /\ \A i \in DOMAIN events : \A id : (First(i, id)' <=> First(i, id)) /\ (About(i, id)' <=> About(i, id))
      /\ \A i \in DOMAIN events' : \A id :
           i \notin DOMAIN events => ~First(i, id)' /\ ~About(i, id)' /\ events'[i].signal \notin {"tmp", "delete"}
  BY <1>1, <1>2 DEF First, About
<1>4. \A id : Ends(w, id)' <=> Ends(w, id)
  BY <1>2, <1>3 DEF Ends, Pending
<1>5. \A id, i : HasName(w, id, i) => HasName(w, id, i)'
  BY <1>2, <1>3 DEF HasName
<1>6. FramesHaveQuads' /\ NamesHaveFrames(w)'
  BY DEF Signals, FramesHaveQuads, NamesHaveFrames
<1>0. \A id : Announced(id)' <=> Announced(id)
  BY DEF Announced
<1>7. FramesHaveNames(w)'
  <2> SUFFICES ASSUME open = <<w>>, NEW id \in Id, Announced(id)
               PROVE  HasName(w, id, Len(events) + 1)'
    BY <1>0 DEF FramesHaveNames
  <2>1. HasName(w, id, Len(events) + 1)
    BY DEF Signals, FramesHaveNames
  <2>2. Len(events) + 1 <= Len(events') + 1 /\ \A j \in DOMAIN events : j <= Len(events) /\ j \in Nat
    BY DEF News
  <2> QED
    BY <1>2, <1>3, <2>1, <2>2 DEF HasName, News
<1>8. KeysAreKnown' /\ DeletedLast'
  BY <1>2, <1>3 DEF Signals, KeysAreKnown, DeletedLast
<1>9. FramesAreAlive(w)'
  BY <1>2, <1>3, <1>4 DEF Signals, FramesAreAlive, Alive
<1>10. FirstIsFirst(w)'
  BY <1>0, <1>2, <1>3 DEF Signals, FirstIsFirst
<1>11. OthersHaveNames(w)'
  BY <1>0, <1>2, <1>3, <1>5 DEF Signals, OthersHaveNames
<1>12. WordsHaveFrames'
  BY <1>2, <1>3 DEF Signals, WordsHaveFrames
<1> QED
  BY <1>4, <1>6, <1>7, <1>8, <1>9, <1>10, <1>11, <1>12 DEF Signals

\* A new quad gets buffers there is no word of.
LEMMA QuadKeeps ==
  ASSUME NEW w, TypeOK, Signals(w), TexQuad, w \in Renderers
  PROVE  /\ Signals(w)' /\ \A id : Ends(w, id)' <=> Ends(w, id)
         /\ \A id \in Id : FrameName(w, id)' = FrameName(w, id)
<1>1. /\ nextID' = nextID + 2 /\ quads' = quads \cup {nextID, nextID + 1} /\ nextID \in Nat
      /\ frames' = frames /\ events' = events /\ open' = open /\ tmpHandles' = tmpHandles
  BY Bounds DEF TexQuad, TypeOK, windowVars
<1>2. tmpHandles \in [Renderers -> [Id -> Name \cup {None}]] /\ \A id \in Id : id \in Int
  BY Bounds DEF TypeOK, Id
<1>3. \A i, id : (First(i, id)' <=> First(i, id)) /\ (About(i, id)' <=> About(i, id))
  BY <1>1 DEF First, About
<1>4. \A id : Ends(w, id)' <=> Ends(w, id)
  BY <1>1 DEF Ends, Pending
<1>5. \A id \in Id : id \in {nextID, nextID + 1} => tmpHandles[w][id] = None /\ frames[id] = NoFrame
  <2>1. nextID \notin quads /\ nextID + 1 \notin quads
    BY <1>1 DEF TypeOK
  <2>2. \A id \in Id : id < nextID => id \notin {nextID, nextID + 1}
    BY <1>1, <1>2
  <2> QED
    BY <2>1, <2>2 DEF Signals, NamesHaveFrames, FramesHaveQuads
<1>6. \A id, i : HasName(w, id, i)' <=> HasName(w, id, i)
  BY <1>1, <1>3 DEF HasName
<1>0. \A id : Announced(id)' <=> Announced(id)
  BY <1>1 DEF Announced
<1>7. FramesHaveQuads' /\ FramesHaveNames(w)'
  BY <1>0, <1>1, <1>6 DEF Signals, FramesHaveQuads, FramesHaveNames
<1>8. NamesHaveFrames(w)'
  BY <1>1, <1>2, <1>5 DEF Signals, NamesHaveFrames
<1>9. KeysAreKnown'
  BY <1>1, <1>2, <1>3 DEF Signals, KeysAreKnown
<1>10. \A i \in DOMAIN events, id \in {nextID, nextID + 1} : ~About(i, id)
  BY <1>1 DEF Signals, KeysAreKnown
<1>11. DeletedLast'
  <2>1. \A i \in DOMAIN events : \A id : events[i].signal = "delete" /\ events[i].key = id => About(i, id)
    BY DEF About
  <2> QED
    BY <1>1, <1>3, <1>10, <2>1 DEF Signals, DeletedLast
<1>12. FramesAreAlive(w)'
  BY <1>1, <1>4 DEF Signals, FramesAreAlive, Alive
<1>13. FirstIsFirst(w)'
  <2>1. \A i \in DOMAIN events : \A id : First(i, id) => About(i, id)
    BY DEF First, About
  <2> QED
    BY <1>0, <1>1, <1>3, <1>10, <2>1 DEF Signals, FirstIsFirst
<1>14. OthersHaveNames(w)'
  <2>1. \A i \in DOMAIN events : \A id : events[i].signal = "tmp" /\ events[i].key = id => About(i, id)
    BY DEF About
  <2> QED
    BY <1>0, <1>1, <1>6, <1>10, <2>1 DEF Signals, OthersHaveNames
<1>16. WordsHaveFrames'
  <2>1. \A i \in DOMAIN events : \A id : events[i].signal = "tmp" /\ events[i].key = id => About(i, id)
    BY DEF About
  <2> QED
    BY <1>1, <1>10, <2>1 DEF Signals, WordsHaveFrames
<1>15. \A id \in Id : FrameName(w, id)' = FrameName(w, id)
  BY <1>1, <1>4, <1>5 DEF FrameName, Alive
<1> QED
  BY <1>4, <1>7, <1>8, <1>9, <1>11, <1>12, <1>13, <1>14, <1>15, <1>16 DEF Signals

\* The signal is queued for the one window, or not, if it is not open.
Queued(w, queue, new, signal, key, samep) ==
  \/ open = <<>> /\ new = <<>>
  \/ /\ open = <<w>> /\ Len(new) = Len(queue) + 1 /\ \A i \in 1..Len(queue) : new[i] = queue[i]
     /\ new[Len(queue) + 1] = [to |-> w, signal |-> signal, key |-> key, samep |-> samep]

\* So it is with a signal that is emitted.
LEMMA QueuedOne ==
  ASSUME NEW w \in Renderers, NEW queue \in Seq(Event), open \in Seq(Renderers),
         NEW signal \in {"changed", "tmp", "delete"}, NEW key \in Nat, NEW samep \in BOOLEAN
  PROVE  /\ Emitted(queue, signal, key, samep) \in Seq(Event)
         /\ open = <<w>> \/ (open = <<>> /\ queue = <<>>) =>
              Queued(w, queue, Emitted(queue, signal, key, samep), signal, key, samep)
<1> DEFINE new == Emitted(queue, signal, key, samep)
<1>1. /\ new \in Seq(Event) /\ Len(new) = Len(queue) + Len(open)
      /\ \A i \in 1..Len(queue) : new[i] = queue[i]
      /\ \A i \in 1..Len(open) :
           new[Len(queue) + i] = [to |-> open[i], signal |-> signal, key |-> key, samep |-> samep]
  <2>1. Told(queue, new, signal, key, samep)
    BY Emits
  <2> HIDE DEF new
  <2> QED
    BY <2>1 DEF Told
<1> HIDE DEF new
<1>2. open = <<>> /\ queue = <<>> => new = <<>>
  BY <1>1
<1>3. open = <<w>> => Len(open) = 1 /\ open[1] = w
  OBVIOUS
<1>4. open = <<w>> => new[Len(queue) + 1] = [to |-> w, signal |-> signal, key |-> key, samep |-> samep]
  BY <1>1, <1>3
<1> QED
  BY <1>1, <1>2, <1>3, <1>4 DEF Queued, new

\* A quad that is alive has a buffer that was given out.
LEMMA KnownQuads == TypeOK => quads \subseteq Id
<1> SUFFICES ASSUME TypeOK, NEW id \in quads PROVE id \in Id
  OBVIOUS
<1>1. quads \subseteq 0..nextID - 1 /\ nextID \in 0..MaxId /\ MaxId \in Nat
  BY Bounds DEF TypeOK
<1> QED
  BY <1>1 DEF Id

\* The end of a quad is told of, after everything there is about its buffers.
LEMMA QuadEnds ==
  ASSUME NEW w \in Renderers, TypeOK, ClosedOrOpen(w), Signals(w),
         NEW a \in Id, NEW b \in Id, DeleteTexQuad(a, b)
  PROVE  /\ Signals(w)'
         /\ \A id \in Id : FrameName(w, id)' = FrameName(w, id)
         /\ \A signal \in {"changed", "tmp"} : \A id : Pending(signal, w, id)' <=> Pending(signal, w, id)
<1>1. /\ quads' = quads \ {a, b} /\ b # a /\ a \in quads /\ b \in quads
      /\ frames' = [frames EXCEPT ![a] = NoFrame, ![b] = NoFrame]
      /\ frames \in [Id -> Frame \cup {NoFrame}] /\ quads \subseteq 0..nextID - 1 /\ nextID \in Nat
      /\ nextID' = nextID /\ open' = open /\ tmpHandles' = tmpHandles
      /\ tmpHandles \in [Renderers -> [Id -> Name \cup {None}]]
      /\ a \in Nat /\ b \in Nat /\ events \in Seq(Event) /\ open \in Seq(Renderers)
      /\ a < nextID /\ b < nextID
  BY Bounds DEF DeleteTexQuad, TypeOK, windowVars, Id
<1>0. quads \subseteq Id
  BY KnownQuads
<1>2. PICK middle : /\ middle = Emitted(events, "delete", a, FALSE)
                    /\ events' = Emitted(middle, "delete", b, FALSE)
  BY DEF DeleteTexQuad
<1>3. middle \in Seq(Event) /\ Queued(w, events, middle, "delete", a, FALSE)
  <2>1. open = <<w>> \/ (open = <<>> /\ events = <<>>)
    BY DEF ClosedOrOpen
  <2> QED
    BY <1>1, <1>2, <2>1, QueuedOne
<1>4. events' \in Seq(Event) /\ Queued(w, middle, events', "delete", b, FALSE)
  <2>1. open = <<w>> \/ (open = <<>> /\ middle = <<>>)
    BY <1>3 DEF Queued
  <2> QED
    BY <1>1, <1>2, <1>3, <2>1, QueuedOne
<1>5. CASE open = <<>>
  <2>1. events' = <<>> /\ events = <<>> /\ tmpHandles[w] = [id \in Id |-> None] /\ open # <<w>>
    <3>1. <<w>> # <<>>
      OBVIOUS
    <3> QED
      BY <1>4, <1>5, <3>1 DEF Queued, ClosedOrOpen
  <2>2. \A id \in Id : frames'[id] # NoFrame => frames'[id] = frames[id] /\ id \notin {a, b}
    BY <1>1
  <2>3. Signals(w)'
    BY <1>1, <2>1, <2>2
    DEF Signals, FramesHaveQuads, NamesHaveFrames, FramesHaveNames, KeysAreKnown, DeletedLast,
        FramesAreAlive, FirstIsFirst, OthersHaveNames, WordsHaveFrames
  <2>4. \A id \in Id : FrameName(w, id)' = None /\ FrameName(w, id) = None
    BY <1>1, <2>1 DEF FrameName
  <2> QED
    BY <2>1, <2>3, <2>4 DEF Pending
<1>6. CASE open = <<w>>
  <2>0. <<w>> # <<>>
    OBVIOUS
  <2> PICK n \in Nat : n = Len(events)
    BY <1>1
  <2>1. /\ Len(events) = n /\ DOMAIN events = 1..n
        /\ DOMAIN events' = 1..n + 2
        /\ \A i \in 1..n : events'[i] = events[i]
        /\ events'[n + 1] = [to |-> w, signal |-> "delete", key |-> a, samep |-> FALSE]
        /\ events'[n + 2] = [to |-> w, signal |-> "delete", key |-> b, samep |-> FALSE]
    BY <1>1, <1>3, <1>4, <1>6, <2>0 DEF Queued
  <2>2. /\ \A i \in 1..n : \A id : (First(i, id)' <=> First(i, id)) /\ (About(i, id)' <=> About(i, id))
        /\ \A id : ~First(n + 1, id)' /\ ~First(n + 2, id)'
        /\ \A id : (About(n + 1, id)' <=> id = a) /\ (About(n + 2, id)' <=> id = b)
        /\ n + 1 \in DOMAIN events' /\ n + 2 \in DOMAIN events'
    <3>1. \A i \in 1..n : i \in DOMAIN events' /\ events'[i] = events[i]
      BY <2>1
    <3>2. n + 1 \in DOMAIN events' /\ n + 2 \in DOMAIN events'
      BY <2>1
    <3> QED
      BY <2>1, <3>1, <3>2 DEF First, About
  <2>3. \A id : Ends(w, id)' <=> Ends(w, id) \/ id \in {a, b}
    BY <2>1 DEF Ends, Pending
  <2>4. \A id : Alive(w, id)' <=> Alive(w, id)
    BY <1>1, <2>3 DEF Alive
  <2>5. \A id, i : HasName(w, id, i) => HasName(w, id, i)'
    BY <1>1, <2>1, <2>2 DEF HasName
  <2>6. \A id \in Id : frames'[id] # NoFrame => frames'[id] = frames[id] /\ id \notin {a, b}
    BY <1>1
  <2>15. \A id \in Id : (Announced(id)' => Announced(id)) /\ (id \in quads' => (Announced(id)' <=> Announced(id)))
    <3>1. \A id \in Id : id \in quads' => frames'[id] = frames[id]
      BY <1>1
    <3> QED
      BY <2>6, <3>1 DEF Announced
  <2>7. FramesHaveQuads' /\ NamesHaveFrames(w)'
    <3>1. FramesHaveQuads'
      BY <1>1, <2>6 DEF Signals, FramesHaveQuads
    <3>2. \A id \in Id : id \in quads' => id \in quads /\ frames'[id] = frames[id]
      BY <1>1
    <3> QED
      BY <1>1, <3>1, <3>2 DEF Signals, NamesHaveFrames
  <2>8. FramesHaveNames(w)'
    <3> SUFFICES ASSUME NEW id \in Id, Announced(id)' PROVE HasName(w, id, Len(events) + 1)'
      BY DEF FramesHaveNames
    <3>1. HasName(w, id, Len(events) + 1)
      BY <1>6, <2>15 DEF Signals, FramesHaveNames
    <3> QED
      BY <1>1, <1>4, <2>1, <2>2, <3>1 DEF HasName
  <2>9. KeysAreKnown'
    <3> SUFFICES ASSUME NEW i \in 1..n + 2, NEW id \in Nat, About(i, id)' PROVE id \in Id /\ id < nextID
      BY <1>1, <2>1 DEF KeysAreKnown
    <3>1. i \in 1..n \/ i = n + 1 \/ i = n + 2
      BY <2>1
    <3> QED
      BY <1>1, <2>1, <2>2, <3>1 DEF Signals, KeysAreKnown
  <2>10. DeletedLast'
    <3> SUFFICES ASSUME NEW i \in 1..n + 2, NEW id \in Id, events'[i].signal = "delete", events'[i].key = id
                 PROVE  id \notin quads' /\ \A j \in 1..n + 2 : About(j, id)' => j <= i
      BY <2>1 DEF DeletedLast
    <3>1. CASE i \in 1..n
      <4>1. id \notin quads /\ \A j \in 1..n : About(j, id) => j <= i
        BY <2>1, <3>1 DEF Signals, DeletedLast
      <4>2. id \notin {a, b}
        BY <1>1, <4>1
      <4>3. \A j \in 1..n + 2 : j \in 1..n \/ j = n + 1 \/ j = n + 2
        BY <2>1
      <4> QED
        BY <1>1, <2>1, <2>2, <4>1, <4>2, <4>3
    <3>2. CASE i = n + 1
      <4>1. id = a
        BY <2>1, <3>2
      <4>2. \A j \in 1..n + 2 : j \in 1..n + 1 \/ j = n + 2
        BY <2>1
      <4> QED
        BY <1>1, <2>1, <2>2, <3>2, <4>1, <4>2
    <3>3. CASE i = n + 2
      BY <1>1, <2>1, <2>2, <3>3
    <3> QED
      BY <2>1, <3>1, <3>2, <3>3
  <2>11. FramesAreAlive(w)'
    BY <2>1, <2>4 DEF Signals, FramesAreAlive
  <2>12. FirstIsFirst(w)'
    <3> SUFFICES ASSUME NEW i \in 1..n + 2, NEW id \in Id, First(i, id)'
                 PROVE  /\ tmpHandles'[w][id] = None
                        /\ Announced(id)' \/ id \notin quads'
                        /\ \A j \in 1..n + 2 : events'[j].signal = "tmp" /\ events'[j].key = id => i <= j
      BY <2>1 DEF FirstIsFirst
    <3>0. i \in 1..n \/ i = n + 1 \/ i = n + 2
      BY <2>1
    <3>1. i \in 1..n /\ First(i, id)
      BY <2>2, <3>0
    <3>2. /\ tmpHandles[w][id] = None /\ (Announced(id) \/ id \notin quads)
          /\ \A j \in 1..n : events[j].signal = "tmp" /\ events[j].key = id => i <= j
      BY <2>1, <3>1 DEF Signals, FirstIsFirst
    <3>3. Announced(id)' \/ id \notin quads'
      BY <1>1, <2>15, <3>2
    <3> QED
      BY <1>1, <2>1, <3>1, <3>2, <3>3
  <2>13. OthersHaveNames(w)'
    <3> SUFFICES ASSUME NEW i \in 1..n + 2, NEW id \in quads', events'[i].signal = "tmp",
                        events'[i].samep, events'[i].key = id, Announced(id)'
                 PROVE  HasName(w, id, i)'
      BY <2>1 DEF OthersHaveNames
    <3>1. i \in 1..n \/ i = n + 1 \/ i = n + 2
      BY <2>1
    <3>2. i \in 1..n /\ id \in quads
      BY <1>1, <2>1, <3>1
    <3>3. Announced(id)
      <4>1. id \in Id
        BY <1>0, <3>2
      <4> QED
        BY <2>15, <4>1
    <3> QED
      BY <2>1, <2>5, <3>2, <3>3 DEF Signals, OthersHaveNames
  <2>18. WordsHaveFrames'
    <3> SUFFICES ASSUME NEW i \in 1..n + 2, NEW id \in quads', events'[i].signal = "tmp", events'[i].key = id
                 PROVE  frames'[id] # NoFrame
      BY <2>1 DEF WordsHaveFrames
    <3>1. i \in 1..n \/ i = n + 1 \/ i = n + 2
      BY <2>1
    <3>2. i \in 1..n /\ id \in quads
      BY <1>1, <2>1, <3>1
    <3>3. frames'[id] = frames[id]
      BY <1>0, <1>1, <3>2
    <3> QED
      BY <2>1, <3>2, <3>3 DEF Signals, WordsHaveFrames
  <2>14. \A signal \in {"changed", "tmp"} : \A id : Pending(signal, w, id)' <=> Pending(signal, w, id)
    BY <2>1 DEF Pending
  <2>16. \A id \in Id : FrameName(w, id)' = FrameName(w, id)
    BY <1>1, <2>4 DEF FrameName
  <2> QED
    BY <2>7, <2>8, <2>9, <2>10, <2>11, <2>12, <2>13, <2>14, <2>16, <2>18 DEF Signals
<1> QED
  BY <1>5, <1>6 DEF ClosedOrOpen

\* A frame of a living quad is told of, as the first or as one more, or nothing new
\* is to be seen of it.
LEMMA FrameComes ==
  ASSUME NEW w \in Renderers, Simple(w), TypeOK, ClosedOrOpen(w), Signals(w),
         NEW id \in Id, really_get_frame(id)
  PROVE  /\ Signals(w)'
         /\ \A k \in Id : FrameName(w, k)' = FrameName(w, k)
         /\ \A k : Pending("changed", w, k)' <=> Pending("changed", w, k)
         /\ \A k \in Id : k # id => frames'[k] = frames[k]
         /\ \A k : Pending("tmp", w, k) => Pending("tmp", w, k)'
         /\ open = <<w>> => \/ Pending("tmp", w, id)'
                            \/ frames'[id] = frames[id]
                            \/ (tmpHandles[w][id] = None /\ ~Announced(id)')
         /\ open = <<>> => events' = <<>>
<1> DEFINE samep == frames[id].size = 1
<1>0. PICK tells \in BOOLEAN : \E f : Decoding(id, 1, f, tells)
  BY Decodes DEF Simple
<1>1. PICK f : Decoding(id, 1, f, tells)
  BY <1>0
<1>2. id \in quads
  BY DEF really_get_frame, Requested, Simple
<1>3. /\ frames \in [Id -> Frame \cup {NoFrame}] /\ quads \subseteq 0..nextID - 1 /\ nextID \in Nat
      /\ nextID' = nextID /\ open' = open /\ tmpHandles' = tmpHandles /\ quads' = quads
      /\ tmpHandles \in [Renderers -> [Id -> Name \cup {None}]]
      /\ id \in Nat /\ events \in Seq(Event) /\ open \in Seq(Renderers)
      /\ id < nextID
  <2>1. UNCHANGED <<nextID, quads, windowVars>>
    BY DEF really_get_frame
  <2> QED
    BY <1>2, <2>1, Bounds DEF TypeOK, windowVars, Id
<1>16. quads \subseteq Id
  BY KnownQuads
<1>4. /\ f \in Frame /\ f.size = 1 /\ f.announced = IF samep THEN frames[id].announced ELSE tells
      /\ ~tells /\ samep => f = frames[id]
  BY <1>1, <1>3, DecodedFrame DEF TypeOK
<1>5. /\ samep \in BOOLEAN /\ (samep <=> frames[id] # NoFrame)
      /\ frames'[id] = f /\ f # NoFrame /\ \A k \in Id : k # id => frames'[k] = frames[k]
  <2>1. NoFrame.size = 0
    BY DEF NoFrame
  <2>2. frames' = [frames EXCEPT ![id] = f]
    BY <1>1 DEF Decoding
  <2> QED
    BY <1>3, <1>4, <2>1, <2>2 DEF Signals, FramesHaveQuads
<1>6. events' = IF tells THEN Emitted(events, "tmp", id, samep) ELSE events
  BY <1>1 DEF Decoding
<1> HIDE DEF samep
<1>7. Announced(id)' <=> IF samep THEN Announced(id) ELSE tells
  <2>1. Announced(id)' <=> f.announced
    BY <1>5 DEF Announced
  <2>2. CASE samep
    BY <1>4, <1>5, <2>1, <2>2 DEF Announced
  <2>3. CASE ~samep
    BY <1>4, <2>1, <2>3
  <2> QED
    BY <2>2, <2>3
<1>8. \A k \in Id : k # id => (Announced(k)' <=> Announced(k))
  BY <1>5 DEF Announced
<1>9. ~samep => tmpHandles[w][id] = None /\ ~Announced(id)
  BY <1>2, <1>5 DEF Signals, NamesHaveFrames, Announced
<1>10. FramesHaveQuads' /\ NamesHaveFrames(w)'
  <2>1. FramesHaveQuads'
    BY <1>2, <1>3, <1>4, <1>5 DEF Signals, FramesHaveQuads
  <2> QED
    BY <1>3, <1>5, <2>1 DEF Signals, NamesHaveFrames
<1>11. <<w>> # <<>>
  OBVIOUS
<1>12. CASE ~tells
  <2>1. events' = events
    BY <1>6, <1>12
  <2>2. \A k \in Id : Announced(k)' <=> Announced(k)
    BY <1>7, <1>8, <1>9, <1>12
  <2>3. \A i, k : /\ First(i, k)' <=> First(i, k)
                  /\ About(i, k)' <=> About(i, k)
                  /\ HasName(w, k, i)' <=> HasName(w, k, i)
    BY <1>3, <2>1 DEF First, About, HasName
  <2>4. \A k : Alive(w, k)' <=> Alive(w, k)
    BY <1>3, <2>1 DEF Alive, Ends, Pending
  <2>5. FramesHaveNames(w)'
    BY <1>3, <2>1, <2>2, <2>3 DEF Signals, FramesHaveNames
  <2>6. KeysAreKnown' /\ DeletedLast' /\ FramesAreAlive(w)'
    BY <1>3, <2>1, <2>3, <2>4 DEF Signals, KeysAreKnown, DeletedLast, FramesAreAlive
  <2>7. FirstIsFirst(w)'
    BY <1>3, <2>1, <2>2, <2>3 DEF Signals, FirstIsFirst
  <2>8. OthersHaveNames(w)'
    BY <1>3, <1>16, <2>1, <2>2, <2>3 DEF Signals, OthersHaveNames
  <2>9. WordsHaveFrames'
    <3>1. \A k \in Id : frames[k] # NoFrame => frames'[k] # NoFrame
      BY <1>5
    <3> QED
      BY <1>3, <1>16, <2>1, <3>1 DEF Signals, WordsHaveFrames
  <2>10. \A k \in Id : FrameName(w, k)' = FrameName(w, k)
    BY <1>3, <2>4 DEF FrameName
  <2>11. \A signal, k : Pending(signal, w, k)' <=> Pending(signal, w, k)
    BY <2>1 DEF Pending
  <2>12. frames'[id] = frames[id] \/ (tmpHandles[w][id] = None /\ ~Announced(id)')
    BY <1>4, <1>5, <1>7, <1>9, <1>12
  <2>13. open = <<>> => events' = <<>>
    BY <1>11, <2>1 DEF ClosedOrOpen
  <2> QED
    BY <1>5, <1>10, <2>5, <2>6, <2>7, <2>8, <2>9, <2>10, <2>11, <2>12, <2>13 DEF Signals
<1>13. tells => events' \in Seq(Event) /\ Queued(w, events, events', "tmp", id, samep)
  <2>1. open = <<w>> \/ (open = <<>> /\ events = <<>>)
    BY DEF ClosedOrOpen
  <2> QED
    BY <1>3, <1>5, <1>6, <2>1, QueuedOne
<1>14. CASE tells /\ open = <<>>
  <2>1. events' = <<>> /\ events = <<>> /\ tmpHandles[w] = [k \in Id |-> None] /\ open # <<w>>
    BY <1>11, <1>13, <1>14 DEF Queued, ClosedOrOpen
  <2>2. Signals(w)'
    BY <1>3, <1>10, <1>16, <2>1
    DEF Signals, FramesHaveNames, KeysAreKnown, DeletedLast,
        FramesAreAlive, FirstIsFirst, OthersHaveNames, WordsHaveFrames
  <2>3. \A k \in Id : FrameName(w, k)' = None /\ FrameName(w, k) = None
    BY <1>3, <2>1 DEF FrameName
  <2> QED
    BY <1>5, <2>1, <2>2, <2>3 DEF Pending
<1>15. CASE tells /\ open = <<w>>
  <2> PICK n \in Nat : n = Len(events)
    BY <1>3
  <2>1. /\ Len(events) = n /\ DOMAIN events = 1..n
        /\ DOMAIN events' = 1..n + 1 /\ Len(events') = n + 1
        /\ \A i \in 1..n : events'[i] = events[i] /\ i \in 1..n + 1
        /\ events'[n + 1] = [to |-> w, signal |-> "tmp", key |-> id, samep |-> samep]
        /\ \A i \in 1..n + 1 : i \in 1..n \/ i = n + 1
        /\ n + 1 \in 1..n + 1
    BY <1>3, <1>11, <1>13, <1>15 DEF Queued
  <2>2. /\ \A i \in 1..n : \A k : (First(i, k)' <=> First(i, k)) /\ (About(i, k)' <=> About(i, k))
        /\ \A k : First(n + 1, k)' <=> k = id /\ ~samep
        /\ \A k : About(n + 1, k)' <=> k = id
    BY <2>1 DEF First, About
  <2>3. \A k : Ends(w, k)' <=> Ends(w, k)
    BY <2>1 DEF Ends, Pending
  <2>4. \A k : Alive(w, k)' <=> Alive(w, k)
    BY <1>3, <2>3 DEF Alive
  <2>5. \A k, i : HasName(w, k, i) => HasName(w, k, i)'
    BY <1>3, <2>1, <2>2 DEF HasName
  <2>8. samep /\ Announced(id) => HasName(w, id, n + 1)
    BY <1>15, <2>1 DEF Signals, FramesHaveNames
  <2>9. ~samep => \A i \in 1..n : ~(events[i].signal = "tmp" /\ events[i].key = id)
    BY <1>2, <1>5, <2>1 DEF Signals, WordsHaveFrames
  <2>10. FramesHaveNames(w)'
    <3> SUFFICES ASSUME NEW k \in Id, Announced(k)' PROVE HasName(w, k, Len(events) + 1)'
      BY DEF FramesHaveNames
    <3>1. CASE k # id
      <4>1. HasName(w, k, n + 1)
        BY <1>8, <1>15, <2>1, <3>1 DEF Signals, FramesHaveNames
      <4> QED
        BY <1>3, <2>1, <2>2, <4>1 DEF HasName
    <3>2. CASE k = id /\ samep
      BY <1>3, <1>7, <2>1, <2>2, <2>8, <3>2 DEF HasName
    <3>3. CASE k = id /\ ~samep
      BY <1>3, <2>1, <2>2, <3>3 DEF HasName
    <3> QED
      BY <3>1, <3>2, <3>3
  <2>11. KeysAreKnown'
    BY <1>3, <2>1, <2>2 DEF Signals, KeysAreKnown
  <2>12. DeletedLast'
    <3> SUFFICES ASSUME NEW i \in 1..n + 1, NEW k \in Id, events'[i].signal = "delete", events'[i].key = k
                 PROVE  k \notin quads' /\ \A j \in 1..n + 1 : About(j, k)' => j <= i
      BY <2>1 DEF DeletedLast
    <3>1. i \in 1..n
      BY <2>1
    <3>2. k \notin quads /\ \A j \in 1..n : About(j, k) => j <= i
      BY <2>1, <3>1 DEF Signals, DeletedLast
    <3> QED
      BY <1>2, <1>3, <2>1, <2>2, <3>2
  <2>13. FramesAreAlive(w)'
    <3>1. Alive(w, id)
      BY <1>2 DEF Alive
    <3> QED
      BY <2>1, <2>4, <3>1 DEF Signals, FramesAreAlive
  <2>14. FirstIsFirst(w)'
    <3> SUFFICES ASSUME NEW i \in 1..n + 1, NEW k \in Id, First(i, k)'
                 PROVE  /\ tmpHandles'[w][k] = None
                        /\ Announced(k)' \/ k \notin quads'
                        /\ \A j \in 1..n + 1 : events'[j].signal = "tmp" /\ events'[j].key = k => i <= j
      BY <2>1 DEF FirstIsFirst
    <3>1. CASE i \in 1..n
      <4>1. /\ tmpHandles[w][k] = None /\ (Announced(k) \/ k \notin quads)
            /\ \A j \in 1..n : events[j].signal = "tmp" /\ events[j].key = k => i <= j
        BY <2>1, <2>2, <3>1 DEF Signals, FirstIsFirst
      <4>2. Announced(k)' \/ k \notin quads'
        BY <1>3, <1>7, <1>8, <1>15, <4>1
      <4> QED
        BY <1>3, <2>1, <3>1, <4>1, <4>2
    <3>2. CASE i = n + 1
      <4>1. k = id /\ ~samep
        BY <2>2, <3>2
      <4> QED
        BY <1>3, <1>7, <1>9, <1>15, <2>1, <2>9, <3>2, <4>1
    <3> QED
      BY <2>1, <3>1, <3>2
  <2>15. OthersHaveNames(w)'
    <3> SUFFICES ASSUME NEW i \in 1..n + 1, NEW k \in quads', events'[i].signal = "tmp",
                        events'[i].samep, events'[i].key = k, Announced(k)'
                 PROVE  HasName(w, k, i)'
      BY <2>1 DEF OthersHaveNames
    <3>1. CASE i \in 1..n
      <4>1. k # id => Announced(k)
        BY <1>3, <1>8, <1>16, <3>1
      <4>2. k = id => Announced(k)
        <5>1. k = id => frames[k] # NoFrame
          BY <1>2, <2>1, <3>1 DEF Signals, WordsHaveFrames
        <5> QED
          BY <1>5, <1>7, <5>1
      <4> QED
        BY <1>3, <2>1, <2>5, <3>1, <4>1, <4>2 DEF Signals, OthersHaveNames
    <3>2. CASE i = n + 1
      <4>1. k = id /\ samep
        BY <2>1, <3>2
      <4> QED
        BY <1>7, <2>5, <2>8, <3>2, <4>1
    <3> QED
      BY <2>1, <3>1, <3>2
  <2>18. WordsHaveFrames'
    <3> SUFFICES ASSUME NEW i \in 1..n + 1, NEW k \in quads', events'[i].signal = "tmp", events'[i].key = k
                 PROVE  frames'[k] # NoFrame
      BY <2>1 DEF WordsHaveFrames
    <3>1. CASE k = id
      BY <1>5, <3>1
    <3>2. CASE k # id
      <4>1. i \in 1..n
        BY <2>1, <3>2
      <4>2. frames[k] # NoFrame
        BY <1>3, <2>1, <4>1 DEF Signals, WordsHaveFrames
      <4> QED
        BY <1>3, <1>5, <1>16, <3>2, <4>2
    <3> QED
      BY <3>1, <3>2
  <2>16. \A k \in Id : FrameName(w, k)' = FrameName(w, k)
    BY <1>3, <2>4 DEF FrameName
  <2>17. /\ \A k : Pending("changed", w, k)' <=> Pending("changed", w, k)
         /\ \A k : Pending("tmp", w, k) => Pending("tmp", w, k)'
         /\ Pending("tmp", w, id)'
    BY <2>1 DEF Pending
  <2>19. open # <<>>
    BY <1>11, <1>15
  <2> QED
    BY <1>5, <1>10, <2>10, <2>11, <2>12, <2>13, <2>14, <2>15, <2>16, <2>17, <2>18, <2>19 DEF Signals
<1> QED
  BY <1>12, <1>14, <1>15 DEF ClosedOrOpen

\* A command that tells of an image, in the words of the signals.
LEMMA CommandTells ==
  ASSUME NEW w \in Renderers, WellFormed, ClosedOrOpen(w), Signals(w),
         NEW index \in Nat, events' = texture_changed(index),
         UNCHANGED <<frames, nextID, quads, windowVars>>
  PROVE  /\ Signals(w)'
         /\ \A id \in Id : FrameName(w, id)' = FrameName(w, id)
         /\ \A key : Pending("tmp", w, key)' <=> Pending("tmp", w, key)
         /\ \A key : Pending("changed", w, key) => Pending("changed", w, key)'
         /\ open = <<w>> => Pending("changed", w, index)'
         /\ open = <<>> => events' = <<>>
<1>1. /\ frames' = frames /\ nextID' = nextID /\ quads' = quads /\ open' = open /\ tmpHandles' = tmpHandles
      /\ events \in Seq(Event) /\ open \in Seq(Renderers)
  BY DEF windowVars, WellFormed, TypeOK
<1>2. events' \in Seq(Event) /\ Queued(w, events, events', "changed", index, FALSE)
  <2>1. open = <<w>> \/ (open = <<>> /\ events = <<>>)
    BY DEF ClosedOrOpen
  <2> QED
    BY <1>1, <2>1, QueuedOne DEF texture_changed
<1>3. <<w>> # <<>>
  OBVIOUS
<1>4. CASE open = <<>>
  <2>1. events' = <<>> /\ events = <<>>
    BY <1>2, <1>3, <1>4 DEF Queued, ClosedOrOpen
  <2>2. News(0) /\ \A i \in DOMAIN events' : FALSE
    BY <2>1 DEF News
  <2>3. Signals(w)' /\ \A id : Ends(w, id)' <=> Ends(w, id)
    BY <1>1, <2>2, CommandKeeps
  <2>4. \A id \in Id : FrameName(w, id)' = FrameName(w, id)
    BY <1>1, <2>3 DEF FrameName, Alive
  <2> QED
    BY <1>3, <1>4, <2>1, <2>3, <2>4 DEF Pending
<1>5. CASE open = <<w>>
  <2>1. /\ News(1) /\ events'[Len(events) + 1].signal = "changed"
        /\ events'[Len(events) + 1].key = index /\ events'[Len(events) + 1].to = w
        /\ Len(events) + 1 \in DOMAIN events'
        /\ \A i \in DOMAIN events' : i \in DOMAIN events \/ i = Len(events) + 1
    BY <1>1, <1>2, <1>3, <1>5 DEF Queued, News
  <2>2. \A i \in DOMAIN events' : i > Len(events) => events'[i].signal = "changed"
    BY <2>1 DEF News
  <2>3. Signals(w)' /\ \A id : Ends(w, id)' <=> Ends(w, id)
    BY <1>1, <2>1, <2>2, CommandKeeps
  <2>4. \A id \in Id : FrameName(w, id)' = FrameName(w, id)
    BY <1>1, <2>3 DEF FrameName, Alive
  <2>5. \A i \in DOMAIN events : i \in DOMAIN events' /\ events'[i] = events[i]
    BY <2>1 DEF News
  <2> QED
    BY <1>3, <1>5, <2>1, <2>3, <2>4, <2>5 DEF Pending
<1> QED
  BY <1>4, <1>5 DEF ClosedOrOpen

\* The owners of the textures are the same if the handles are.
LEMMA SameOwner ==
  ASSUME NEW w, \A i \in 1..MaxTextures : ImageName(w, i)' = ImageName(w, i),
         \A id \in Id : FrameName(w, id)' = FrameName(w, id),
         \A k \in 1..MaxFeedback : PastName(w, k)' = PastName(w, k)
  PROVE  Owner(w)' = Owner(w)
<1>1. \A s \in Slot : \/ s[1] = "image" /\ s[2] \in 1..MaxTextures
                      \/ s[1] = "frame" /\ s[2] \in Id
                      \/ s[1] = "past" /\ s[2] \in 1..MaxFeedback
  BY DEF Slot
<1>2. \A s \in Slot :
        (IF s[1] = "image" THEN ImageName(w, s[2])' ELSE IF s[1] = "frame" THEN FrameName(w, s[2])'
         ELSE PastName(w, s[2])')
        = (IF s[1] = "image" THEN ImageName(w, s[2]) ELSE IF s[1] = "frame" THEN FrameName(w, s[2])
           ELSE PastName(w, s[2]))
  BY <1>1
<1> QED
  BY <1>2, Zenon DEF Owner

\* Commands, quads and frames keep the window consistent.
LEMMA PoolConsistent ==
  ASSUME NEW w, Simple(w), Consistent(w), Pool
  PROVE  Consistent(w)'
<1>1. w \in Renderers
  BY DEF Simple
<1>2. WellFormed /\ WellFormed' /\ ClosedOrOpen(w) /\ Signals(w) /\ TypeOK
  BY PoolTypes DEF Consistent, WellFormed
<1>3. UNCHANGED windowVars
  BY DEF Pool, add_image, change_image, b_zero, b_set, TexQuad, DeleteTexQuad, really_get_frame
<1>4. /\ open' = open /\ current' = current /\ gl' = gl /\ handles' = handles /\ ring' = ring
      /\ tmpHandles' = tmpHandles
  BY <1>3 DEF windowVars, feedbackVars
<1>5. /\ \A i : ImageName(w, i)' = ImageName(w, i)
      /\ \A k : PastName(w, k)' = PastName(w, k)
  BY <1>4 DEF ImageName, PastName
<1>6. <<w>> # <<>>
  OBVIOUS
<1>7. ASSUME Signals(w)', \A id \in Id : FrameName(w, id)' = FrameName(w, id),
             open = <<>> => events' = <<>>,
             ImagesShown(w)', FramesShown(w)'
      PROVE  Consistent(w)'
  <2>1. ClosedOrOpen(w)'
    BY <1>2, <1>4, <1>6, <1>7 DEF ClosedOrOpen
  <2>2. Owner(w)' = Owner(w)
    BY <1>5, <1>7, SameOwner
  <2>3. Accounts(Owner(w), gl[w].texture)'
    BY <1>4, <2>2 DEF Consistent, Accounts
  <2> QED
    BY <1>2, <1>7, <2>1, <2>3 DEF Consistent
<1>8. ASSUME NEW index \in Nat, events' = texture_changed(index),
             UNCHANGED <<frames, nextID, quads>>,
             \A i \in DOMAIN textures' : i # index + 1 => i \in DOMAIN textures /\ textures'[i] = textures[i],
             index + 1 \in DOMAIN textures' /\ textures'[index + 1].video => ImageName(w, index + 1) = None
      PROVE  Consistent(w)'
  <2>1. /\ Signals(w)'
        /\ \A id \in Id : FrameName(w, id)' = FrameName(w, id)
        /\ \A key : Pending("tmp", w, key)' <=> Pending("tmp", w, key)
        /\ \A key : Pending("changed", w, key) => Pending("changed", w, key)'
        /\ open = <<w>> => Pending("changed", w, index)'
        /\ open = <<>> => events' = <<>>
    BY <1>1, <1>2, <1>3, <1>8, CommandTells
  <2>2. ImagesShown(w)'
    <3> SUFFICES ASSUME open = <<w>>, NEW i \in DOMAIN textures'
                 PROVE  IF textures'[i].video THEN ImageName(w, i) = None
                        ELSE ~Pending("changed", w, i - 1)' =>
                               /\ ImageName(w, i) # None
                               /\ gl[w].texture[ImageName(w, i)] = textures'[i].pic
      BY <1>4, <1>5 DEF ImagesShown
    <3>1. CASE i = index + 1
      <4>1. i - 1 = index
        BY <3>1
      <4> QED
        BY <1>8, <2>1, <3>1, <4>1
    <3>2. CASE i # index + 1
      BY <1>8, <2>1, <3>2 DEF Consistent, ImagesShown
    <3> QED
      BY <3>1, <3>2
  <2>3. FramesShown(w)'
    BY <1>4, <1>8, <2>1 DEF Consistent, FramesShown, Announced
  <2> QED
    BY <1>7, <2>1, <2>2, <2>3
<1>9. /\ textures \in Seq(Texture) /\ Len(handles[w]) <= Len(textures) /\ Len(handles[w]) \in Nat
      /\ DOMAIN textures = 1..Len(textures) /\ Len(textures) \in Nat
  BY <1>1, <1>2 DEF TypeOK
<1>10. CASE add_image
  <2>1. \E t : textures' = Append(textures, t)
    BY <1>10 DEF add_image
  <2>2. /\ events' = texture_changed(Len(textures)) /\ UNCHANGED <<frames, nextID, quads>>
    BY <1>9, <1>10, <2>1 DEF add_image
  <2>3. /\ DOMAIN textures' = 1..Len(textures) + 1
        /\ \A i \in 1..Len(textures) : textures'[i] = textures[i]
        /\ ImageName(w, Len(textures) + 1) = None
    BY <1>9, <2>1 DEF ImageName
  <2> QED
    BY <1>8, <1>9, <2>2, <2>3
<1>11. ASSUME NEW index \in Index, change_image(index) \/ b_zero(index) \/ b_set(index)
       PROVE  Consistent(w)'
  <2>1. index \in Nat /\ index + 1 \in DOMAIN textures
    BY <1>9 DEF Index
  <2>2. events' = texture_changed(index) /\ UNCHANGED <<frames, nextID, quads>>
    BY <1>11 DEF change_image, b_zero, b_set, Simple
  <2>3. /\ DOMAIN textures' = DOMAIN textures
        /\ \A i \in DOMAIN textures : i # index + 1 => textures'[i] = textures[i]
        /\ textures'[index + 1].video => textures[index + 1].video
    <3>1. CASE change_image(index)
      BY <1>9, <2>1, <3>1 DEF change_image
    <3>2. CASE UNCHANGED textures
      BY <3>2
    <3>3. CASE textures' = [textures EXCEPT ![index + 1].pic = pictures']
      <4>1. textures[index + 1] \in Texture
        BY <1>9, <2>1
      <4>2. textures' = [textures EXCEPT ![index + 1] = [textures[index + 1] EXCEPT !.pic = pictures']]
        BY <3>3
      <4>3. [textures[index + 1] EXCEPT !.pic = pictures'].video = textures[index + 1].video
        BY <4>1 DEF Texture
      <4> QED
        BY <1>9, <2>1, <4>2, <4>3
    <3> QED
      BY <1>11, <3>1, <3>2, <3>3 DEF b_zero, b_set, Painted
  <2>4. textures[index + 1].video => ImageName(w, index + 1) = None
    <3>1. CASE open = <<w>>
      BY <2>1, <3>1 DEF Consistent, ImagesShown
    <3>2. CASE open = <<>>
      BY <1>2, <1>6, <2>1, <3>2 DEF ClosedOrOpen, ImageName
    <3> QED
      BY <1>2, <3>1, <3>2 DEF ClosedOrOpen
  <2> QED
    BY <1>8, <2>1, <2>2, <2>3, <2>4
<1>12. CASE TexQuad
  <2>1. /\ Signals(w)' /\ \A id \in Id : FrameName(w, id)' = FrameName(w, id)
    BY <1>1, <1>2, <1>12, QuadKeeps
  <2>2. textures' = textures /\ frames' = frames /\ events' = events
    BY <1>12 DEF TexQuad
  <2>3. ImagesShown(w)' /\ FramesShown(w)'
    BY <1>4, <1>5, <2>2 DEF Consistent, ImagesShown, FramesShown, Pending, Announced
  <2>4. open = <<>> => events' = <<>>
    BY <1>2, <1>6, <2>2 DEF ClosedOrOpen
  <2> QED
    BY <1>7, <2>1, <2>3, <2>4
<1>13. ASSUME NEW a \in Id, NEW b \in Id, DeleteTexQuad(a, b) PROVE Consistent(w)'
  <2>1. /\ Signals(w)'
        /\ \A id \in Id : FrameName(w, id)' = FrameName(w, id)
        /\ \A signal \in {"changed", "tmp"} : \A id : Pending(signal, w, id)' <=> Pending(signal, w, id)
    BY <1>1, <1>2, <1>13, QuadEnds
  <2>2. textures' = textures /\ \A id \in Id : frames'[id] # NoFrame => frames'[id] = frames[id]
    BY <1>2, <1>13 DEF DeleteTexQuad, TypeOK
  <2>3. ImagesShown(w)'
    BY <1>4, <1>5, <2>1, <2>2 DEF Consistent, ImagesShown
  <2>4. FramesShown(w)'
    BY <1>4, <2>1, <2>2 DEF Consistent, FramesShown, Announced
  <2>5. open = <<>> => events' = <<>>
    <3> SUFFICES ASSUME open = <<>> PROVE events' = <<>>
      OBVIOUS
    <3>1. events = <<>>
      BY <1>2, <1>6 DEF ClosedOrOpen
    <3>2. Emitted(<<>>, "delete", a, FALSE) = <<>> /\ Emitted(<<>>, "delete", b, FALSE) = <<>>
      <4>1. <<>> \in Seq(Event) /\ open \in Seq(Renderers) /\ a \in Nat /\ b \in Nat
        BY <1>2 DEF TypeOK, Id
      <4> QED
        BY <1>1, <1>6, <4>1, QueuedOne DEF Queued
    <3> QED
      BY <1>13, <3>1, <3>2 DEF DeleteTexQuad
  <2> QED
    BY <1>7, <2>1, <2>3, <2>4, <2>5
<1>14. ASSUME NEW id \in Id, really_get_frame(id) PROVE Consistent(w)'
  <2>1. /\ Signals(w)'
        /\ \A k \in Id : FrameName(w, k)' = FrameName(w, k)
        /\ \A k : Pending("changed", w, k)' <=> Pending("changed", w, k)
        /\ \A k \in Id : k # id => frames'[k] = frames[k]
        /\ \A k : Pending("tmp", w, k) => Pending("tmp", w, k)'
        /\ open = <<w>> => \/ Pending("tmp", w, id)'
                           \/ frames'[id] = frames[id]
                           \/ (tmpHandles[w][id] = None /\ ~Announced(id)')
        /\ open = <<>> => events' = <<>>
    BY <1>1, <1>2, <1>14, FrameComes
  <2>2. textures' = textures
    BY <1>14 DEF really_get_frame
  <2>3. ImagesShown(w)'
    BY <1>4, <1>5, <2>1, <2>2 DEF Consistent, ImagesShown
  <2>4. FramesShown(w)'
    <3> SUFFICES ASSUME open = <<w>>, NEW k \in Id, frames'[k] # NoFrame, ~Pending("tmp", w, k)'
                 PROVE  IF tmpHandles[w][k] = None THEN ~Announced(k)'
                        ELSE gl[w].texture[tmpHandles[w][k]] = frames'[k].pic
      BY <1>4 DEF FramesShown
    <3>1. CASE frames'[k] = frames[k]
      <4>1. Announced(k)' <=> Announced(k)
        BY <3>1 DEF Announced
      <4>2. ~Pending("tmp", w, k)
        BY <2>1
      <4> QED
        BY <3>1, <4>1, <4>2 DEF Consistent, FramesShown
    <3>2. CASE frames'[k] # frames[k]
      BY <2>1, <3>2
    <3> QED
      BY <3>1, <3>2
  <2> QED
    BY <1>7, <2>1, <2>3, <2>4
<1> QED
  BY <1>10, <1>11, <1>12, <1>13, <1>14 DEF Pool

\* A slot gives up its texture, if it has one, and takes another, or none.
Renames(s, n, own, new, texture, texture2) ==
  /\ own \in [Slot -> Name \cup {None}] /\ new = [own EXCEPT ![s] = n]
  /\ Accounts(own, texture)
  /\ n # None => texture[n] = Free \/ n = own[s]
  /\ \A m \in Name : IF m = n THEN texture2[m] # Free
                     ELSE IF m = own[s] THEN texture2[m] = Free
                     ELSE texture2[m] = texture[m]

\* The others keep theirs.
LEMMA Renamed ==
  ASSUME NEW s \in Slot, NEW n \in Name \cup {None},
         NEW own, NEW new, NEW texture, NEW texture2, Renames(s, n, own, new, texture, texture2)
  PROVE  /\ Accounts(new, texture2)
         /\ \A t \in Slot : t # s /\ own[t] # None =>
              new[t] = own[t] /\ texture2[own[t]] = texture[own[t]]
<1> USE DEF Renames
<1>1. new[s] = n /\ \A t \in Slot : t # s => new[t] = own[t]
  OBVIOUS
<1>2. \A m \in Name : m # None
  BY Bounds DEF Name, None
<1>3. \A t \in Slot : own[t] \in Name \cup {None}
  OBVIOUS
<1>4. ASSUME NEW m \in Name PROVE texture2[m] # Free <=> \E t \in Slot : new[t] = m
  <2>1. CASE m = n
    BY <1>1, <2>1
  <2>2. CASE m # n
    <3>1. texture2[m] # Free <=> (texture[m] # Free /\ m # own[s])
      BY <2>2
    <3>2. texture[m] # Free <=> \E t \in Slot : own[t] = m
      BY DEF Accounts
    <3>3. ASSUME NEW t \in Slot, own[t] = m, m # own[s] PROVE new[t] = m
      BY <1>1, <3>3
    <3>4. ASSUME NEW t \in Slot, new[t] = m PROVE own[t] = m /\ m # own[s]
      <4>1. t # s /\ own[t] = m
        BY <1>1, <2>2, <3>4
      <4>2. own[s] = own[t] /\ own[s] # None => s = t
        BY DEF Accounts
      <4> QED
        BY <1>2, <4>1, <4>2
    <3> QED
      BY <3>1, <3>2, <3>3, <3>4
  <2> QED
    BY <2>1, <2>2
<1>5. n # None => \A t \in Slot : t # s => own[t] # n
  <2> SUFFICES ASSUME n # None, NEW t \in Slot, t # s, own[t] = n PROVE FALSE
    OBVIOUS
  <2>1. n \in Name /\ texture[n] # Free
    BY DEF Accounts
  <2>2. own[s] = own[t] /\ own[s] # None => s = t
    BY DEF Accounts
  <2> QED
    BY <2>1, <2>2
<1>6. ASSUME NEW t \in Slot, NEW u \in Slot, new[t] = new[u], new[t] # None PROVE t = u
  <2>1. CASE t # s /\ u # s
    BY <1>1, <1>6, <2>1 DEF Accounts
  <2>2. CASE t = s \/ u = s
    BY <1>1, <1>5, <1>6, <2>2
  <2> QED
    BY <2>1, <2>2
<1>7. ASSUME NEW t \in Slot, t # s, own[t] # None
      PROVE  new[t] = own[t] /\ texture2[own[t]] = texture[own[t]]
  <2>1. own[t] \in Name /\ own[t] # own[s] /\ new[t] = own[t]
    BY <1>1, <1>3, <1>7 DEF Accounts
  <2>2. own[t] # n
    BY <1>2, <1>5, <1>7, <2>1
  <2> QED
    BY <2>1, <2>2
<1> QED
  BY <1>4, <1>6, <1>7 DEF Accounts

\* The names of the slots.
LEMMA OwnerTypes ==
  ASSUME NEW w \in Renderers, TypeOK
  PROVE  /\ Owner(w) \in [Slot -> Name \cup {None}]
         /\ \A i \in 1..MaxTextures : <<"image", i>> \in Slot /\ Owner(w)[<<"image", i>>] = ImageName(w, i)
         /\ \A id \in Id : <<"frame", id>> \in Slot /\ Owner(w)[<<"frame", id>>] = FrameName(w, id)
         /\ \A k \in 1..MaxFeedback : <<"past", k>> \in Slot /\ Owner(w)[<<"past", k>>] = PastName(w, k)
         /\ \A s \in Slot : \/ \E i \in 1..MaxTextures : s = <<"image", i>>
                            \/ \E id \in Id : s = <<"frame", id>>
                            \/ \E k \in 1..MaxFeedback : s = <<"past", k>>
<1>1. /\ \A i \in 1..MaxTextures : ImageName(w, i) \in Name \cup {None}
      /\ \A id \in Id : FrameName(w, id) \in Name \cup {None}
      /\ \A k \in 1..MaxFeedback : PastName(w, k) \in Name \cup {None}
  <2>1. /\ handles[w] \in Seq(Name \cup {None}) /\ ring[w] \in Seq(Name)
        /\ tmpHandles[w] \in [Id -> Name \cup {None}]
    BY DEF TypeOK
  <2> QED
    BY <2>1, Bounds DEF ImageName, FrameName, PastName
<1>2. \A s \in Slot : \/ \E i \in 1..MaxTextures : s = <<"image", i>>
                      \/ \E id \in Id : s = <<"frame", id>>
                      \/ \E k \in 1..MaxFeedback : s = <<"past", k>>
  BY DEF Slot
<1>3. /\ \A i \in 1..MaxTextures : <<"image", i>> \in Slot
      /\ \A id \in Id : <<"frame", id>> \in Slot
      /\ \A k \in 1..MaxFeedback : <<"past", k>> \in Slot
  BY DEF Slot
<1>4. /\ \A i \in 1..MaxTextures : Owner(w)[<<"image", i>>] = ImageName(w, i)
      /\ \A id \in Id : Owner(w)[<<"frame", id>>] = FrameName(w, id)
      /\ \A k \in 1..MaxFeedback : Owner(w)[<<"past", k>>] = PastName(w, k)
  BY <1>3 DEF Owner
<1>5. \A s \in Slot : Owner(w)[s] \in Name \cup {None}
  BY <1>1, <1>2, <1>4
<1>6. Owner(w) \in [Slot -> Name \cup {None}]
  <2>1. Owner(w) = [s \in Slot |-> Owner(w)[s]]
    BY DEF Owner
  <2> QED
    BY <1>5, <2>1
<1> QED
  BY <1>2, <1>3, <1>4, <1>6

\* The names of the slots after a step.
LEMMA NewOwner ==
  ASSUME NEW w
  PROVE  /\ \A i \in 1..MaxTextures : <<"image", i>> \in Slot /\ Owner(w)'[<<"image", i>>] = ImageName(w, i)'
         /\ \A id \in Id : <<"frame", id>> \in Slot /\ Owner(w)'[<<"frame", id>>] = FrameName(w, id)'
         /\ \A k \in 1..MaxFeedback : <<"past", k>> \in Slot /\ Owner(w)'[<<"past", k>>] = PastName(w, k)'
         /\ \A s \in Slot : \/ \E i \in 1..MaxTextures : s = <<"image", i>>
                            \/ \E id \in Id : s = <<"frame", id>>
                            \/ \E k \in 1..MaxFeedback : s = <<"past", k>>
<1>1. /\ \A i \in 1..MaxTextures : <<"image", i>> \in Slot
      /\ \A id \in Id : <<"frame", id>> \in Slot
      /\ \A k \in 1..MaxFeedback : <<"past", k>> \in Slot
  BY DEF Slot
<1>2. \A s \in Slot : \/ \E i \in 1..MaxTextures : s = <<"image", i>>
                      \/ \E id \in Id : s = <<"frame", id>>
                      \/ \E k \in 1..MaxFeedback : s = <<"past", k>>
  BY DEF Slot
<1>3. /\ \A i \in 1..MaxTextures : Owner(w)'[<<"image", i>>] = ImageName(w, i)'
      /\ \A id \in Id : Owner(w)'[<<"frame", id>>] = FrameName(w, id)'
      /\ \A k \in 1..MaxFeedback : Owner(w)'[<<"past", k>>] = PastName(w, k)'
  BY <1>1 DEF Owner
<1> QED
  BY <1>1, <1>2, <1>3

\* Of a window that has no handles every texture is free.
LEMMA Unowned ==
  ASSUME NEW w \in Renderers, TypeOK, handles[w] = <<>>, ring[w] = <<>>,
         tmpHandles[w] = [id \in Id |-> None], gl[w].texture = [m \in Name |-> Free]
  PROVE  Accounts(Owner(w), gl[w].texture)
<1>1. \A i : ImageName(w, i) = None \/ ~(i \in 1..MaxTextures)
  BY DEF ImageName
<1>2. \A k : PastName(w, k) = None \/ ~(k \in 1..MaxFeedback)
  BY DEF PastName
<1>3. \A id \in Id : FrameName(w, id) = None
  BY DEF FrameName
<1>4. \A s \in Slot : Owner(w)[s] = None
  BY <1>1, <1>2, <1>3, OwnerTypes
<1>5. \A m \in Name : m # None
  BY Bounds DEF Name, None
<1> QED
  BY <1>4, <1>5 DEF Accounts

\* So it is of one that is closed.
LEMMA NewUnowned ==
  ASSUME NEW w \in Renderers, handles'[w] = <<>>, ring'[w] = <<>>,
         tmpHandles'[w] = [id \in Id |-> None], gl'[w].texture = [m \in Name |-> Free]
  PROVE  Accounts(Owner(w), gl[w].texture)'
<1>1. \A i \in 1..MaxTextures : ImageName(w, i)' = None
  BY DEF ImageName
<1>2. \A k \in 1..MaxFeedback : PastName(w, k)' = None
  BY Bounds DEF PastName
<1>3. \A id \in Id : FrameName(w, id)' = None
  BY DEF FrameName
<1>4. \A s \in Slot : Owner(w)'[s] = None
  BY <1>1, <1>2, <1>3, NewOwner
<1>5. \A m \in Name : m # None
  BY Bounds DEF Name, None
<1> QED
  BY <1>4, <1>5 DEF Accounts

\* The first event is delivered to the one window.
LEMMA ToTheWindow ==
  ASSUME NEW w \in Renderers, WellFormed, ClosedOrOpen(w), NEW signal, NEW key,
         Delivers(signal, w, key)
  PROVE  /\ open = <<w>> /\ current = w /\ open' = <<w>>
         /\ \E n \in Nat : Len(events') = n /\ Len(events) = n + 1
                           /\ DOMAIN events' = 1..n /\ DOMAIN events = 1..n + 1
         /\ \A i \in DOMAIN events' : i \in Nat /\ i + 1 \in DOMAIN events /\ events'[i] = events[i + 1]
         /\ \A i \in DOMAIN events : i = 1 \/ (i - 1 \in DOMAIN events' /\ events'[i - 1] = events[i])
         /\ 1 \in DOMAIN events
         /\ events[1].signal = signal /\ events[1].to = w /\ events[1].key = key
         /\ \A i \in DOMAIN events : events[i].to = w
<1>1. /\ events' \in Seq(Event) /\ events \in Seq(Event)
      /\ Len(events') = Len(events) - 1 /\ 1 \in DOMAIN events
      /\ \A i \in DOMAIN events' : i + 1 \in DOMAIN events /\ events'[i] = events[i + 1]
      /\ events[1].signal = signal /\ events[1].to = w /\ events[1].key = key
  BY DeliveredTypes DEF WellFormed, TypeOK
<1>2. open = <<w>> /\ current = w /\ open' = <<w>>
  BY DEF ClosedOrOpen, Delivers
<1>3. \A i \in DOMAIN events : events[i].to = w
  BY <1>2 DEF WellFormed, ToSet
<1>4. PICK n \in Nat : n = Len(events')
  BY <1>1
<1>5. Len(events) = n + 1 /\ DOMAIN events' = 1..n /\ DOMAIN events = 1..n + 1
  BY <1>1, <1>4
<1>6. \A i \in DOMAIN events : i = 1 \/ (i - 1 \in DOMAIN events' /\ events'[i - 1] = events[i])
  BY <1>1, <1>5
<1> QED
  BY <1>1, <1>2, <1>3, <1>4, <1>5, <1>6

\* What is left to be told when the first event is delivered.
LEMMA SignalsAfter ==
  ASSUME NEW w \in Renderers, WellFormed, ClosedOrOpen(w), Signals(w),
         NEW signal, NEW key \in Nat, Delivers(signal, w, key),
         \A id \in Id : \/ tmpHandles'[w][id] = tmpHandles[w][id]
                        \/ First(1, id) /\ frames[id] # NoFrame,
         \A id \in Id : First(1, id) /\ frames[id] # NoFrame => tmpHandles'[w][id] # None
  PROVE  /\ Signals(w)'
         /\ \A sig, k : Pending(sig, w, k) <=> Pending(sig, w, k)' \/ (sig = signal /\ k = key)
         /\ \A id \in Id : ~(signal = "delete" /\ id = key) => (Alive(w, id)' <=> Alive(w, id))
         /\ signal = "delete" => key \in Id /\ Alive(w, key) /\ ~Alive(w, key)'
<1>0. /\ frames' = frames /\ quads' = quads /\ nextID' = nextID /\ open' = open
  BY DEF Delivers, poolVars
<1>1. /\ open = <<w>> /\ current = w /\ open' = <<w>>
      /\ \A i \in DOMAIN events' : i \in Nat /\ i + 1 \in DOMAIN events /\ events'[i] = events[i + 1]
      /\ \A i \in DOMAIN events : i = 1 \/ (i - 1 \in DOMAIN events' /\ events'[i - 1] = events[i])
      /\ 1 \in DOMAIN events
      /\ events[1].signal = signal /\ events[1].to = w /\ events[1].key = key
      /\ \A i \in DOMAIN events : events[i].to = w
  BY ToTheWindow
<1>2. PICK n \in Nat : Len(events') = n /\ Len(events) = n + 1
                       /\ DOMAIN events' = 1..n /\ DOMAIN events = 1..n + 1
  BY ToTheWindow
<1>3. \A i \in 1..n : \A id : (First(i, id)' <=> First(i + 1, id)) /\ (About(i, id)' <=> About(i + 1, id))
  BY <1>1, <1>2 DEF First, About
<1>4. \A sig, k : Pending(sig, w, k) <=> Pending(sig, w, k)' \/ (sig = signal /\ k = key)
  BY <1>1 DEF Pending
<1>5. ASSUME NEW id \in Id, NEW i \in 2..n + 2, HasName(w, id, i), First(1, id) => frames[id] # NoFrame
      PROVE  HasName(w, id, i - 1)'
  <2>1. CASE First(1, id)
    BY <1>5, <2>1 DEF HasName
  <2>2. CASE tmpHandles[w][id] # None /\ ~First(1, id)
    BY <2>2 DEF HasName
  <2>3. ASSUME NEW j \in DOMAIN events, j < i, First(j, id), ~First(1, id) PROVE HasName(w, id, i - 1)'
    <3>1. j # 1 /\ j - 1 \in 1..n /\ j - 1 < i - 1 /\ (j - 1) + 1 = j
      BY <1>2, <2>3
    <3>2. First(j - 1, id)'
      BY <1>3, <2>3, <3>1
    <3> QED
      BY <1>2, <3>1, <3>2 DEF HasName
  <2> QED
    BY <1>5, <2>1, <2>2, <2>3 DEF HasName
<1>6. FramesHaveQuads'
  BY <1>0 DEF Signals, FramesHaveQuads
<1>7. NamesHaveFrames(w)'
  <2>1. \A id \in Id : First(1, id) => id < nextID
    BY <1>1 DEF Signals, KeysAreKnown, First, About, Id
  <2> QED
    BY <1>0, <2>1 DEF Signals, NamesHaveFrames
<1>8. FramesHaveNames(w)'
  <2> SUFFICES ASSUME NEW id \in Id, Announced(id), frames[id] # NoFrame
               PROVE  HasName(w, id, Len(events) + 1)'
    BY <1>0 DEF FramesHaveNames, Announced
  <2>1. HasName(w, id, n + 2) /\ n + 2 \in 2..n + 2 /\ n + 2 - 1 = n + 1
    BY <1>1, <1>2 DEF Signals, FramesHaveNames
  <2>2. HasName(w, id, n + 2 - 1)'
    BY <1>5, <2>1
  <2> QED
    BY <1>2, <2>1, <2>2
<1>9. KeysAreKnown'
  BY <1>0, <1>1, <1>2, <1>3 DEF Signals, KeysAreKnown
<1>10. DeletedLast'
  <2> SUFFICES ASSUME NEW i \in 1..n, NEW id \in Id, events'[i].signal = "delete", events'[i].key = id
               PROVE  id \notin quads /\ \A j \in 1..n : About(j, id)' => j <= i
    BY <1>0, <1>2 DEF DeletedLast
  <2>1. i + 1 \in 1..n + 1 /\ events[i + 1].signal = "delete" /\ events[i + 1].key = id
    BY <1>1, <1>2
  <2>2. id \notin quads /\ \A j \in 1..n + 1 : About(j, id) => j <= i + 1
    BY <1>2, <2>1 DEF Signals, DeletedLast
  <2>3. ASSUME NEW j \in 1..n, About(j, id)' PROVE j <= i
    <3>1. About(j + 1, id) /\ j + 1 \in 1..n + 1
      BY <1>3, <2>3
    <3>2. j + 1 <= i + 1
      BY <2>2, <3>1
    <3> QED
      BY <3>2
  <2> QED
    BY <2>2, <2>3
<1>11. ASSUME NEW id \in Id, signal = "delete", key = id
       PROVE  id \notin quads /\ \A i \in 1..n : ~About(i, id)'
  <2>1. id \notin quads /\ \A j \in 1..n + 1 : About(j, id) => j <= 1
    BY <1>1, <1>2, <1>11 DEF Signals, DeletedLast
  <2>2. ASSUME NEW i \in 1..n, About(i, id)' PROVE FALSE
    <3>1. About(i + 1, id) /\ i + 1 \in 1..n + 1 /\ ~(i + 1 <= 1)
      BY <1>3, <2>2
    <3> QED
      BY <2>1, <3>1
  <2> QED
    BY <2>1, <2>2
<1>12. \A id \in Id : ~(signal = "delete" /\ id = key) => (Alive(w, id)' <=> Alive(w, id))
  BY <1>0, <1>4 DEF Alive, Ends
<1>13. signal = "delete" => key \in Id /\ Alive(w, key) /\ ~Alive(w, key)'
  <2> SUFFICES ASSUME signal = "delete" PROVE key \in Id /\ Alive(w, key) /\ ~Alive(w, key)'
    OBVIOUS
  <2>1. key \in Id
    BY <1>1 DEF Signals, KeysAreKnown, About
  <2>2. Alive(w, key)
    BY <1>1 DEF Alive, Ends, Pending
  <2>3. \A i \in 1..n : ~(events'[i].signal = "delete" /\ events'[i].key = key)
    BY <1>11, <2>1 DEF About
  <2> QED
    BY <1>0, <1>2, <1>11, <2>1, <2>2, <2>3 DEF Alive, Ends, Pending
<1>14. FramesAreAlive(w)'
  <2> SUFFICES ASSUME NEW i \in 1..n, NEW id \in Id, events'[i].signal = "tmp", events'[i].key = id
               PROVE  Alive(w, id)'
    BY <1>2 DEF FramesAreAlive
  <2>1. i + 1 \in 1..n + 1 /\ events[i + 1].signal = "tmp" /\ events[i + 1].key = id
    BY <1>1, <1>2
  <2>2. Alive(w, id)
    BY <1>2, <2>1 DEF Signals, FramesAreAlive
  <2>3. ~(signal = "delete" /\ id = key)
    BY <1>11, <2>1 DEF About
  <2> QED
    BY <1>12, <2>2, <2>3
<1>15. FirstIsFirst(w)'
  <2> SUFFICES ASSUME NEW i \in 1..n, NEW id \in Id, First(i, id)'
               PROVE  /\ tmpHandles'[w][id] = None
                      /\ Announced(id) \/ id \notin quads
                      /\ \A j \in 1..n : events'[j].signal = "tmp" /\ events'[j].key = id => i <= j
    BY <1>0, <1>2 DEF FirstIsFirst, Announced
  <2>1. i + 1 \in 1..n + 1 /\ First(i + 1, id)
    <3>1. First(i, id)' <=> First(i + 1, id)
      BY <1>3
    <3> QED
      BY <3>1
  <2>2. /\ tmpHandles[w][id] = None /\ (Announced(id) \/ id \notin quads)
        /\ \A j \in 1..n + 1 : events[j].signal = "tmp" /\ events[j].key = id => i + 1 <= j
    BY <1>2, <2>1 DEF Signals, FirstIsFirst
  <2>3. ~First(1, id)
    <3>1. First(1, id) => i + 1 <= 1
      BY <1>1, <1>2, <2>2 DEF First
    <3> QED
      BY <3>1
  <2>4. ASSUME NEW j \in 1..n, events'[j].signal = "tmp", events'[j].key = id PROVE i <= j
    <3>1. j + 1 \in 1..n + 1 /\ events[j + 1].signal = "tmp" /\ events[j + 1].key = id
      BY <1>1, <1>2, <2>4
    <3>2. i + 1 <= j + 1
      BY <2>2, <3>1
    <3> QED
      BY <3>2
  <2> QED
    BY <2>2, <2>3, <2>4
<1>16. OthersHaveNames(w)'
  <2> SUFFICES ASSUME NEW i \in 1..n, NEW id \in quads, events'[i].signal = "tmp",
                      events'[i].samep, events'[i].key = id, Announced(id)
               PROVE  HasName(w, id, i)'
    BY <1>0, <1>2 DEF OthersHaveNames, Announced
  <2>1. i + 1 \in 1..n + 1 /\ events[i + 1].signal = "tmp" /\ events[i + 1].samep /\ events[i + 1].key = id
    BY <1>1, <1>2
  <2>2. HasName(w, id, i + 1)
    BY <1>2, <2>1 DEF Signals, OthersHaveNames
  <2>3. id \in Id
    <3>1. quads \subseteq 0..nextID - 1 /\ nextID \in 0..MaxId /\ MaxId \in Nat
      BY Bounds DEF WellFormed, TypeOK
    <3> QED
      BY <3>1 DEF Id
  <2>4. First(1, id) => frames[id] # NoFrame
    BY DEF Announced
  <2>5. i + 1 \in 2..n + 2 /\ i + 1 - 1 = i
    OBVIOUS
  <2> QED
    BY <1>5, <2>2, <2>3, <2>4, <2>5
<1>17. WordsHaveFrames'
  <2> SUFFICES ASSUME NEW i \in 1..n, NEW id \in quads, events'[i].signal = "tmp", events'[i].key = id
               PROVE  frames[id] # NoFrame
    BY <1>0, <1>2 DEF WordsHaveFrames
  <2>1. i + 1 \in 1..n + 1 /\ events[i + 1].signal = "tmp" /\ events[i + 1].key = id
    BY <1>1, <1>2
  <2> QED
    BY <1>2, <2>1 DEF Signals, WordsHaveFrames
<1> QED
  BY <1>4, <1>6, <1>7, <1>8, <1>9, <1>10, <1>12, <1>13, <1>14, <1>15, <1>16, <1>17 DEF Signals

\* A step that gives one slot another texture, or none, keeps the window
\* consistent if it shows what it should there.
LEMMA SlotChanges ==
  ASSUME NEW w \in Renderers, Consistent(w), WellFormed', Signals(w)',
         open = <<w>>, open' = <<w>>, current' = w, UNCHANGED <<textures, frames>>,
         NEW s \in Slot, NEW n \in Name \cup {None},
         Owner(w)' = [Owner(w) EXCEPT ![s] = n],
         n # None => gl[w].texture[n] = Free \/ n = Owner(w)[s],
         \A m \in Name : IF m = n THEN gl'[w].texture[m] # Free
                         ELSE IF m = Owner(w)[s] THEN gl'[w].texture[m] = Free
                         ELSE gl'[w].texture[m] = gl[w].texture[m],
         \A i \in DOMAIN textures :
           IF s = <<"image", i>>
           THEN IF textures[i].video THEN n = None
                ELSE n # None /\ gl'[w].texture[n] = textures[i].pic
           ELSE Pending("changed", w, i - 1) => Pending("changed", w, i - 1)',
         \A id \in Id : frames[id] # NoFrame =>
           IF s = <<"frame", id>>
           THEN IF n = None THEN ~Announced(id) ELSE gl'[w].texture[n] = frames[id].pic
           ELSE Pending("tmp", w, id) => Pending("tmp", w, id)'
  PROVE  Consistent(w)'
<1>1. TypeOK /\ TypeOK'
  BY DEF Consistent, WellFormed
<1>2. /\ Owner(w) \in [Slot -> Name \cup {None}]
      /\ \A i \in 1..MaxTextures : <<"image", i>> \in Slot /\ Owner(w)[<<"image", i>>] = ImageName(w, i)
      /\ \A id \in Id : <<"frame", id>> \in Slot /\ Owner(w)[<<"frame", id>>] = FrameName(w, id)
  BY <1>1, OwnerTypes
<1>3. /\ \A i \in 1..MaxTextures : Owner(w)'[<<"image", i>>] = ImageName(w, i)'
      /\ \A id \in Id : Owner(w)'[<<"frame", id>>] = FrameName(w, id)'
  <2>1. \A i \in 1..MaxTextures : <<"image", i>> \in Slot
    BY <1>2
  <2>2. \A id \in Id : <<"frame", id>> \in Slot
    BY <1>2
  <2> QED
    BY <2>1, <2>2 DEF Owner
<1>4. /\ Accounts(Owner(w)', gl'[w].texture)
      /\ \A t \in Slot : t # s /\ Owner(w)[t] # None =>
           /\ Owner(w)'[t] = Owner(w)[t]
           /\ gl'[w].texture[Owner(w)[t]] = gl[w].texture[Owner(w)[t]]
  <2>1. Accounts(Owner(w), gl[w].texture)
    BY DEF Consistent
  <2> PICK own, new, texture, texture2 :
        own = Owner(w) /\ new = Owner(w)' /\ texture = gl[w].texture /\ texture2 = gl'[w].texture
    OBVIOUS
  <2>2. Renames(s, n, own, new, texture, texture2)
    BY <1>2, <2>1 DEF Renames
  <2>3. /\ Accounts(new, texture2)
        /\ \A t \in Slot : t # s /\ own[t] # None =>
             new[t] = own[t] /\ texture2[own[t]] = texture[own[t]]
    BY <2>2, Renamed
  <2> QED
    BY <2>3
<1>5. Owner(w)'[s] = n /\ \A t \in Slot : t # s => Owner(w)'[t] = Owner(w)[t]
  BY <1>2
<1>6. Accounts(Owner(w), gl[w].texture)'
  BY <1>4 DEF Accounts
<1>7. ClosedOrOpen(w)'
  BY DEF ClosedOrOpen
<1>8. ImagesShown(w)'
  <2> SUFFICES ASSUME NEW i \in DOMAIN textures
               PROVE  IF textures[i].video THEN ImageName(w, i)' = None
                      ELSE ~Pending("changed", w, i - 1)' =>
                             ImageName(w, i)' # None /\ gl'[w].texture[ImageName(w, i)'] = textures[i].pic
    BY DEF ImagesShown
  <2>1. i \in 1..MaxTextures
    BY <1>1, Bounds DEF TypeOK
  <2>2. CASE s = <<"image", i>>
    BY <1>3, <1>5, <2>1, <2>2
  <2>3. CASE s # <<"image", i>>
    <3>1. /\ ImageName(w, i)' = ImageName(w, i)
          /\ ImageName(w, i) # None =>
               gl'[w].texture[ImageName(w, i)] = gl[w].texture[ImageName(w, i)]
      <4> PICK t \in Slot : t = <<"image", i>>
        BY <1>2, <2>1
      <4>1. t # s /\ Owner(w)[t] = ImageName(w, i) /\ Owner(w)'[t] = ImageName(w, i)'
        BY <1>2, <1>3, <2>1, <2>3
      <4> QED
        BY <1>4, <1>5, <4>1
    <3> QED
      BY <2>3, <3>1 DEF Consistent, ImagesShown
  <2> QED
    BY <2>2, <2>3
<1>9. FramesShown(w)'
  <2> SUFFICES ASSUME NEW id \in Id, frames[id] # NoFrame, ~Pending("tmp", w, id)'
               PROVE  IF tmpHandles'[w][id] = None THEN ~Announced(id)
                      ELSE gl'[w].texture[tmpHandles'[w][id]] = frames[id].pic
    BY DEF FramesShown, Announced
  <2>1. id \in quads /\ id \in quads'
    BY DEF Consistent, Signals, FramesHaveQuads
  <2>2. FrameName(w, id) = tmpHandles[w][id] /\ FrameName(w, id)' = tmpHandles'[w][id]
    BY <2>1 DEF FrameName, Alive
  <2>3. CASE s = <<"frame", id>>
    BY <1>3, <1>5, <2>2, <2>3
  <2>4. CASE s # <<"frame", id>>
    <3>1. /\ tmpHandles'[w][id] = tmpHandles[w][id]
          /\ tmpHandles[w][id] # None =>
               gl'[w].texture[tmpHandles[w][id]] = gl[w].texture[tmpHandles[w][id]]
      <4> PICK t \in Slot : t = <<"frame", id>>
        BY <1>2
      <4>1. t # s /\ Owner(w)[t] = tmpHandles[w][id] /\ Owner(w)'[t] = tmpHandles'[w][id]
        BY <1>2, <1>3, <2>2, <2>4
      <4> QED
        BY <1>4, <1>5, <4>1
    <3> QED
      BY <2>4, <3>1 DEF Consistent, FramesShown
  <2> QED
    BY <2>3, <2>4
<1> QED
  BY <1>6, <1>7, <1>8, <1>9 DEF Consistent

\* An upload fills the one texture.
LEMMA UploadedTexture ==
  ASSUME NEW c \in Context, NEW n \in Name, NEW p
  PROVE  \A m \in Name : Uploaded(c, n, p).texture[m] = IF m = n THEN p ELSE c.texture[m]
<1>1. c \in Context /\ c.texture \in [Name -> Content] /\ n # 0
  BY Bounds DEF Context, Content, Name
<1>2. Bound(c, n) = [texture |-> [c.texture EXCEPT ![n] = IF @ = Free THEN 0 ELSE @], bound |-> n]
  BY <1>1 DEF Bound, Context
<1>3. Filled(Bound(c, n), p) = [Bound(c, n) EXCEPT !.texture[n] = p]
  BY <1>1, <1>2 DEF Filled
<1>4. Uploaded(c, n, p).texture = [Bound(c, n).texture EXCEPT ![n] = p]
  BY <1>2, <1>3 DEF Uploaded
<1> QED
  BY <1>1, <1>2, <1>4

\* The contexts when the texture there was, if there was one, is deleted.
Freed(w, old) ==
  IF old = None THEN [gl |-> gl, current |-> current]
  ELSE [gl |-> [gl EXCEPT ![w] = Deleted(gl[w], old)], current |-> w]

\* Then a new one is filled.
LEMMA Replaced ==
  ASSUME NEW w \in Renderers, WellFormed, current = w, NEW old \in Name \cup {None},
         NEW n, NEW p \in Picture, Generates(Freed(w, old), n, p)
  PROVE  /\ current' = w /\ n \in Name /\ n # None
         /\ gl[w].texture[n] = Free \/ n = old
         /\ \A m \in Name : gl'[w].texture[m] = IF m = n THEN p
                                                ELSE IF m = old THEN Free
                                                ELSE gl[w].texture[m]
<1>1. /\ gl \in [Renderers -> Context] /\ gl[w] \in Context /\ gl[w].texture \in [Name -> Content]
      /\ gl[w].bound \in 0..MaxName
  BY DEF WellFormed, TypeOK, Context, Content
<1>2. w # None /\ \A m \in Name : m # None /\ m \in 1..MaxName /\ m # 0
  BY Bounds, BoundsAssumption DEF Name, None
<1> PICK s : s = Freed(w, old)
  OBVIOUS
<1>3. /\ s.current = w /\ s.gl \in [Renderers -> Context] /\ s.gl[w] \in Context
      /\ \A m \in Name : s.gl[w].texture[m] = IF m = old THEN Free ELSE gl[w].texture[m]
  <2>1. CASE old # None
    <3>1. old \in Name /\ s = [gl |-> [gl EXCEPT ![w] = Deleted(gl[w], old)], current |-> w]
      BY <2>1 DEF Freed
    <3>2. Deleted(gl[w], old) \in Context
      BY <1>1, <1>2, <3>1, ContextTypes, Bounds DEF Content, Picture
    <3>3. s.gl[w] = Deleted(gl[w], old) /\ s.current = w
      BY <1>1, <3>1
    <3>4. \A m \in Name : Deleted(gl[w], old).texture[m] = IF m = old THEN Free ELSE gl[w].texture[m]
      BY <1>1 DEF Deleted
    <3> QED
      BY <1>1, <3>1, <3>2, <3>3, <3>4
  <2>2. CASE old = None
    BY <1>1, <1>2, <2>2 DEF Freed
  <2> QED
    BY <2>1, <2>2
<1>4. /\ n \in Name /\ s.gl[w].texture[n] = Free
      /\ current' = w /\ gl' = [s.gl EXCEPT ![w] = Uploaded(s.gl[w], n, p)]
  BY <1>2, <1>3 DEF Generates, Generated, Unused
<1>5. \A m \in Name : Uploaded(s.gl[w], n, p).texture[m] = IF m = n THEN p ELSE s.gl[w].texture[m]
  BY <1>3, <1>4, UploadedTexture
<1> QED
  BY <1>2, <1>3, <1>4, <1>5

\* Before there is a window nothing is in use.
LEMMA InitConsistent ==
  ASSUME NEW w, Simple(w), Init
  PROVE  Consistent(w)
<1>1. w \in Renderers
  BY DEF Simple
<1>2. WellFormed
  BY InitTypes
<1>3. /\ open = <<>> /\ events = <<>> /\ quads = {} /\ current = None
      /\ handles[w] = <<>> /\ ring[w] = <<>> /\ tmpHandles[w] = [id \in Id |-> None]
      /\ gl[w].texture = [m \in Name |-> Free] /\ \A id \in Id : frames[id] = NoFrame
  BY <1>1 DEF Init, NewContext
<1>4. <<w>> # <<>> /\ \A m \in Name : m # None
  BY Bounds DEF Name, None
<1>5. ClosedOrOpen(w) /\ ImagesShown(w) /\ FramesShown(w)
  BY <1>3, <1>4 DEF ClosedOrOpen, ImagesShown, FramesShown
<1>6. Signals(w)
  BY <1>3, <1>4 DEF Signals, FramesHaveQuads, NamesHaveFrames, FramesHaveNames, KeysAreKnown,
       DeletedLast, FramesAreAlive, FirstIsFirst, OthersHaveNames, WordsHaveFrames, Announced
<1>7. Accounts(Owner(w), gl[w].texture)
  BY <1>1, <1>2, <1>3, Unowned DEF WellFormed
<1> QED
  BY <1>2, <1>5, <1>6, <1>7 DEF Consistent

\* A step that is the delivery of a signal, without what else it does.
LEMMA DeliveryOwner ==
  ASSUME NEW w \in Renderers, TypeOK, UNCHANGED ring,
         NEW s \in Slot, NEW n,
         \A i \in 1..MaxTextures :
           ImageName(w, i)' = IF s = <<"image", i>> THEN n ELSE ImageName(w, i),
         \A id \in Id :
           FrameName(w, id)' = IF s = <<"frame", id>> THEN n ELSE FrameName(w, id),
         \A k \in 1..MaxFeedback : s # <<"past", k>>
  PROVE  Owner(w)' = [Owner(w) EXCEPT ![s] = n]
<1>1. \A k \in 1..MaxFeedback : PastName(w, k)' = PastName(w, k)
  BY DEF PastName
<1>2. /\ \A i \in 1..MaxTextures : <<"image", i>> \in Slot /\ Owner(w)[<<"image", i>>] = ImageName(w, i)
      /\ \A id \in Id : <<"frame", id>> \in Slot /\ Owner(w)[<<"frame", id>>] = FrameName(w, id)
      /\ \A k \in 1..MaxFeedback : <<"past", k>> \in Slot /\ Owner(w)[<<"past", k>>] = PastName(w, k)
      /\ \A t \in Slot : \/ \E i \in 1..MaxTextures : t = <<"image", i>>
                         \/ \E id \in Id : t = <<"frame", id>>
                         \/ \E k \in 1..MaxFeedback : t = <<"past", k>>
  BY OwnerTypes
<1>3. /\ \A i \in 1..MaxTextures : Owner(w)'[<<"image", i>>] = ImageName(w, i)'
      /\ \A id \in Id : Owner(w)'[<<"frame", id>>] = FrameName(w, id)'
      /\ \A k \in 1..MaxFeedback : Owner(w)'[<<"past", k>>] = PastName(w, k)'
  <2>1. \A i \in 1..MaxTextures : <<"image", i>> \in Slot
    BY <1>2
  <2>2. \A id \in Id : <<"frame", id>> \in Slot
    BY <1>2
  <2>3. \A k \in 1..MaxFeedback : <<"past", k>> \in Slot
    BY <1>2
  <2> QED
    BY <2>1, <2>2, <2>3 DEF Owner
<1>4. ASSUME NEW t \in Slot PROVE Owner(w)'[t] = IF t = s THEN n ELSE Owner(w)[t]
  <2>1. ASSUME NEW i \in 1..MaxTextures, t = <<"image", i>>
        PROVE  Owner(w)'[t] = IF t = s THEN n ELSE Owner(w)[t]
    BY <1>2, <1>3, <2>1
  <2>2. ASSUME NEW id \in Id, t = <<"frame", id>>
        PROVE  Owner(w)'[t] = IF t = s THEN n ELSE Owner(w)[t]
    BY <1>2, <1>3, <2>2
  <2>3. ASSUME NEW k \in 1..MaxFeedback, t = <<"past", k>>
        PROVE  Owner(w)'[t] = IF t = s THEN n ELSE Owner(w)[t]
    BY <1>1, <1>2, <1>3, <2>3
  <2> QED
    BY <1>2, <2>1, <2>2, <2>3
<1>5. Owner(w)' = [t \in Slot |-> Owner(w)'[t]] /\ Owner(w) = [t \in Slot |-> Owner(w)[t]]
  BY DEF Owner
<1> QED
  BY <1>4, <1>5

\* An image is uploaded, or a video in its place is not.
LEMMA ImageDelivered ==
  ASSUME NEW w \in Renderers, Consistent(w), WellFormed', NEW index \in Index, change_texture(w, index)
  PROVE  Consistent(w)'
<1>1. /\ WellFormed /\ TypeOK /\ ClosedOrOpen(w) /\ Signals(w) /\ index \in Nat
      /\ Accounts(Owner(w), gl[w].texture)
      /\ index + 1 \in DOMAIN textures /\ index + 1 \in 1..MaxTextures
      /\ Len(handles[w]) <= Len(textures) /\ Len(textures) <= MaxTextures
      /\ handles[w] \in Seq(Name \cup {None}) /\ handles \in [Renderers -> Seq(Name \cup {None})]
      /\ textures \in Seq(Texture) /\ textures[index + 1] \in Texture
  <2>1. /\ WellFormed /\ TypeOK /\ ClosedOrOpen(w) /\ Signals(w)
        /\ Accounts(Owner(w), gl[w].texture)
        /\ Len(handles[w]) <= Len(textures) /\ Len(textures) <= MaxTextures
        /\ handles[w] \in Seq(Name \cup {None}) /\ handles \in [Renderers -> Seq(Name \cup {None})]
        /\ textures \in Seq(Texture)
    BY DEF Consistent, WellFormed, TypeOK
  <2>2. Len(textures) \in Nat /\ DOMAIN textures = 1..Len(textures)
    BY <2>1
  <2>3. index \in Nat /\ index + 1 \in 1..Len(textures) /\ index + 1 \in 1..MaxTextures
    BY <2>1, <2>2, Bounds DEF Index
  <2> QED
    BY <2>1, <2>2, <2>3
<1>2. /\ Delivers("changed", w, index) /\ tmpHandles' = tmpHandles
      /\ textures' = textures /\ frames' = frames /\ ring' = ring
  BY DEF change_texture, Delivers, poolVars, feedbackVars
<1>3. open = <<w>> /\ current = w /\ open' = <<w>> /\ events[1].signal = "changed"
  BY <1>1, <1>2, ToTheWindow
<1>4. /\ Signals(w)'
      /\ \A sig, k : Pending(sig, w, k) <=> Pending(sig, w, k)' \/ (sig = "changed" /\ k = index)
      /\ \A id \in Id : Alive(w, id)' <=> Alive(w, id)
  <2>1. \A id \in Id : ~First(1, id) /\ tmpHandles'[w][id] = tmpHandles[w][id]
    BY <1>2, <1>3 DEF First
  <2> QED
    BY <1>1, <1>2, <2>1, SignalsAfter
<1> PICK h, old : h = Padded(handles[w], index + 1) /\ old = h[index + 1]
  OBVIOUS
<1>5. /\ h \in Seq(Name \cup {None}) /\ Len(h) <= MaxTextures /\ index + 1 \in 1..Len(h)
      /\ \A i \in 1..MaxTextures : ImageName(w, i) = IF i <= Len(h) THEN h[i] ELSE None
      /\ old = ImageName(w, index + 1) /\ old \in Name \cup {None}
  <2>1. /\ h \in Seq(Name \cup {None})
        /\ Len(h) = IF Len(handles[w]) < index + 1 THEN index + 1 ELSE Len(handles[w])
        /\ \A i \in 1..Len(h) : h[i] = IF i <= Len(handles[w]) THEN handles[w][i] ELSE None
    <3> PICK g \in Seq(Name \cup {None}), n \in Nat : g = handles[w] /\ n = index + 1
      BY <1>1
    <3> QED
      BY PaddedTypes
  <2>2. Len(handles[w]) \in Nat /\ Len(textures) \in Nat
    BY <1>1
  <2>3. index + 1 \in 1..Len(h) /\ Len(h) <= MaxTextures
    BY <1>1, <2>1, <2>2, Bounds
  <2>4. \A i \in 1..MaxTextures : ImageName(w, i) = IF i <= Len(h) THEN h[i] ELSE None
    BY <2>1, <2>2, <2>3 DEF ImageName
  <2> QED
    BY <1>1, <2>1, <2>3, <2>4
<1> PICK s : s = <<"image", index + 1>>
  OBVIOUS
<1>6. /\ s \in Slot /\ Owner(w)[s] = old
      /\ \A i : s = <<"image", i>> <=> i = index + 1
      /\ \A x : s # <<"frame", x>> /\ s # <<"past", x>>
  BY <1>1, <1>5, OwnerTypes
<1>7. \A i \in DOMAIN textures : s # <<"image", i>> =>
        (Pending("changed", w, i - 1) => Pending("changed", w, i - 1)')
  <2>1. \A i \in DOMAIN textures : i \in Int /\ (i # index + 1 => i - 1 # index)
    BY <1>1
  <2> QED
    BY <1>4, <1>6, <2>1
<1>8. \A id \in Id : s # <<"frame", id>> /\ (Pending("tmp", w, id) => Pending("tmp", w, id)')
  BY <1>4, <1>6
<1>9. \A id \in Id : FrameName(w, id)' = FrameName(w, id)
  BY <1>2, <1>4 DEF FrameName
<1>10. ASSUME NEW n \in Name \cup {None}, handles' = [handles EXCEPT ![w] = [h EXCEPT ![index + 1] = n]]
       PROVE  Owner(w)' = [Owner(w) EXCEPT ![s] = n]
  <2>1. handles'[w] = [h EXCEPT ![index + 1] = n]
    BY <1>1, <1>10
  <2>2. \A i \in 1..MaxTextures : ImageName(w, i)' = IF i = index + 1 THEN n ELSE ImageName(w, i)
    <3>1. Len(handles'[w]) = Len(h) /\ Len(h) \in Nat
          /\ \A i \in 1..Len(h) : handles'[w][i] = IF i = index + 1 THEN n ELSE h[i]
      BY <1>5, <2>1
    <3>2. \A i \in 1..MaxTextures : i <= Len(h) => i \in 1..Len(h)
      BY <3>1
    <3> QED
      BY <1>5, <3>1, <3>2 DEF ImageName
  <2> QED
    BY <1>1, <1>2, <1>6, <1>9, <2>2, DeliveryOwner
<1>11. CASE textures[index + 1].video
  <2>1. old = None
    BY <1>1, <1>3, <1>5, <1>11 DEF Consistent, ImagesShown
  <2>2. gl' = gl /\ current' = current /\ handles' = [handles EXCEPT ![w] = h]
    BY <1>11, <2>1 DEF change_texture, After
  <2>3. h = [h EXCEPT ![index + 1] = None]
    BY <1>5, <2>1
  <2>4. Owner(w)' = [Owner(w) EXCEPT ![s] = None]
    BY <1>10, <2>2, <2>3
  <2>5. \A m \in Name : m # None
    BY Bounds DEF Name, None
  <2> QED
    BY <1>2, <1>3, <1>4, <1>6, <1>7, <1>8, <1>11, <2>1, <2>2, <2>4, <2>5, SlotChanges
<1>12. CASE ~textures[index + 1].video
  <2>1. PICK n \in Name : /\ Generates(Freed(w, old), n, textures[index + 1].pic)
                          /\ handles' = [handles EXCEPT ![w] = [h EXCEPT ![index + 1] = n]]
    BY <1>12 DEF change_texture, After, Freed
  <2>2. textures[index + 1].pic \in Picture
    BY <1>1 DEF Texture
  <2>3. /\ current' = w /\ n # None /\ (gl[w].texture[n] = Free \/ n = old)
        /\ \A m \in Name : gl'[w].texture[m] = IF m = n THEN textures[index + 1].pic
                                               ELSE IF m = old THEN Free
                                               ELSE gl[w].texture[m]
    BY <1>1, <1>3, <1>5, <2>1, <2>2, Replaced
  <2>4. textures[index + 1].pic # Free
    BY <2>2, Bounds DEF Picture, Free
  <2>5. Owner(w)' = [Owner(w) EXCEPT ![s] = n]
    BY <1>10, <2>1
  <2> QED
    BY <1>2, <1>3, <1>4, <1>6, <1>7, <1>8, <1>12, <2>3, <2>4, <2>5, SlotChanges
<1> QED
  BY <1>11, <1>12

\* What a signal about a frame leaves alone.
LEMMA FrameDelivery ==
  ASSUME NEW w \in Renderers, Consistent(w), NEW signal \in {"tmp", "delete"}, NEW id \in Id,
         Delivers(signal, w, id), UNCHANGED handles,
         \A k \in Id : k # id => tmpHandles'[w][k] = tmpHandles[w][k],
         tmpHandles'[w][id] = tmpHandles[w][id] \/ (First(1, id) /\ frames[id] # NoFrame),
         First(1, id) /\ frames[id] # NoFrame => tmpHandles'[w][id] # None
  PROVE  /\ Signals(w)' /\ open = <<w>> /\ current = w /\ open' = <<w>> /\ UNCHANGED <<textures, frames>>
         /\ <<"frame", id>> \in Slot /\ Owner(w)[<<"frame", id>>] = tmpHandles[w][id]
         /\ Owner(w)' = [Owner(w) EXCEPT ![<<"frame", id>>] =
                            IF signal = "delete" THEN None ELSE tmpHandles'[w][id]]
         /\ \A i \in DOMAIN textures : /\ <<"frame", id>> # <<"image", i>>
                                       /\ Pending("changed", w, i - 1) => Pending("changed", w, i - 1)'
         /\ \A k \in Id : /\ <<"frame", id>> = <<"frame", k>> => k = id
                          /\ k # id => (Pending("tmp", w, k) => Pending("tmp", w, k)')
<1>1. /\ WellFormed /\ TypeOK /\ ClosedOrOpen(w) /\ Signals(w) /\ id \in Nat
  BY DEF Consistent, WellFormed, Id
<1>2. textures' = textures /\ frames' = frames /\ ring' = ring
  BY DEF Delivers, poolVars, feedbackVars
<1>3. /\ open = <<w>> /\ current = w /\ open' = <<w>>
      /\ events[1].signal = signal /\ events[1].key = id /\ 1 \in DOMAIN events
  BY <1>1, ToTheWindow
<1>4. /\ \A k \in Id : \/ tmpHandles'[w][k] = tmpHandles[w][k] \/ (First(1, k) /\ frames[k] # NoFrame)
      /\ \A k \in Id : First(1, k) /\ frames[k] # NoFrame => tmpHandles'[w][k] # None
  BY <1>3 DEF First
<1>5. /\ Signals(w)'
      /\ \A sig, k : Pending(sig, w, k) <=> Pending(sig, w, k)' \/ (sig = signal /\ k = id)
      /\ \A k \in Id : ~(signal = "delete" /\ k = id) => (Alive(w, k)' <=> Alive(w, k))
      /\ signal = "delete" => Alive(w, id) /\ ~Alive(w, id)'
  BY <1>1, <1>4, SignalsAfter
<1>6. Alive(w, id)
  BY <1>1, <1>3, <1>5 DEF Signals, FramesAreAlive
<1>7. <<"frame", id>> \in Slot /\ Owner(w)[<<"frame", id>>] = tmpHandles[w][id]
  BY <1>1, <1>6, OwnerTypes DEF FrameName
<1>8. \A k \in Id : FrameName(w, k)' =
        IF k = id THEN IF signal = "delete" THEN None ELSE tmpHandles'[w][id] ELSE FrameName(w, k)
  BY <1>5, <1>6 DEF FrameName
<1>9. \A i : ImageName(w, i)' = ImageName(w, i)
  BY DEF ImageName
<1>10. /\ \A i : <<"frame", id>> # <<"image", i>> /\ <<"frame", id>> # <<"past", i>>
       /\ \A k : <<"frame", id>> = <<"frame", k>> <=> k = id
  OBVIOUS
<1>11. Owner(w)' = [Owner(w) EXCEPT ![<<"frame", id>>] =
                      IF signal = "delete" THEN None ELSE tmpHandles'[w][id]]
  <2> PICK s, n : s \in Slot /\ s = <<"frame", id>> /\ n = IF signal = "delete" THEN None ELSE tmpHandles'[w][id]
    BY <1>7
  <2>1. /\ \A i \in 1..MaxTextures :
             ImageName(w, i)' = IF s = <<"image", i>> THEN n ELSE ImageName(w, i)
        /\ \A k \in Id : FrameName(w, k)' = IF s = <<"frame", k>> THEN n ELSE FrameName(w, k)
        /\ \A k \in 1..MaxFeedback : s # <<"past", k>>
    BY <1>8, <1>9, <1>10
  <2>2. TypeOK /\ UNCHANGED ring
    BY <1>1, <1>2
  <2>3. Owner(w)' = [Owner(w) EXCEPT ![s] = n]
    BY <2>1, <2>2, DeliveryOwner
  <2> QED
    BY <2>3
<1>12. \A i \in DOMAIN textures : Pending("changed", w, i - 1) => Pending("changed", w, i - 1)'
  BY <1>5
<1>13. \A k \in Id : k # id => (Pending("tmp", w, k) => Pending("tmp", w, k)')
  BY <1>5
<1> QED
  BY <1>2, <1>3, <1>5, <1>7, <1>10, <1>11, <1>12, <1>13

\* A frame is uploaded, to a new texture if it is the first of its quad.
LEMMA FrameDelivered ==
  ASSUME NEW w \in Renderers, Consistent(w), WellFormed', NEW id \in Id, change_tmp_texture(w, id)
  PROVE  Consistent(w)'
<1>1. /\ WellFormed /\ TypeOK /\ ClosedOrOpen(w) /\ Signals(w)
      /\ Accounts(Owner(w), gl[w].texture)
      /\ frames \in [Id -> Frame \cup {NoFrame}]
      /\ gl \in [Renderers -> Context] /\ gl[w] \in Context
      /\ tmpHandles \in [Renderers -> [Id -> Name \cup {None}]]
      /\ events \in Seq(Event)
  BY DEF Consistent, WellFormed, TypeOK
<1>2. Delivers("tmp", w, id) /\ handles' = handles
  BY DEF change_tmp_texture
<1>3. /\ open = <<w>> /\ current = w /\ 1 \in DOMAIN events
      /\ events[1].signal = "tmp" /\ events[1].key = id
      /\ events[1].samep \in BOOLEAN /\ Head(events) = events[1]
  <2>1. /\ open = <<w>> /\ current = w /\ 1 \in DOMAIN events
        /\ events[1].signal = "tmp" /\ events[1].key = id
    BY <1>1, <1>2, ToTheWindow
  <2>2. events[1] \in Event /\ Head(events) = events[1]
    BY <1>1, <2>1
  <2> QED
    BY <2>1, <2>2 DEF Event
<1>4. w # None /\ \A m \in Name : m # None /\ m # 0 /\ m \in 1..MaxName
  BY Bounds, BoundsAssumption DEF Name, None
<1> PICK h \in Name \cup {None} : h = tmpHandles[w][id]
  BY <1>1
<1>5. ~events[1].samep => First(1, id) /\ h = None
  BY <1>1, <1>3 DEF Signals, FirstIsFirst, First
<1>6. events[1].samep => ~First(1, id)
  BY DEF First
<1> PICK s : s = <<"frame", id>>
  OBVIOUS
<1>7. /\ \A m \in Name : m = h => gl[w].texture[m] # Free
  <2>1. <<"frame", id>> \in Slot /\ (Alive(w, id) => Owner(w)[<<"frame", id>>] = h)
    BY <1>1, OwnerTypes DEF FrameName
  <2>2. Alive(w, id)
    BY <1>1, <1>3 DEF Signals, FramesAreAlive
  <2> QED
    BY <1>1, <2>1, <2>2 DEF Accounts
<1>8. \A id2 \in Id : frames[id2] # NoFrame => frames[id2].pic \in Picture /\ frames[id2].pic # Free
  <2>1. \A p \in Picture : p # Free
    BY Bounds DEF Picture, Free
  <2> QED
    BY <1>1, <2>1 DEF Frame
<1>9. CASE frames[id] = NoFrame
  <2>1. gl' = gl /\ current' = current /\ tmpHandles' = tmpHandles
    BY <1>3, <1>5, <1>9 DEF change_tmp_texture, After
  <2>2. /\ Signals(w)' /\ open = <<w>> /\ current = w /\ open' = <<w>> /\ UNCHANGED <<textures, frames>>
        /\ s \in Slot /\ Owner(w)[s] = h
        /\ Owner(w)' = [Owner(w) EXCEPT ![s] = h]
        /\ \A i \in DOMAIN textures : /\ s # <<"image", i>>
                                      /\ Pending("changed", w, i - 1) => Pending("changed", w, i - 1)'
        /\ \A k \in Id : /\ s = <<"frame", k>> => k = id
                         /\ k # id => (Pending("tmp", w, k) => Pending("tmp", w, k)')
    BY <1>2, <1>9, <2>1, FrameDelivery
  <2> QED
    BY <1>7, <1>9, <2>1, <2>2, SlotChanges
<1>10. CASE frames[id] # NoFrame /\ ~events[1].samep
  <2>1. PICK n \in Name : /\ Generates(Freed(w, h), n, frames[id].pic)
                          /\ tmpHandles' = [tmpHandles EXCEPT ![w][id] = n]
    BY <1>3, <1>5, <1>10 DEF change_tmp_texture, After, Freed
  <2>2. /\ current' = w /\ n # None /\ (gl[w].texture[n] = Free \/ n = h)
        /\ \A m \in Name : gl'[w].texture[m] = IF m = n THEN frames[id].pic
                                               ELSE IF m = h THEN Free
                                               ELSE gl[w].texture[m]
    BY <1>1, <1>3, <1>8, <1>10, <2>1, Replaced
  <2>3. tmpHandles'[w][id] = n /\ \A k \in Id : k # id => tmpHandles'[w][k] = tmpHandles[w][k]
    BY <1>1, <2>1
  <2>4. /\ Signals(w)' /\ open = <<w>> /\ current = w /\ open' = <<w>> /\ UNCHANGED <<textures, frames>>
        /\ s \in Slot /\ Owner(w)[s] = h
        /\ Owner(w)' = [Owner(w) EXCEPT ![s] = n]
        /\ \A i \in DOMAIN textures : /\ s # <<"image", i>>
                                      /\ Pending("changed", w, i - 1) => Pending("changed", w, i - 1)'
        /\ \A k \in Id : /\ s = <<"frame", k>> => k = id
                         /\ k # id => (Pending("tmp", w, k) => Pending("tmp", w, k)')
    BY <1>2, <1>5, <1>10, <2>2, <2>3, FrameDelivery
  <2> QED
    BY <1>8, <1>10, <2>2, <2>4, SlotChanges
<1>11. CASE frames[id] # NoFrame /\ events[1].samep
  <2>1. h = None => ~Announced(id)
    <3>1. id \in quads
      BY <1>1, <1>11 DEF Signals, FramesHaveQuads
    <3>2. Announced(id) => HasName(w, id, 1)
      BY <1>1, <1>3, <1>11, <3>1 DEF Signals, OthersHaveNames
    <3>3. \A j \in DOMAIN events : ~(j < 1)
      BY <1>1
    <3> QED
      BY <3>2, <3>3 DEF HasName
  <2>2. /\ gl' = [gl EXCEPT ![w] = Uploaded(gl[w], IF h = None THEN 0 ELSE h, frames[id].pic)]
        /\ current' = w /\ tmpHandles' = tmpHandles
    BY <1>3, <1>4, <1>11 DEF change_tmp_texture
  <2>3. \A m \in Name : gl'[w].texture[m] = IF m = h THEN frames[id].pic ELSE gl[w].texture[m]
    <3>1. CASE h # None
      <4>1. h \in Name
        BY <3>1
      <4> QED
        BY <1>1, <2>2, <3>1, <4>1, UploadedTexture
    <3>2. CASE h = None
      <4>1. Uploaded(gl[w], 0, frames[id].pic).texture = gl[w].texture
        BY <1>1 DEF Uploaded, Bound, Filled, Context
      <4> QED
        BY <1>1, <1>4, <2>2, <3>2, <4>1
    <3> QED
      BY <3>1, <3>2
  <2>4. /\ Signals(w)' /\ open = <<w>> /\ current = w /\ open' = <<w>> /\ UNCHANGED <<textures, frames>>
        /\ s \in Slot /\ Owner(w)[s] = h
        /\ Owner(w)' = [Owner(w) EXCEPT ![s] = h]
        /\ \A i \in DOMAIN textures : /\ s # <<"image", i>>
                                      /\ Pending("changed", w, i - 1) => Pending("changed", w, i - 1)'
        /\ \A k \in Id : /\ s = <<"frame", k>> => k = id
                         /\ k # id => (Pending("tmp", w, k) => Pending("tmp", w, k)')
    BY <1>2, <1>6, <1>11, <2>2, FrameDelivery
  <2> QED
    BY <1>8, <1>11, <2>1, <2>2, <2>3, <2>4, SlotChanges
<1> QED
  BY <1>3, <1>9, <1>10, <1>11

\* The frame of a quad that is gone is deleted, after all other word of it.
LEMMA FrameDeleted ==
  ASSUME NEW w \in Renderers, Consistent(w), WellFormed', NEW id \in Id, delete_tmp_texture(w, id)
  PROVE  Consistent(w)'
<1>1. /\ WellFormed /\ TypeOK /\ ClosedOrOpen(w) /\ Signals(w)
      /\ gl \in [Renderers -> Context] /\ gl[w] \in Context
      /\ tmpHandles \in [Renderers -> [Id -> Name \cup {None}]]
  BY DEF Consistent, WellFormed, TypeOK
<1>2. Delivers("delete", w, id) /\ handles' = handles /\ tmpHandles' = tmpHandles
  BY DEF delete_tmp_texture
<1>3. /\ open = <<w>> /\ current = w /\ 1 \in DOMAIN events
      /\ events[1].signal = "delete" /\ events[1].key = id
  BY <1>1, <1>2, ToTheWindow
<1> PICK h, s : h \in Name \cup {None} /\ h = tmpHandles[w][id] /\ s = <<"frame", id>>
  BY <1>1
<1>4. /\ Signals(w)' /\ open = <<w>> /\ current = w /\ open' = <<w>> /\ UNCHANGED <<textures, frames>>
      /\ s \in Slot /\ Owner(w)[s] = h
      /\ Owner(w)' = [Owner(w) EXCEPT ![s] = None]
      /\ \A i \in DOMAIN textures : /\ s # <<"image", i>>
                                    /\ Pending("changed", w, i - 1) => Pending("changed", w, i - 1)'
      /\ \A k \in Id : /\ s = <<"frame", k>> => k = id
                       /\ k # id => (Pending("tmp", w, k) => Pending("tmp", w, k)')
  <2>1. ~First(1, id)
    BY <1>3 DEF First
  <2> QED
    BY <1>2, <2>1, FrameDelivery
<1>5. frames[id] = NoFrame
  BY <1>1, <1>3 DEF Signals, DeletedLast, FramesHaveQuads
<1>6. \A m \in Name : m # None
  BY Bounds DEF Name, None
<1>7. /\ current' = w
      /\ \A m \in Name : gl'[w].texture[m] = IF m = h THEN Free ELSE gl[w].texture[m]
  <2>1. CASE h = None
    BY <1>3, <1>6, <2>1 DEF delete_tmp_texture, After
  <2>2. CASE h # None
    <3>1. gl' = [gl EXCEPT ![w] = Deleted(gl[w], h)] /\ current' = w
      BY <2>2 DEF delete_tmp_texture, After
    <3>2. \A m \in Name : Deleted(gl[w], h).texture[m] = IF m = h THEN Free ELSE gl[w].texture[m]
      BY <1>1 DEF Deleted, Context
    <3> QED
      BY <1>1, <3>1, <3>2
  <2> QED
    BY <2>1, <2>2
<1> QED
  BY <1>4, <1>5, <1>6, <1>7, SlotChanges

\* A window opens with the images and frames there are.
LEMMA OpenConsistent ==
  ASSUME NEW w \in Renderers, Consistent(w), WellFormed', OpenWindow(w)
  PROVE  Consistent(w)'
<1>1. /\ WellFormed /\ TypeOK /\ TypeOK' /\ ClosedOrOpen(w) /\ Signals(w)
      /\ textures \in Seq(Texture) /\ frames \in [Id -> Frame \cup {NoFrame}]
      /\ gl \in [Renderers -> Context] /\ handles \in [Renderers -> Seq(Name \cup {None})]
      /\ tmpHandles \in [Renderers -> [Id -> Name \cup {None}]]
      /\ quads \subseteq 0..nextID - 1 /\ Len(textures) <= MaxTextures
  BY DEF Consistent, WellFormed, TypeOK
<1>2. /\ open = <<>> /\ events = <<>> /\ ring[w] = <<>>
  <2>1. w \notin ToSet(<<w>>) => FALSE
    BY DEF ToSet
  <2> QED
    BY <1>1, <2>1 DEF ClosedOrOpen, OpenWindow
<1>3. /\ textures' = textures /\ frames' = frames /\ quads' = quads /\ nextID' = nextID
      /\ events' = events /\ ring' = ring /\ current' = w /\ open' = <<w>>
  BY <1>2 DEF OpenWindow, poolVars, feedbackVars
<1> PICK h, t : h = init_textures.handles /\ t = init_textures.tmp
  OBVIOUS
<1>4. handles'[w] = h /\ tmpHandles'[w] = t
  BY <1>1 DEF OpenWindow
<1>5. /\ h \in [DOMAIN textures -> Name \cup {None}]
      /\ \A i \in DOMAIN textures : h[i] # None <=> ~textures[i].video
      /\ \A i, j \in DOMAIN textures : h[i] = h[j] /\ h[i] # None => i = j
      /\ t \in [Id -> Name \cup {None}]
      /\ \A id \in Id : t[id] # None <=> frames[id] # NoFrame
      /\ \A a, b \in Id : t[a] = t[b] /\ t[a] # None => a = b
      /\ \A i \in DOMAIN textures, id \in Id : h[i] # None => h[i] # t[id]
  BY <1>1, NewNames DEF OpenWindow, Images, Framed
<1>6. /\ \A m \in Name : m # None
      /\ \A p \in Picture : p # Free
      /\ \A i \in DOMAIN textures : textures[i].pic \in Picture
      /\ \A id \in Id : frames[id] # NoFrame => frames[id].pic \in Picture
  <2>1. \A p \in Picture : p # Free
    BY Bounds DEF Picture, Free
  <2>2. \A i \in DOMAIN textures : textures[i] \in Texture
    BY <1>1
  <2> QED
    BY <1>1, <2>1, <2>2, Bounds DEF Texture, Frame, Name, None
<1> DEFINE Shows(n, p) == \/ \E i \in DOMAIN textures : h[i] = n /\ textures[i].pic = p
                          \/ \E id \in Id : t[id] = n /\ frames[id].pic = p
           used == {n \in Name : \E p \in Picture : Shows(n, p)}
<1>7. gl'[w].texture = [n \in Name |-> IF n \in used THEN CHOOSE p \in Picture : Shows(n, p) ELSE Free]
  BY <1>1 DEF OpenWindow
<1>8. \A n \in Name : n \in used <=> \/ \E i \in DOMAIN textures : h[i] = n
                                     \/ \E id \in Id : t[id] = n
  BY <1>5, <1>6
<1>9. ASSUME NEW n \in Name, NEW p \in Picture, Shows(n, p),
             \A q \in Picture : Shows(n, q) => q = p
      PROVE  gl'[w].texture[n] = p
  <2>1. n \in used
    BY <1>9
  <2> HIDE DEF used
  <2>2. gl'[w].texture[n] = CHOOSE q \in Picture : Shows(n, q)
    BY <1>7, <2>1
  <2> HIDE DEF Shows
  <2>3. (CHOOSE q \in Picture : Shows(n, q)) \in Picture /\ Shows(n, CHOOSE q \in Picture : Shows(n, q))
    BY <1>9
  <2> QED
    BY <1>9, <2>2, <2>3
<1>10. \A n \in Name : gl'[w].texture[n] # Free <=> n \in used
  <2> TAKE n \in Name
  <2>1. CASE n \in used
    <3>1. \E p \in Picture : Shows(n, p)
      BY <2>1
    <3> HIDE DEF Shows
    <3>2. (CHOOSE q \in Picture : Shows(n, q)) \in Picture
      BY <3>1
    <3> HIDE DEF used
    <3> QED
      BY <1>6, <1>7, <2>1, <3>2
  <2>2. CASE n \notin used
    <3> HIDE DEF used
    <3> QED
      BY <1>7, <2>2
  <2> QED
    BY <2>1, <2>2
<1>11. ASSUME NEW i \in DOMAIN textures, ~textures[i].video
       PROVE  gl'[w].texture[h[i]] = textures[i].pic
  <2>1. h[i] \in Name /\ Shows(h[i], textures[i].pic)
    BY <1>5, <1>6, <1>11
  <2>2. ASSUME NEW q \in Picture, Shows(h[i], q) PROVE q = textures[i].pic
    <3>1. h[i] # None
      BY <1>5, <1>11
    <3> QED
      BY <1>5, <2>2, <3>1
  <2> HIDE DEF Shows
  <2> PICK n \in Name, p \in Picture : n = h[i] /\ p = textures[i].pic
    BY <1>6, <2>1
  <2>3. Shows(n, p) /\ \A q \in Picture : Shows(n, q) => q = p
    BY <2>1, <2>2
  <2>4. gl'[w].texture[n] = p
    BY <1>9, <2>3
  <2> QED
    BY <2>4
<1>12. ASSUME NEW id \in Id, frames[id] # NoFrame
       PROVE  gl'[w].texture[t[id]] = frames[id].pic
  <2>1. t[id] \in Name /\ Shows(t[id], frames[id].pic)
    BY <1>5, <1>6, <1>12
  <2>2. ASSUME NEW q \in Picture, Shows(t[id], q) PROVE q = frames[id].pic
    <3>1. t[id] # None
      BY <1>5, <1>12
    <3>2. \A i \in DOMAIN textures : h[i] # t[id]
      BY <1>5, <3>1
    <3> QED
      BY <1>5, <2>2, <3>1, <3>2
  <2> HIDE DEF Shows
  <2> PICK n \in Name, p \in Picture : n = t[id] /\ p = frames[id].pic
    BY <1>6, <1>12, <2>1
  <2>3. Shows(n, p) /\ \A q \in Picture : Shows(n, q) => q = p
    BY <2>1, <2>2
  <2>4. gl'[w].texture[n] = p
    BY <1>9, <2>3
  <2> QED
    BY <2>4
<1> HIDE DEF Shows, used
<1>13. /\ \A i \in 1..MaxTextures : ImageName(w, i)' = IF i \in DOMAIN textures THEN h[i] ELSE None
       /\ \A id \in Id : FrameName(w, id)' = t[id]
       /\ \A k \in 1..MaxFeedback : PastName(w, k)' = None
  <2>1. \A i \in 1..MaxTextures : ImageName(w, i)' = IF i \in DOMAIN textures THEN h[i] ELSE None
    <3>1. Len(textures) \in Nat /\ DOMAIN textures = 1..Len(textures) /\ Len(h) = Len(textures)
      BY <1>1, <1>5
    <3> QED
      BY <1>4, <3>1 DEF ImageName
  <2>2. \A id \in Id : t[id] # None => Alive(w, id)'
    BY <1>1, <1>3, <1>5 DEF Signals, FramesHaveQuads, Alive
  <2>3. \A id \in Id : FrameName(w, id)' = t[id]
    BY <1>4, <2>2 DEF FrameName
  <2>4. \A k \in 1..MaxFeedback : PastName(w, k)' = None
    BY <1>2, <1>3 DEF PastName
  <2> QED
    BY <2>1, <2>3, <2>4
<1>14. /\ \A i \in 1..MaxTextures : <<"image", i>> \in Slot /\ Owner(w)'[<<"image", i>>] = ImageName(w, i)'
       /\ \A id \in Id : <<"frame", id>> \in Slot /\ Owner(w)'[<<"frame", id>>] = FrameName(w, id)'
       /\ \A k \in 1..MaxFeedback : <<"past", k>> \in Slot /\ Owner(w)'[<<"past", k>>] = PastName(w, k)'
       /\ \A s \in Slot : \/ \E i \in 1..MaxTextures : s = <<"image", i>>
                          \/ \E id \in Id : s = <<"frame", id>>
                          \/ \E k \in 1..MaxFeedback : s = <<"past", k>>
  BY <1>1, NewOwner
<1>15. Accounts(Owner(w), gl[w].texture)'
  <2>1. ASSUME NEW n \in Name PROVE gl'[w].texture[n] # Free <=> \E s \in Slot : Owner(w)'[s] = n
    <3>0. \A i \in DOMAIN textures : i \in 1..MaxTextures
      BY <1>1, Bounds
    <3>1. \A i \in DOMAIN textures : h[i] = n => \E s \in Slot : Owner(w)'[s] = n
      BY <1>13, <1>14, <3>0
    <3>2. \A id \in Id : t[id] = n => \E s \in Slot : Owner(w)'[s] = n
      BY <1>13, <1>14
    <3>3. ASSUME NEW s \in Slot, Owner(w)'[s] = n
          PROVE  \/ \E i \in DOMAIN textures : h[i] = n
                 \/ \E id \in Id : t[id] = n
      <4>1. ASSUME NEW i \in 1..MaxTextures, s = <<"image", i>> PROVE i \in DOMAIN textures /\ h[i] = n
        BY <1>6, <1>13, <1>14, <3>3, <4>1
      <4>2. ASSUME NEW id \in Id, s = <<"frame", id>> PROVE t[id] = n
        BY <1>13, <1>14, <3>3, <4>2
      <4>3. ASSUME NEW k \in 1..MaxFeedback, s = <<"past", k>> PROVE FALSE
        BY <1>6, <1>13, <1>14, <3>3, <4>3
      <4> QED
        BY <1>14, <4>1, <4>2, <4>3
    <3> QED
      BY <1>8, <1>10, <3>1, <3>2, <3>3
  <2>2. ASSUME NEW s \in Slot, NEW u \in Slot, Owner(w)'[s] = Owner(w)'[u], Owner(w)'[s] # None PROVE s = u
    <3>1. /\ \A i \in 1..MaxTextures : Owner(w)'[<<"image", i>>] = IF i \in DOMAIN textures THEN h[i] ELSE None
          /\ \A id \in Id : Owner(w)'[<<"frame", id>>] = t[id]
          /\ \A k \in 1..MaxFeedback : Owner(w)'[<<"past", k>>] = None
      BY <1>13, <1>14
    <3>2. /\ \/ \E i \in DOMAIN textures : s = <<"image", i>> /\ Owner(w)'[s] = h[i]
             \/ \E id \in Id : s = <<"frame", id>> /\ Owner(w)'[s] = t[id]
          /\ \/ \E i \in DOMAIN textures : u = <<"image", i>> /\ Owner(w)'[u] = h[i]
             \/ \E id \in Id : u = <<"frame", id>> /\ Owner(w)'[u] = t[id]
      BY <1>14, <2>2, <3>1
    <3> QED
      BY <1>5, <2>2, <3>2
  <2> QED
    BY <2>1, <2>2 DEF Accounts
<1>16. Signals(w)'
  <2>1. NamesHaveFrames(w)'
    <3>1. ASSUME NEW id \in Id, t[id] # None PROVE id < nextID /\ frames[id] # NoFrame
      <4>1. id \in quads /\ frames[id] # NoFrame /\ id \in Int
        BY <1>1, <1>5, <3>1, Bounds DEF Signals, FramesHaveQuads, Id
      <4>2. nextID \in Int
        BY <1>1, Bounds DEF TypeOK
      <4> QED
        BY <1>1, <4>1, <4>2
    <3> QED
      BY <1>3, <1>4, <3>1 DEF NamesHaveFrames
  <2>2. FramesHaveNames(w)'
    BY <1>3, <1>4, <1>5 DEF FramesHaveNames, HasName, Announced
  <2> QED
    BY <1>1, <1>2, <1>3, <2>1, <2>2 DEF Signals, FramesHaveQuads, KeysAreKnown,
       DeletedLast, FramesAreAlive, FirstIsFirst, OthersHaveNames, WordsHaveFrames
<1>17. ClosedOrOpen(w)'
  BY <1>3 DEF ClosedOrOpen
<1>18. ImagesShown(w)'
  <2>1. \A i \in DOMAIN textures : i \in 1..MaxTextures
    BY <1>1, Bounds
  <2> QED
    BY <1>3, <1>5, <1>11, <1>13, <2>1 DEF ImagesShown
<1>19. FramesShown(w)'
  BY <1>3, <1>4, <1>5, <1>12 DEF FramesShown
<1> QED
  BY <1>15, <1>16, <1>17, <1>18, <1>19 DEF Consistent

\* A window closes and leaves nothing.
LEMMA CloseConsistent ==
  ASSUME NEW w \in Renderers, Consistent(w), WellFormed', CloseWindow(w)
  PROVE  Consistent(w)'
<1>1. /\ WellFormed /\ TypeOK /\ TypeOK' /\ ClosedOrOpen(w) /\ Signals(w)
      /\ events \in Seq(Event) /\ \A i \in DOMAIN events : events[i].to \in ToSet(open)
  BY DEF Consistent, WellFormed, TypeOK
<1>2. PICK place \in DOMAIN open : open[place] = w /\ open' = RemoveAt(open, place)
  BY DEF CloseWindow
<1>3. open = <<w>>
  <2>1. DOMAIN <<>> = {}
    OBVIOUS
  <2> QED
    BY <1>1, <1>2, <2>1 DEF ClosedOrOpen
<1>4. open' = <<>>
  <2>1. open \in Seq(Renderers) /\ Len(open) = 1 /\ place \in 1..Len(open)
    BY <1>2, <1>3
  <2>2. RemoveAt(open, place) \in Seq(Renderers) /\ Len(RemoveAt(open, place)) = Len(open) - 1
    BY <2>1, Removed
  <2>3. open' \in Seq(Renderers) /\ Len(open') = 0
    BY <1>2, <2>1, <2>2
  <2> QED
    BY <2>3
<1>5. events' = <<>>
  <2>1. \A i \in DOMAIN events : events[i].to = w
    BY <1>1, <1>3 DEF ToSet
  <2>2. {events[i] : i \in {j \in DOMAIN events : events[j].to # w}} = {}
    BY <2>1
  <2>3. EventsForOthers(w) \in Seq({})
    BY <1>1, <2>2, KeptEvents
  <2>4. events' \in Seq({})
    BY <2>3 DEF CloseWindow
  <2> QED
    BY <2>4
<1>6. /\ textures' = textures /\ frames' = frames /\ quads' = quads /\ nextID' = nextID
      /\ current' = None
  BY DEF CloseWindow, poolVars
<1>7. /\ gl'[w] = NewContext /\ handles'[w] = <<>> /\ tmpHandles'[w] = [id \in Id |-> None]
      /\ ring'[w] = <<>>
  BY <1>1 DEF CloseWindow, TypeOK
<1>8. gl'[w].texture = [m \in Name |-> Free]
  BY <1>7 DEF NewContext
<1>9. <<w>> # <<>>
  OBVIOUS
<1>10. ClosedOrOpen(w)' /\ ImagesShown(w)' /\ FramesShown(w)'
  BY <1>4, <1>5, <1>6, <1>7, <1>8, <1>9 DEF ClosedOrOpen, ImagesShown, FramesShown
<1>11. Signals(w)'
  BY <1>1, <1>4, <1>5, <1>6, <1>7, <1>9 DEF Signals, FramesHaveQuads, NamesHaveFrames, FramesHaveNames,
     KeysAreKnown, DeletedLast, FramesAreAlive, FirstIsFirst, OthersHaveNames, WordsHaveFrames, Announced
<1>12. Accounts(Owner(w), gl[w].texture)'
  BY <1>1, <1>7, <1>8, NewUnowned
<1> QED
  BY <1>10, <1>11, <1>12 DEF Consistent

\* The names in a new ring are unused, and each is there once.
LEMMA RingNames ==
  ASSUME NEW c, NEW new \in NewRings(c)
  PROVE  /\ \A k \in 1..MaxFeedback : new[k] \in Name /\ c.texture[new[k]] = Free
         /\ \A j, k \in 1..MaxFeedback : new[j] = new[k] => j = k
<1>1. /\ new \in [1..MaxFeedback -> Unused(c)]
      /\ \A k \in 1..MaxFeedback : {n \in Unused(c) : n < new[k]} = {new[j] : j \in 1..k - 1}
  BY DEF NewRings
<1>2. \A k \in 1..MaxFeedback : new[k] \in Name /\ new[k] \in Int /\ c.texture[new[k]] = Free
  BY <1>1, Bounds DEF Unused, Name
<1>3. ASSUME NEW j \in 1..MaxFeedback, NEW k \in 1..MaxFeedback, j < k PROVE new[j] < new[k]
  <2>1. j \in 1..k - 1
    BY <1>3, Bounds
  <2>2. new[j] \in {n \in Unused(c) : n < new[k]}
    BY <1>1, <2>1
  <2> QED
    BY <2>2
<1>4. ASSUME NEW j \in 1..MaxFeedback, NEW k \in 1..MaxFeedback, new[j] = new[k] PROVE j = k
  <2>1. j < k \/ k < j \/ j = k
    BY Bounds
  <2> QED
    BY <1>2, <1>3, <1>4, <2>1
<1> QED
  BY <1>2, <1>4

\* A frame of the window draws with textures that are in use, and copies the window
\* to one of the ring.
LEMMA DrawLeaves ==
  ASSUME NEW w \in Renderers, Simple(w), Consistent(w), NEW scene \in Scenes, Draw(w, scene),
         NEW past \in RingFor(w),
         gl' = [gl EXCEPT ![w] =
                  IF \A face \in ToSet(scene) : ~(face.past > 0)
                  THEN Drawn(w, past, StartOf(w, past), scene)
                  ELSE Filled(Drawn(w, past, StartOf(w, past), scene), -drawn'[w])]
  PROVE  \A m \in Name : IF m \in {past[k] : k \in 1..MaxFeedback} THEN gl'[w].texture[m] # Free
                         ELSE gl'[w].texture[m] = gl[w].texture[m]
<1>1. /\ WellFormed /\ TypeOK /\ Accounts(Owner(w), gl[w].texture)
      /\ gl \in [Renderers -> Context] /\ gl[w] \in Context
      /\ handles \in [Renderers -> Seq(Name \cup {None})] /\ Len(handles[w]) <= Len(textures)
      /\ textures \in Seq(Texture) /\ Len(textures) <= MaxTextures
      /\ tmpHandles \in [Renderers -> [Id -> Name \cup {None}]]
      /\ fbcounter[w] \in 0..MaxFeedback - 1 /\ drawn \in [Renderers -> 0..MaxFrames]
      /\ ring \in [Renderers -> Seq(Name)] /\ (ring[w] # <<>> => Len(ring[w]) = MaxFeedback)
  BY DEF Consistent, WellFormed, TypeOK
<1>2. /\ past \in Seq(Name) /\ Len(past) = MaxFeedback /\ StartOf(w, past) \in Context
      /\ \A face \in Face : FaceName(w, past, face) \in Name \cup {None}
  BY <1>1, DrawingTypes
<1>3. \A m \in Name : m # None /\ m # 0 /\ m \in 0..MaxName
  BY Bounds DEF Name, None
<1> PICK start \in Context : start = StartOf(w, past)
  BY <1>2
<1> DEFINE Ring == {past[k] : k \in 1..MaxFeedback}
           X == {c \in Context : c.texture = start.texture}
<1>4. \A m \in Name : IF m \in Ring THEN start.texture[m] # Free
                      ELSE start.texture[m] = gl[w].texture[m]
  <2>1. CASE ring[w] = <<>>
    <3>1. ToSet(past) = Ring
      BY <1>2, Bounds DEF ToSet
    <3>2. start.texture = [n \in Name |-> IF n \in Ring THEN 0 ELSE gl[w].texture[n]]
      BY <2>1, <3>1 DEF StartOf, change_feedback_frames
    <3>3. 0 # Free
      BY Bounds DEF Free
    <3> HIDE DEF Ring
    <3> QED
      BY <3>2, <3>3
  <2>2. CASE ring[w] # <<>>
    <3>1. past = ring[w] /\ start = gl[w]
      BY <2>2 DEF RingFor, StartOf
    <3>2. ASSUME NEW k \in 1..MaxFeedback PROVE gl[w].texture[past[k]] # Free
      <4>1. <<"past", k>> \in Slot /\ Owner(w)[<<"past", k>>] = PastName(w, k)
        BY <1>1, OwnerTypes
      <4>2. PastName(w, k) = past[k] /\ past[k] \in Name
        BY <1>1, <1>2, <2>2, <3>1, Bounds DEF PastName
      <4> QED
        BY <1>1, <4>1, <4>2 DEF Accounts
    <3> QED
      BY <3>1, <3>2
  <2> QED
    BY <2>1, <2>2
<1>5. \A m \in Name : gl[w].texture[m] # Free => start.texture[m] # Free
  <2> HIDE DEF Ring
  <2> QED
    BY <1>4
<1>6. \A p \in Int : past[((MaxFeedback - p + fbcounter[w]) % MaxFeedback) + 1] \in Ring \cap Name
  <2> TAKE p \in Int
  <2>1. ((MaxFeedback - p + fbcounter[w]) % MaxFeedback) + 1 \in 1..MaxFeedback
    BY <1>1, PlaceInRing
  <2> QED
    BY <1>2, <2>1
<1>7. scene \in Seq(Face) /\ \A k \in DOMAIN scene : scene[k] \in Face /\ scene[k] \in ToSet(scene)
  BY BoundsAssumption DEF ToSet
<1>8. ASSUME NEW k \in DOMAIN scene, FaceName(w, past, scene[k]) # None
      PROVE  start.texture[FaceName(w, past, scene[k])] # Free
  <2> PICK face \in Face : face = scene[k]
    BY <1>7
  <2>1. face.tex \in Nat /\ face.frame \in Id /\ face.past \in Int /\ face.past >= 0
    BY Bounds DEF Face
  <2>2. CASE face.past > 0
    <3>1. FaceName(w, past, face) \in Ring \cap Name
      BY <1>6, <2>1, <2>2 DEF FaceName
    <3> HIDE DEF Ring
    <3> QED
      BY <1>4, <3>1
  <2>3. CASE ~(face.past > 0)
    <3>1. Len(handles[w]) \in Nat /\ Len(textures) \in Nat /\ ~(face.tex >= Len(handles[w]))
      BY <1>1, <1>8, <2>3 DEF FaceName
    <3>2. CASE textures[face.tex + 1].video
      <4>1. FaceName(w, past, face) = tmpHandles[w][face.frame]
        BY <2>3, <3>1, <3>2 DEF FaceName
      <4>2. ShowsFrame(face)
        BY <1>1, <2>1, <2>3, <3>1, <3>2 DEF ShowsFrame
      <4>3. face.frame \in quads
        BY <1>7, <4>2 DEF Draw, Requested, Simple
      <4>4. Owner(w)[<<"frame", face.frame>>] = tmpHandles[w][face.frame] /\ <<"frame", face.frame>> \in Slot
        BY <1>1, <2>1, <4>3, OwnerTypes DEF FrameName, Alive
      <4>5. gl[w].texture[tmpHandles[w][face.frame]] # Free /\ tmpHandles[w][face.frame] \in Name
        BY <1>1, <1>8, <2>1, <4>1, <4>4 DEF Accounts
      <4> QED
        BY <1>5, <4>1, <4>5
    <3>3. CASE ~textures[face.tex + 1].video
      <4>1. FaceName(w, past, face) = handles[w][face.tex + 1]
        BY <2>3, <3>1, <3>3 DEF FaceName
      <4>2. face.tex + 1 \in 1..MaxTextures /\ face.tex + 1 <= Len(handles[w])
        BY <1>1, <2>1, <3>1, Bounds
      <4>3. /\ <<"image", face.tex + 1>> \in Slot
            /\ Owner(w)[<<"image", face.tex + 1>>] = handles[w][face.tex + 1]
        BY <1>1, <4>2, OwnerTypes DEF ImageName
      <4>4. handles[w][face.tex + 1] \in Name
        BY <1>2, <1>8, <4>1
      <4>5. gl[w].texture[handles[w][face.tex + 1]] # Free
        BY <1>1, <4>3, <4>4 DEF Accounts
      <4> QED
        BY <1>5, <4>1, <4>4, <4>5
    <3> QED
      BY <3>2, <3>3
  <2> QED
    BY <2>2, <2>3
<1>9. ASSUME NEW c \in X, NEW k \in DOMAIN scene, FaceName(w, past, scene[k]) # None
      PROVE  Bound(c, FaceName(w, past, scene[k])) \in X
  <2> PICK n \in Name : n = FaceName(w, past, scene[k])
    BY <1>2, <1>7, <1>9
  <2>1. c \in Context /\ c.texture = start.texture /\ c.texture[n] # Free
    BY <1>8, <1>9
  <2>2. Bound(c, n) \in Context
    <3>1. 0 \in Content
      BY Bounds DEF Content, Picture
    <3> QED
      BY <1>3, <2>1, <3>1, ContextTypes
  <2>3. Bound(c, n).texture = c.texture
    <3>1. Bound(c, n).texture = [c.texture EXCEPT ![n] = c.texture[n]]
      BY <1>3, <2>1 DEF Bound, Context
    <3> QED
      BY <2>1, <3>1 DEF Context
  <2> QED
    BY <2>1, <2>2, <2>3
<1>10. start \in X
  OBVIOUS
<1> HIDE DEF X
<1>11. /\ Drawn(w, past, start, scene) \in X
       /\ scene # <<>> /\ FaceName(w, past, scene[Len(scene)]) # None =>
            \E c \in X : Drawn(w, past, start, scene) = Bound(c, FaceName(w, past, scene[Len(scene)]))
  BY <1>7, <1>9, <1>10, DrawnIn
<1> PICK end : end = Drawn(w, past, start, scene)
  OBVIOUS
<1>12. end \in Context /\ end.texture = start.texture
  BY <1>11 DEF X
<1>13. CASE \A face \in ToSet(scene) : ~(face.past > 0)
  <2>1. gl'[w].texture = start.texture
    BY <1>1, <1>12, <1>13
  <2> QED
    BY <1>4, <2>1
<1>14. CASE \E face \in ToSet(scene) : face.past > 0
  <2>1. scene # <<>> /\ scene[Len(scene)].past > 0
    BY <1>14 DEF Simple, PastsLast
  <2>2. scene[Len(scene)].past \in Int
    BY <1>7, <2>1, Bounds DEF Face
  <2> PICK n : n = FaceName(w, past, scene[Len(scene)])
    OBVIOUS
  <2>3. n \in Ring \cap Name
    BY <1>6, <2>1, <2>2 DEF FaceName
  <2> HIDE DEF Ring
  <2>4. PICK c \in X : end = Bound(c, n)
    BY <1>3, <1>11, <2>1, <2>3
  <2>5. end.bound = n
    <3>1. c \in Context
      BY DEF X
    <3> QED
      BY <1>3, <2>3, <2>4, <3>1 DEF Bound, Context
  <2>6. gl'[w] = Filled(end, -drawn'[w])
    BY <1>1, <1>14
  <2>7. -drawn'[w] # Free
    <3>1. drawn'[w] = drawn[w] + 1 /\ drawn[w] < MaxFrames
      BY <1>1 DEF Draw
    <3> QED
      BY <1>1, <3>1, Bounds DEF Free
  <2>8. gl'[w].texture = [start.texture EXCEPT ![n] = -drawn'[w]]
    BY <1>3, <1>12, <2>3, <2>5, <2>6 DEF Filled, Context
  <2>9. start.texture \in [Name -> Content]
    BY <1>12 DEF Context, Content
  <2>10. \A m \in Name : IF m \in Ring THEN gl'[w].texture[m] # Free
                         ELSE gl'[w].texture[m] = gl[w].texture[m]
    <3> TAKE m \in Name
    <3>1. gl'[w].texture[m] = IF m = n THEN -drawn'[w] ELSE start.texture[m]
      BY <2>8, <2>9
    <3> QED
      BY <1>4, <2>3, <2>7, <3>1
  <2> QED
    BY <2>10 DEF Ring
<1> QED
  BY <1>13, <1>14

\* A frame keeps the window consistent.
LEMMA DrawConsistent ==
  ASSUME NEW w \in Renderers, Simple(w), Consistent(w), WellFormed', NEW scene \in Scenes, Draw(w, scene)
  PROVE  Consistent(w)'
<1>1. /\ WellFormed /\ TypeOK /\ ClosedOrOpen(w) /\ Signals(w) /\ Accounts(Owner(w), gl[w].texture)
      /\ ring \in [Renderers -> Seq(Name)] /\ (ring[w] # <<>> => Len(ring[w]) = MaxFeedback)
      /\ textures \in Seq(Texture) /\ Len(textures) <= MaxTextures
      /\ tmpHandles \in [Renderers -> [Id -> Name \cup {None}]]
  BY DEF Consistent, WellFormed, TypeOK
<1>2. PICK past \in RingFor(w) :
        /\ ring' = [ring EXCEPT ![w] = past]
        /\ gl' = [gl EXCEPT ![w] =
                    IF \A face \in ToSet(scene) : ~(face.past > 0)
                    THEN Drawn(w, past, StartOf(w, past), scene)
                    ELSE Filled(Drawn(w, past, StartOf(w, past), scene), -drawn'[w])]
  BY DrawEffect
<1>3. /\ textures' = textures /\ frames' = frames /\ quads' = quads /\ nextID' = nextID
      /\ events' = events /\ open' = open /\ handles' = handles /\ tmpHandles' = tmpHandles
      /\ current' = w /\ w \in ToSet(open)
  BY DEF Draw, poolVars
<1>4. open = <<w>> /\ current = w
  <2>1. ToSet(<<>>) = {}
    BY DEF ToSet
  <2> QED
    BY <1>1, <1>3, <2>1 DEF ClosedOrOpen
<1>5. ClosedOrOpen(w)'
  BY <1>3, <1>4 DEF ClosedOrOpen
<1>6. Signals(w)'
  BY <1>1, <1>3 DEF Signals, FramesHaveQuads, NamesHaveFrames, FramesHaveNames, KeysAreKnown, First, About,
     DeletedLast, FramesAreAlive, FirstIsFirst, OthersHaveNames, WordsHaveFrames, Announced,
     HasName, Alive, Ends, Pending
<1>7. /\ \A i : ImageName(w, i)' = ImageName(w, i)
      /\ \A id : FrameName(w, id)' = FrameName(w, id)
      /\ \A k \in 1..MaxFeedback : PastName(w, k)' = past[k] /\ past[k] \in Name
      /\ \A signal, key : Pending(signal, w, key)' <=> Pending(signal, w, key)
  <2>1. past \in Seq(Name) /\ Len(past) = MaxFeedback
    BY <1>1, DrawingTypes
  <2>2. ring'[w] = past
    BY <1>1, <1>2
  <2>3. \A k \in 1..MaxFeedback : PastName(w, k)' = past[k] /\ past[k] \in Name
    BY <2>1, <2>2, Bounds DEF PastName
  <2> QED
    BY <1>3, <2>3 DEF ImageName, FrameName, Alive, Ends, Pending
<1> PICK own, new : own = Owner(w) /\ new = Owner(w)'
  OBVIOUS
<1>8. /\ own \in [Slot -> Name \cup {None}]
      /\ \A i \in 1..MaxTextures : <<"image", i>> \in Slot /\ own[<<"image", i>>] = ImageName(w, i)
      /\ \A id \in Id : <<"frame", id>> \in Slot /\ own[<<"frame", id>>] = FrameName(w, id)
      /\ \A k \in 1..MaxFeedback : <<"past", k>> \in Slot /\ own[<<"past", k>>] = PastName(w, k)
      /\ \A s \in Slot : \/ \E i \in 1..MaxTextures : s = <<"image", i>>
                         \/ \E id \in Id : s = <<"frame", id>>
                         \/ \E k \in 1..MaxFeedback : s = <<"past", k>>
  BY <1>1, OwnerTypes
<1>9. /\ \A i \in 1..MaxTextures : new[<<"image", i>>] = ImageName(w, i)'
      /\ \A id \in Id : new[<<"frame", id>>] = FrameName(w, id)'
      /\ \A k \in 1..MaxFeedback : new[<<"past", k>>] = PastName(w, k)'
  BY NewOwner
<1> DEFINE Ring == {past[k] : k \in 1..MaxFeedback}
           Pasts == {<<"past", k>> : k \in 1..MaxFeedback}
<1>10. \A m \in Name : IF m \in Ring THEN gl'[w].texture[m] # Free
                       ELSE gl'[w].texture[m] = gl[w].texture[m]
  BY <1>2, DrawLeaves
<1>11. /\ Pasts \subseteq Slot
       /\ \A s \in Slot : s \notin Pasts => new[s] = own[s]
       /\ \A s \in Pasts : new[s] \in Ring
       /\ \A m \in Ring : \E s \in Pasts : new[s] = m
  <2>1. \A k \in 1..MaxFeedback : new[<<"past", k>>] = past[k]
    BY <1>7, <1>9
  <2>2. Pasts \subseteq Slot
    BY <1>8
  <2>3. ASSUME NEW s \in Slot, s \notin Pasts PROVE new[s] = own[s]
    <3>1. ASSUME NEW i \in 1..MaxTextures, s = <<"image", i>> PROVE new[s] = own[s]
      BY <1>7, <1>8, <1>9, <3>1
    <3>2. ASSUME NEW id \in Id, s = <<"frame", id>> PROVE new[s] = own[s]
      BY <1>7, <1>8, <1>9, <3>2
    <3> QED
      BY <1>8, <2>3, <3>1, <3>2
  <2>4. (\A s \in Pasts : new[s] \in Ring) /\ \A m \in Ring : \E s \in Pasts : new[s] = m
    BY <2>1
  <2> QED
    BY <2>2, <2>3, <2>4
<1>12. /\ \A s, t \in Pasts : new[s] = new[t] => s = t
       /\ \A s \in Slot : s \notin Pasts /\ own[s] # None => own[s] \notin Ring
       /\ \A s \in Pasts : own[s] # None => own[s] \in Ring
  <2>1. CASE ring[w] = <<>>
    <3>1. /\ \A k \in 1..MaxFeedback : gl[w].texture[past[k]] = Free
          /\ \A j, k \in 1..MaxFeedback : past[j] = past[k] => j = k
      BY <1>2, <2>1, RingNames DEF RingFor
    <3>2. \A s, t \in Pasts : new[s] = new[t] => s = t
      BY <1>7, <1>9, <3>1
    <3>3. \A m \in Ring : m \in Name /\ gl[w].texture[m] = Free
      BY <1>7, <3>1
    <3>4. \A s \in Slot : own[s] # None => own[s] \in Name /\ gl[w].texture[own[s]] # Free
      BY <1>1, <1>8 DEF Accounts
    <3>5. \A s \in Pasts : own[s] = None
      BY <1>8, <2>1, Bounds DEF PastName
    <3> QED
      BY <3>2, <3>3, <3>4, <3>5
  <2>2. CASE ring[w] # <<>>
    <3>1. past = ring[w] /\ \A k \in 1..MaxFeedback : PastName(w, k) = past[k]
      BY <1>1, <1>2, <2>2, Bounds DEF RingFor, PastName
    <3>2. \A s \in Slot : new[s] = own[s]
      BY <1>7, <1>8, <1>9, <3>1
    <3>3. \A s, t \in Slot : own[s] = own[t] /\ own[s] # None => s = t
      BY <1>1 DEF Accounts
    <3>4. \A m \in Ring : m \in Name /\ m # None
      BY <1>7, Bounds DEF Name, None
    <3> HIDE DEF Ring, Pasts
    <3>5. \A s, t \in Pasts : new[s] = new[t] => s = t
      BY <1>11, <3>2, <3>3, <3>4
    <3>6. ASSUME NEW s \in Slot, s \notin Pasts, own[s] # None, own[s] \in Ring PROVE FALSE
      <4>1. PICK t \in Pasts : new[t] = own[s]
        BY <1>11, <3>6
      <4>2. t \in Slot /\ own[t] = own[s]
        BY <1>11, <3>2, <4>1
      <4>3. s = t
        BY <3>3, <3>6, <4>2
      <4> QED
        BY <3>6, <4>3
    <3> QED
      BY <1>11, <3>2, <3>5, <3>6
  <2> QED
    BY <2>1, <2>2
<1>13. \A m \in Ring : m \in Name /\ m # None
  BY <1>7, Bounds DEF Name, None
<1> HIDE DEF Ring, Pasts
<1>14. ASSUME NEW m \in Name PROVE gl'[w].texture[m] # Free <=> \E s \in Slot : new[s] = m
  <2>1. CASE m \in Ring
    BY <1>10, <1>11, <2>1
  <2>2. CASE m \notin Ring
    <3>1. gl'[w].texture[m] # Free <=> \E s \in Slot : own[s] = m
      BY <1>1, <1>10, <2>2 DEF Accounts
    <3>2. ASSUME NEW s \in Slot, own[s] = m PROVE new[s] = m
      <4>1. m # None
        BY Bounds DEF Name, None
      <4> QED
        BY <1>11, <1>12, <2>2, <3>2, <4>1
    <3>3. ASSUME NEW s \in Slot, new[s] = m PROVE own[s] = m
      BY <1>11, <2>2, <3>3
    <3> QED
      BY <3>1, <3>2, <3>3
  <2> QED
    BY <2>1, <2>2
<1>15. ASSUME NEW s \in Slot, NEW t \in Slot, new[s] = new[t], new[s] # None PROVE s = t
  <2>1. CASE s \in Pasts /\ t \in Pasts
    BY <1>12, <1>15, <2>1
  <2>2. CASE s \notin Pasts /\ t \notin Pasts
    BY <1>1, <1>11, <1>15, <2>2 DEF Accounts
  <2>3. CASE s \in Pasts /\ t \notin Pasts
    BY <1>11, <1>12, <1>15, <2>3
  <2>4. CASE s \notin Pasts /\ t \in Pasts
    BY <1>11, <1>12, <1>15, <2>4
  <2> QED
    BY <2>1, <2>2, <2>3, <2>4
<1>16. Accounts(Owner(w), gl[w].texture)'
  <2>1. Accounts(new, gl'[w].texture)
    BY <1>14, <1>15 DEF Accounts
  <2> QED
    BY <2>1 DEF Accounts
<1>17. ASSUME NEW s \in Slot, s \notin Pasts, own[s] # None
       PROVE  gl'[w].texture[own[s]] = gl[w].texture[own[s]]
  BY <1>8, <1>10, <1>12, <1>17
<1>18. /\ \A i \in 1..MaxTextures : <<"image", i>> \notin Pasts
       /\ \A id \in Id : <<"frame", id>> \notin Pasts
  BY DEF Pasts
<1>19. ImagesShown(w)'
  <2> SUFFICES ASSUME NEW i \in DOMAIN textures
               PROVE  IF textures[i].video THEN ImageName(w, i)' = None
                      ELSE ~Pending("changed", w, i - 1)' =>
                             ImageName(w, i)' # None /\ gl'[w].texture[ImageName(w, i)'] = textures[i].pic
    BY <1>3 DEF ImagesShown
  <2>1. i \in 1..MaxTextures
    BY <1>1, Bounds
  <2>2. ImageName(w, i) # None => gl'[w].texture[ImageName(w, i)] = gl[w].texture[ImageName(w, i)]
    <3> PICK s \in Slot : s = <<"image", i>>
      BY <1>8, <2>1
    <3>1. own[s] = ImageName(w, i) /\ s \notin Pasts
      BY <1>8, <1>18, <2>1
    <3> QED
      BY <1>17, <3>1
  <2> QED
    BY <1>4, <1>7, <2>2 DEF Consistent, ImagesShown
<1>20. FramesShown(w)'
  <2> SUFFICES ASSUME NEW id \in Id, frames[id] # NoFrame, ~Pending("tmp", w, id)'
               PROVE  IF tmpHandles[w][id] = None THEN ~Announced(id)
                      ELSE gl'[w].texture[tmpHandles[w][id]] = frames[id].pic
    BY <1>3 DEF FramesShown, Announced
  <2>1. FrameName(w, id) = tmpHandles[w][id]
    BY <1>1 DEF Signals, FramesHaveQuads, FrameName, Alive
  <2>2. tmpHandles[w][id] # None => gl'[w].texture[tmpHandles[w][id]] = gl[w].texture[tmpHandles[w][id]]
    <3> PICK s \in Slot : s = <<"frame", id>>
      BY <1>8
    <3>1. own[s] = tmpHandles[w][id] /\ s \notin Pasts
      BY <1>8, <1>18, <2>1
    <3> QED
      BY <1>17, <3>1
  <2> QED
    BY <1>4, <1>7, <2>2 DEF Consistent, FramesShown
<1> QED
  BY <1>5, <1>6, <1>16, <1>19, <1>20 DEF Consistent

\* The window that is open is the one there is.
LEMMA OpenIsOne ==
  ASSUME NEW w, Consistent(w), NEW r \in ToSet(open)
  PROVE  open = <<w>> /\ r = w
<1>1. ToSet(<<>>) = {} /\ ToSet(<<w>>) = {w}
  BY DEF ToSet
<1> QED
  BY <1>1 DEF Consistent, ClosedOrOpen

\* The window stays consistent with the pool.
LEMMA StaysConsistent ==
  ASSUME NEW w, Simple(w)
  PROVE  Spec => []Consistent(w)
<1>1. Init => Consistent(w)
  BY InitConsistent
<1>2. Consistent(w) /\ [Next]_vars => Consistent(w)'
  <2> SUFFICES ASSUME Consistent(w), [Next]_vars PROVE Consistent(w)'
    OBVIOUS
  <2>1. CASE Pool
    BY <2>1, PoolConsistent
  <2>2. ASSUME NEW r \in Renderers, Window(r) PROVE Consistent(w)'
    <3>1. r = w /\ w \in Renderers
      BY DEF Simple
    <3>2. WellFormed'
      BY <2>2, OpenTypes, CloseTypes, DeliveryTypes, DrawTypes DEF Window, Consistent
    <3> QED
      BY <2>2, <3>1, <3>2, OpenConsistent, CloseConsistent, ImageDelivered, FrameDelivered,
         FrameDeleted, DrawConsistent DEF Window
  <2>3. CASE UNCHANGED vars
    <3>1. WellFormed'
      BY <2>3 DEF vars, poolVars, windowVars, feedbackVars, Consistent, WellFormed, TypeOK
    <3>2. /\ textures' = textures /\ frames' = frames /\ nextID' = nextID /\ quads' = quads
          /\ events' = events /\ open' = open /\ current' = current /\ gl' = gl /\ handles' = handles
          /\ tmpHandles' = tmpHandles /\ ring' = ring
      BY <2>3 DEF vars, poolVars, windowVars, feedbackVars
    <3>3. ClosedOrOpen(w)' /\ ImagesShown(w)' /\ FramesShown(w)'
      BY <3>2 DEF Consistent, ClosedOrOpen, ImagesShown, FramesShown, Announced, Pending, ImageName
    <3>4. Signals(w)'
      BY <3>2 DEF Consistent, Signals, FramesHaveQuads, NamesHaveFrames, FramesHaveNames, KeysAreKnown,
         First, About, DeletedLast, FramesAreAlive, FirstIsFirst, OthersHaveNames, WordsHaveFrames,
         Announced, HasName, Alive, Ends, Pending
    <3>5. Owner(w)' = Owner(w)
      <4>1. /\ \A i \in 1..MaxTextures : ImageName(w, i)' = ImageName(w, i)
            /\ \A id \in Id : FrameName(w, id)' = FrameName(w, id)
            /\ \A k \in 1..MaxFeedback : PastName(w, k)' = PastName(w, k)
        BY <3>2 DEF ImageName, FrameName, PastName, Alive, Ends, Pending
      <4> QED
        BY <4>1, SameOwner
    <3> QED
      BY <3>1, <3>2, <3>3, <3>4, <3>5 DEF Consistent, Accounts
  <2> QED
    BY <2>1, <2>2, <2>3 DEF Next
<1> QED
  BY <1>1, <1>2, PTL DEF Spec

\* With one window, and nothing that goes wrong, the window shows the images of the
\* pool once it has been told of them: the texture of an image is not drawn over,
\* not deleted, not taken for another.
THEOREM WindowShowsPoolHolds ==
  ASSUME NEW w, Simple(w)
  PROVE  Spec => []WindowShowsPool
<1>1. Consistent(w) => WindowShowsPool
  <2> SUFFICES ASSUME Consistent(w), NEW r \in ToSet(open), NEW index \in Index,
                      ~textures[index + 1].video, ~Pending("changed", r, index)
               PROVE  /\ index < Len(handles[r]) /\ handles[r][index + 1] # None
                      /\ gl[r].texture[handles[r][index + 1]] = textures[index + 1].pic
    BY DEF WindowShowsPool
  <2>1. open = <<w>> /\ r = w
    BY OpenIsOne
  <2>2. /\ index + 1 \in DOMAIN textures /\ index \in Nat /\ index + 1 - 1 = index
        /\ Len(handles[w]) \in Nat
    <3>1. textures \in Seq(Texture) /\ handles[w] \in Seq(Name \cup {None})
      BY <2>1 DEF Consistent, WellFormed, TypeOK, Simple
    <3> QED
      BY <3>1 DEF Index
  <2>3. /\ ImageName(w, index + 1) # None
        /\ gl[w].texture[ImageName(w, index + 1)] = textures[index + 1].pic
    BY <2>1, <2>2 DEF Consistent, ImagesShown
  <2> QED
    BY <2>1, <2>2, <2>3 DEF ImageName
<1> QED
  BY <1>1, StaysConsistent, PTL

\* The same of the frames of the quads' videos, but for one whose texture was made
\* without a word, as its first decoding came to nothing.
THEOREM WindowShowsFramesHolds ==
  ASSUME NEW w, Simple(w)
  PROVE  Spec => []WindowShowsFrames
<1>1. Consistent(w) => WindowShowsFrames
  <2> SUFFICES ASSUME Consistent(w), NEW r \in ToSet(open) PROVE open = <<w>> /\ r = w /\ FramesShown(w)
    BY DEF WindowShowsFrames, FramesShown, Announced
  <2> QED
    BY OpenIsOne DEF Consistent
<1> QED
  BY <1>1, StaysConsistent, PTL

\* No texture of the window is lost: each is an image's, a past frame's, or that of
\* a quad that is there or whose end is still to be told.
THEOREM NoTextureLeaksHolds ==
  ASSUME NEW w, Simple(w)
  PROVE  Spec => []NoTextureLeaks
<1>1. Consistent(w) => NoTextureLeaks
  <2> SUFFICES ASSUME Consistent(w), NEW r \in ToSet(open), NEW n \in Name, gl[r].texture[n] # Free
               PROVE  \/ n \in ToSet(handles[r]) \cup ToSet(ring[r])
                      \/ \E id \in Id : tmpHandles[r][id] = n /\ (id \in quads \/ Pending("delete", r, id))
    BY DEF NoTextureLeaks, Unused
  <2>1. open = <<w>> /\ r = w /\ w \in Renderers /\ TypeOK
    BY OpenIsOne DEF Consistent, WellFormed, Simple
  <2>2. PICK s \in Slot : Owner(w)[s] = n
    BY <2>1 DEF Consistent, Accounts
  <2>3. n # None
    BY Bounds DEF Name, None
  <2>4. handles[w] \in Seq(Name \cup {None}) /\ ring[w] \in Seq(Name)
    BY <2>1 DEF TypeOK
  <2>5. ASSUME NEW i \in 1..MaxTextures, s = <<"image", i>> PROVE n \in ToSet(handles[w])
    <3>1. ImageName(w, i) = n
      BY <2>1, <2>2, <2>5, OwnerTypes
    <3> QED
      BY <2>3, <2>4, <3>1 DEF ImageName, ToSet
  <2>6. ASSUME NEW id \in Id, s = <<"frame", id>> PROVE tmpHandles[w][id] = n /\ Alive(w, id)
    <3>1. FrameName(w, id) = n
      BY <2>1, <2>2, <2>6, OwnerTypes
    <3> QED
      BY <2>3, <3>1 DEF FrameName
  <2>7. ASSUME NEW k \in 1..MaxFeedback, s = <<"past", k>> PROVE n \in ToSet(ring[w])
    <3>1. PastName(w, k) = n
      BY <2>1, <2>2, <2>7, OwnerTypes
    <3> QED
      BY <2>3, <2>4, <3>1 DEF PastName, ToSet
  <2> QED
    BY <2>1, <2>5, <2>6, <2>7, OwnerTypes DEF Alive, Ends
<1> QED
  BY <1>1, StaysConsistent, PTL
=============================================================================

------------------------------ MODULE Pictures ------------------------------
(***************************************************************************)
(* The graphics cycle: the units of graphics rate of the synths in the     *)
(* tree, the graphics bus, its past, and what a window draws.              *)
(*                                                                         *)
(* Graphics are cow_ptrs to cells that units, busses and other cells       *)
(* share: assigning copies the pointer, touch() copies the cell if it is   *)
(* held elsewhere, and the copy shares the faces and transformations of    *)
(* the original, which are cow_ptrs themselves.  Module PictureValues says *)
(* what this is to amount to.                                              *)
(***************************************************************************)
EXTENDS Integers, Sequences, FiniteSets, SequencesExt, Drawing

CONSTANTS
  Programs,     (* synth -> its units of graphics rate, [kind, ins]: ins   *)
                (* are the units whose output it reads                     *)
  Value,        (* what a control input may be                             *)
  Unset,        (* what a new command holds: nobody initialises it         *)
  Settings,     (* Controls of the renderers                               *)
  MaxCycles,    (* bound: graphics cycles                                  *)
  MaxMade       (* bound: synths made                                      *)

ASSUME SettingsAssumption == Settings \subseteq Controls
ASSUME ValueAssumption == 0 \in Value /\ Value \subseteq Int /\ Unset \in Modes \cup {4}

ASSUME BoundsAssumption == MaxCycles \in Nat

\* The inputs that a unit of a kind reads at least.
Arity(kind) == IF kind = "mix" THEN 2
               ELSE IF kind \in {"translate", "color", "fade", "Out", "ReplaceOut", "XOut", "renderer"}
                    THEN 1 ELSE 0

\* Units read units before them; a synth without graphics units has no part here.
ASSUME ProgramAssumption ==
  \A s \in DOMAIN Programs :
    /\ Programs[s] \in Seq([kind: STRING, ins: Seq(Nat)]) \ {<<>>}
    /\ \A i \in DOMAIN Programs[s] :
         /\ Programs[s][i].ins \in Seq(1..i - 1)
         /\ Len(Programs[s][i].ins) >= Arity(Programs[s][i].kind)

VARIABLES
  memory,   (* the cells, and the cow_ptrs of units and busses to them     *)
  order,    (* the synths in the order of the walk; one in a group that    *)
            (* hangs nowhere (NodeTree) draws nothing and has no part here *)
  level,    (* the control bus that the units have for input               *)
  frame,    (* the unit that comes next: position in order, unit           *)
  cycles,   (* graphics cycles so far                                      *)
  gl,       (* the state of each renderer's OpenGL context                 *)
  made,     (* synths made so far                                          *)
  drawn     (* what the renderer that ran last in this cycle drew, and how *)

vars == <<memory, order, level, frame, cycles, gl, made, drawn>>

-----------------------------------------------------------------------------
(* Cells.  memory.at leads from each place, the own object of a unit, its  *)
(* transformation command, its output or a bus, to the cells it holds.     *)

Synth == DOMAIN Programs

Unit == UNION {{s} \X DOMAIN Programs[s] : s \in Synth}

KindOf(x) == Programs[x[1]][x[2]].kind

Own(x)  == <<"own", x>>
Cmd(x)  == <<"cmd", x>>
Outs(x) == <<"outs", x>>
Bus     == <<"bus">>
Past    == <<"past">>

GraphicsPlace == {Own(x) : x \in Unit} \cup {Outs(x) : x \in Unit} \cup {Bus, Past}

Place == GraphicsPlace \cup {Cmd(x) : x \in Unit}

PlacesOf(s) ==
  LET units == {x \in Unit : x[1] = s}
  IN {Own(x) : x \in units} \cup {Cmd(x) : x \in units} \cup {Outs(x) : x \in units}

Elements(seq) == {seq[i] : i \in DOMAIN seq}

\* A cell of the first kind that does not exist yet.
New(cells) == CHOOSE r \in 1..Cardinality(DOMAIN cells) + 1 : r \notin DOMAIN cells

Keep(cells, refs) == [r \in refs |-> cells[r]]

\* A cell is written, or made.
With(cells, r, cell) ==
  [q \in (DOMAIN cells) \cup {r} |-> IF q = r THEN cell ELSE cells[q]]

\* shared_ptr deletes what nobody holds.
Held(m) ==
  LET g == UNION {Elements(m.at[p]) : p \in GraphicsPlace}
      f == {m.graphics[r].face : r \in g} \ {0}
      c == (UNION {Elements(m.graphics[r].commands) : r \in g})
             \cup (UNION {Elements(m.at[Cmd(x)]) : x \in Unit})
  IN [m EXCEPT !.graphics = Keep(@, g), !.faces = Keep(@, f), !.commands = Keep(@, c)]

Clear(m, p) == Held([m EXCEPT !.at[p] = <<>>])

Push(m, p, refs) == [m EXCEPT !.at[p] = @ \o refs]

\* shared_ptr::unique: no other position of any place holds the same cell.
GraphicsUnique(m, p, i) ==
  \A q \in GraphicsPlace : \A j \in DOMAIN m.at[q] :
    m.at[q][j] = m.at[p][i] => <<q, j>> = <<p, i>>

FaceUnique(m, r) == \A g \in DOMAIN m.graphics : m.graphics[g].face = m.graphics[r].face => g = r

CommandUnique(m, x) ==
  /\ \A g \in DOMAIN m.graphics : m.at[Cmd(x)][1] \notin Elements(m.graphics[g].commands)
  /\ \A y \in Unit \ {x} : m.at[Cmd(y)] # m.at[Cmd(x)]

\* cow_ptr<Graphics>::touch.  The copy has the same faces and commands.
Touch(m, p, i) ==
  IF GraphicsUnique(m, p, i) THEN m
  ELSE LET n == New(m.graphics)
       IN [m EXCEPT !.graphics = With(@, n, m.graphics[m.at[p][i]]), !.at[p][i] = n]

\* Mutant: the face of a graphics cell is written where it is.
WriteFaceInPlace(m, r, face) == [m EXCEPT !.faces[m.graphics[r].face] = face]

\* cow_ptr<Face>::touch and a write, for a graphics cell that is touched already.
WriteFace(m, r, face) ==
  LET f == IF FaceUnique(m, r) THEN m.graphics[r].face ELSE New(m.faces)
  IN [m EXCEPT !.faces = With(@, f, face), !.graphics[r].face = f]

\* The same for the command of a unit.
WriteCommand(m, x, v) ==
  LET c == IF CommandUnique(m, x) THEN m.at[Cmd(x)][1] ELSE New(m.commands)
  IN [m EXCEPT !.commands = With(@, c, v), !.at[Cmd(x)] = <<c>>]

FaceOf(m, r) == m.faces[m.graphics[r].face]

IsShape(m, r) == m.graphics[r].kind \in Shapes

-----------------------------------------------------------------------------
(* Units                                                                   *)

Scale(m, r, v) ==
  IF IsShape(m, r) THEN WriteFace(m, r, [FaceOf(m, r) EXCEPT !.color = @ * v]) ELSE m

Colour(m, r, v) ==
  IF IsShape(m, r) THEN WriteFace(m, r, [FaceOf(m, r) EXCEPT !.color = v]) ELSE m

\* visitTransformation: the unit's own command, touched, is shared.
Transform(m, x, r, v) ==
  IF IsShape(m, r)
  THEN LET written == WriteCommand(m, x, v)
       IN [written EXCEPT !.graphics[r].commands = Append(@, written.at[Cmd(x)][1])]
  ELSE m

\* What a unit does to a cell that is touched.
Alter(m, r, edit) ==
  CASE edit.op = "fade"  -> Scale(m, r, edit.by)
    [] edit.op = "color" -> Colour(m, r, edit.by)
    [] OTHER             -> Transform(m, edit.unit, r, edit.by)

\* The n entries of place p behind the first ones are touched and altered, one
\* after the other.
AlterEach(m, p, first, n, edit) ==
  LET after[i \in 0..n] ==
        IF i = 0 THEN m
        ELSE LET touched == Touch(after[i - 1], p, first + i)
             IN Alter(touched, touched.at[p][first + i], edit)
  IN after[n]

\* Makers write to their own object and put it out.
Make(m, x, v) ==
  LET touched == Touch(Clear(m, Outs(x)), Own(x), 1)
      r == touched.at[Own(x)][1]
      n == New(touched.commands)
      written ==
        CASE KindOf(x) = "cube" ->
               [touched EXCEPT !.commands = With(@, n, v), !.graphics[r].commands = <<n>>]
          [] KindOf(x) \in {"quad", "line"} ->
               WriteFace(touched, r, [FaceOf(touched, r) EXCEPT !.vertices = v])
          [] OTHER -> [touched EXCEPT !.graphics[r].on = Switched(KindOf(x), @, v)]
  IN Push(written, Outs(x), <<r>>)

\* Filters alter copies of the input.
Filter(m, x, input, v) ==
  LET pushed == Push(Clear(m, Outs(x)), Outs(x), input)
  IN AlterEach(pushed, Outs(x), 0, Len(input), [op |-> KindOf(x), unit |-> x, by |-> v])

\* XOut: what is on the bus is touched where it is, what is added where it is put.
CrossFade(m, x, input, v) ==
  LET edit(by) == [op |-> "fade", unit |-> x, by |-> by]
      size == Len(m.at[Bus])
      rest == AlterEach(m, Bus, 0, size, edit(1 - v))
  IN AlterEach(Push(rest, Bus, input), Bus, size, Len(input), edit(v))

\* process_g of unit x with its control input at v.
Process(m, x, v) ==
  LET ins == Programs[x[1]][x[2]].ins
      input(k) == m.at[Outs(<<x[1], ins[k]>>)]
      kind == KindOf(x)
      copied(refs) == Push(Clear(m, Outs(x)), Outs(x), refs)
  IN CASE kind \in Shapes \cup Commands -> Make(m, x, v)
       [] kind \in {"translate", "color", "fade"} -> Filter(m, x, input(1), v)
       [] kind = "mix"        -> copied(input(1) \o input(2))
       [] kind = "In"         -> copied(m.at[Bus])
       [] kind = "InFeedback" -> copied(m.at[Past])
       [] kind = "Out"        -> Push(m, Bus, input(1))
       [] kind = "ReplaceOut" -> Push(Clear(m, Bus), Bus, input(1))
       [] kind = "XOut"       -> CrossFade(m, x, input(1), v)
       [] OTHER               -> m

-----------------------------------------------------------------------------
(* What the cells stand for                                                *)

Between == <<0, 0>>

NoFace == [vertices |-> 0, color |-> 0]

Picture(m, r) ==
  LET g == m.graphics[r]
  IN [kind |-> g.kind, on |-> g.on,
      commands |-> [i \in DOMAIN g.commands |-> m.commands[g.commands[i]]],
      face |-> IF g.face = 0 THEN NoFace ELSE m.faces[g.face]]

PicturesAt(m, p) == [i \in DOMAIN m.at[p] |-> Picture(m, m.at[p][i])]

OwnPicture(m, x) ==
  IF m.at[Own(x)] = <<>>
  THEN [kind |-> "none", on |-> 0, commands |-> <<>>, face |-> NoFace]
  ELSE Picture(m, m.at[Own(x)][1])

Input(x) == PicturesAt(memory, Outs(<<x[1], Programs[x[1]][x[2]].ins[1]>>))

-----------------------------------------------------------------------------
(* The graphics cycle                                                      *)

Here == <<order[frame[1]], frame[2]>>

NextUnit ==
  IF frame[2] < Len(Programs[order[frame[1]]]) THEN <<frame[1], frame[2] + 1>>
  ELSE IF frame[1] < Len(order) THEN <<frame[1] + 1, 1>> ELSE Between

\* The past busses are cleared and swapped with the busses.
G_Begin ==
  /\ frame = Between /\ order # <<>> /\ cycles < MaxCycles
  /\ memory' = Held([memory EXCEPT !.at = [@ EXCEPT ![Past] = memory.at[Bus], ![Bus] = <<>>]])
  /\ frame' = <<1, 1>>
  /\ cycles' = cycles + 1
  /\ drawn' = <<>>
  /\ UNCHANGED <<order, level, gl, made>>

G_Unit ==
  /\ frame # Between /\ KindOf(Here) # "renderer"
  /\ memory' = Held(Process(memory, Here, level))
  /\ frame' = NextUnit
  /\ UNCHANGED <<order, level, cycles, gl, made, drawn>>

\* GLRenderer::process_g.
G_Draw ==
  /\ frame # Between /\ KindOf(Here) = "renderer"
  /\ \E controls \in Settings :
       /\ drawn' = Drawn(gl[Here[1]], controls, Input(Here))
       /\ gl' = [gl EXCEPT ![Here[1]] = FrameEnd(@, controls, Input(Here))]
  /\ frame' = NextUnit
  /\ UNCHANGED <<memory, order, level, cycles, made>>

-----------------------------------------------------------------------------
(* Synths come and go under the write lock, between the cycles.            *)

\* The unit's constructor.
Constructed(m, x) ==
  LET r == New(m.graphics)
      f == New(m.faces)
      c == New(m.commands)
      kind == KindOf(x)
      cell == [kind |-> kind, on |-> 0, commands |-> <<>>, face |-> 0]
  IN CASE kind \in Shapes ->
            [m EXCEPT !.graphics = With(@, r, [cell EXCEPT !.face = f]),
                      !.faces = With(@, f, [vertices |-> 0, color |-> 1]),
                      !.at[Own(x)] = <<r>>]
       [] kind \in Commands ->
            [m EXCEPT !.graphics = With(@, r, [cell EXCEPT !.on = Unset]), !.at[Own(x)] = <<r>>]
       [] kind = "translate" ->
            [m EXCEPT !.commands = With(@, c, 0), !.at[Cmd(x)] = <<c>>]
       [] OTHER -> m

s_new ==
  /\ frame = Between /\ made < MaxMade
  /\ made' = made + 1
  /\ \E s \in Synth \ Elements(order) :
       LET after[i \in 0..Len(Programs[s])] ==
             IF i = 0 THEN memory ELSE Constructed(after[i - 1], <<s, i>>)
       IN /\ memory' = after[Len(Programs[s])]
          /\ order' \in {<<s>> \o order, Append(order, s)}
          /\ gl' = [gl EXCEPT ![s] = NewGL]
  /\ UNCHANGED <<level, frame, cycles, drawn>>

\* Mutant: the units' objects go with the synth, whoever else holds them.
n_freeObjects ==
  /\ frame = Between
  /\ \E place \in DOMAIN order :
       LET mine == PlacesOf(order[place])
           objects == UNION {Elements(memory.at[p]) : p \in mine \cap {Own(x) : x \in Unit}}
       IN /\ order' = RemoveAt(order, place)
          /\ memory' = [memory EXCEPT !.graphics = Keep(@, (DOMAIN @) \ objects),
                          !.at = [p \in Place |-> IF p \in mine THEN <<>> ELSE @[p]]]
  /\ UNCHANGED <<level, frame, cycles, gl, made, drawn>>

\* The destructors of the synth's units let go of what they hold.
n_free ==
  /\ frame = Between
  /\ \E place \in DOMAIN order :
       LET mine == PlacesOf(order[place])
       IN /\ order' = RemoveAt(order, place)
          /\ memory' = Held([memory EXCEPT !.at = [p \in Place |-> IF p \in mine THEN <<>> ELSE @[p]]])
  /\ UNCHANGED <<level, frame, cycles, gl, made, drawn>>

\* The control thread goes on while the cycle runs; a change between two
\* cycles is enough here.
c_set ==
  /\ frame = Between
  /\ level' \in Value \ {level}
  /\ UNCHANGED <<memory, order, frame, cycles, gl, made, drawn>>

Init ==
  /\ memory = [graphics |-> <<>>, faces |-> <<>>, commands |-> <<>>,
               at |-> [p \in Place |-> <<>>]]
  /\ order = <<>>
  /\ level = 0
  /\ frame = Between
  /\ cycles = 0
  /\ gl = [s \in Synth |-> NewGL]
  /\ made = 0
  /\ drawn = <<>>

Next == G_Begin \/ G_Unit \/ G_Draw \/ s_new \/ n_free \/ c_set

Spec == Init /\ [][Next]_vars

-----------------------------------------------------------------------------
(* Properties                                                              *)

\* Every cow_ptr leads to a cell, and every cell is held by one.
TypeOK ==
  /\ DOMAIN memory.at = Place
  /\ DOMAIN memory.graphics = UNION {Elements(memory.at[p]) : p \in GraphicsPlace}
  /\ \A r \in DOMAIN memory.graphics :
       LET g == memory.graphics[r]
       IN /\ g.kind \in Shapes \cup Commands /\ g.on \in Modes \cup {4}
          /\ Elements(g.commands) \subseteq DOMAIN memory.commands
          /\ g.kind \in Shapes <=> g.face \in DOMAIN memory.faces
          /\ g.kind \in Commands <=> g.face = 0
  /\ \A x \in Unit : Elements(memory.at[Cmd(x)]) \subseteq DOMAIN memory.commands
  /\ gl \in [Synth -> GLState]
  /\ level \in Value
  /\ frame \in {Between} \cup ((DOMAIN order) \X Nat)
  /\ cycles \in 0..MaxCycles

\* The units, the bus and its past hold what they would if every picture
\* were a value of its own: no write through a cow_ptr is seen through
\* another one, in this cycle or by feedback in the next.
Values == INSTANCE PictureValues
            WITH own  <- [x \in Unit |-> OwnPicture(memory, x)],
                 outs <- [x \in Unit |-> PicturesAt(memory, Outs(x))],
                 bus  <- PicturesAt(memory, Bus),
                 past <- PicturesAt(memory, Past)

ImplementsPictureValues == Values!Spec

\* What a window draws depends on its pictures and controls, and not on what
\* it drew in earlier frames, for blending, light and culling, which
\* really_process_g sets anew.  Three things outlive the frame: the depth test
\* and smooth shading, which can only be lost, and the shader program, up to the
\* frame's first shader command.
FramesAreIndependent ==
  drawn # <<>> =>
    LET pictures == [i \in DOMAIN drawn |-> drawn[i].picture]
        afresh   == Drawn(NewGL, drawn[1].controls, pictures)
    IN \A i \in DOMAIN drawn :
         /\ drawn[i].state.blend = afresh[i].state.blend
         /\ drawn[i].state.lit = afresh[i].state.lit
         /\ drawn[i].state.cull = afresh[i].state.cull
         /\ drawn[i].state.depth => afresh[i].state.depth
         /\ afresh[i].state.flat => drawn[i].state.flat
         /\ (\E j \in 1..i - 1 : pictures[j].kind = "shader") =>
              drawn[i].state.shader = afresh[i].state.shader
=============================================================================

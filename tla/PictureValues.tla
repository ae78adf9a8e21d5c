--------------------------- MODULE PictureValues ---------------------------
(***************************************************************************)
(* What the units of graphics rate promise each other: a picture is a      *)
(* value.  A unit makes or alters pictures of its own; what other units,   *)
(* the bus and the past bus hold stays as it is.  Module Pictures has the  *)
(* shared cells that stand for these values.                               *)
(***************************************************************************)
EXTENDS Integers, Sequences, SequencesExt, Drawing

CONSTANTS
  Programs,     (* synth -> the sequence of its graphics units             *)
  Value,        (* what a control input may be                             *)
  Unset,        (* what a new command holds: nobody initialises it         *)
  MaxCycles,    (* bound: graphics cycles                                  *)
  MaxMade       (* bound: synths made                                      *)

Synth == DOMAIN Programs

Unit == UNION {{s} \X DOMAIN Programs[s] : s \in Synth}

VARIABLES
  order,    (* the synths in the order of the walk                         *)
  own,      (* the picture of a unit that makes one                        *)
  outs,     (* _graphics_outs[0] of each unit                              *)
  bus,      (* the graphics bus                                            *)
  past,     (* what it was at the end of the last cycle                    *)
  frame,    (* the unit that comes next: position in order, unit           *)
  cycles,
  made      (* synths made so far                                          *)

vars == <<order, own, outs, bus, past, frame, cycles, made>>

NoFace  == [vertices |-> 0, color |-> 0]
NewFace == [vertices |-> 0, color |-> 1]

\* on: of a command; commands: the transformations; face: of a shape.
NoPicture == [kind |-> "none", on |-> 0, commands |-> <<>>, face |-> NoFace]

Made(kind) == [NoPicture EXCEPT !.kind = kind,
                                !.on = IF kind \in Commands THEN Unset ELSE 0,
                                !.face = IF kind \in Shapes THEN NewFace ELSE NoFace]

Makers == Shapes \cup Commands

Between == <<0, 0>>

Each(Op(_), pictures) == [i \in DOMAIN pictures |-> Op(pictures[i])]

Coloured(p, v) == IF p.kind \in Shapes THEN [p EXCEPT !.face.color = v] ELSE p

Faded(p, v) == Coloured(p, p.face.color * v)

Moved(p, v) == IF p.kind \in Shapes THEN [p EXCEPT !.commands = Append(@, v)] ELSE p

\* A maker's picture at a control value.
Remade(p, v) ==
  CASE p.kind = "cube"             -> [p EXCEPT !.commands = <<v>>]
    [] p.kind \in {"quad", "line"} -> [p EXCEPT !.face.vertices = v]
    [] OTHER                       -> [p EXCEPT !.on = Switched(p.kind, @, v)]

\* The pictures that a unit puts out, given its inputs.
Output(kind, object, ins, v) ==
  CASE kind \in Makers    -> <<object>>
    [] kind = "translate" -> Each(LAMBDA p : Moved(p, v), ins[1])
    [] kind = "color"     -> Each(LAMBDA p : Coloured(p, v), ins[1])
    [] kind = "fade"      -> Each(LAMBDA p : Faded(p, v), ins[1])
    [] kind = "mix"       -> ins[1] \o ins[2]
    [] kind = "In"        -> bus
    [] kind = "InFeedback"-> past
    [] OTHER              -> <<>>

Written(kind, ins, v) ==
  CASE kind = "Out"        -> bus \o ins[1]
    [] kind = "ReplaceOut" -> ins[1]
    [] kind = "XOut"       -> Each(LAMBDA p : Faded(p, 1 - v), bus)
                                \o Each(LAMBDA p : Faded(p, v), ins[1])
    [] OTHER               -> bus

Next_frame ==
  IF frame[2] < Len(Programs[order[frame[1]]]) THEN <<frame[1], frame[2] + 1>>
  ELSE IF frame[1] < Len(order) THEN <<frame[1] + 1, 1>> ELSE Between

G_Begin ==
  /\ frame = Between /\ order # <<>> /\ cycles < MaxCycles
  /\ past' = bus
  /\ bus' = <<>>
  /\ frame' = <<1, 1>>
  /\ cycles' = cycles + 1
  /\ UNCHANGED <<order, own, outs, made>>

G_Unit ==
  /\ frame # Between
  /\ \E v \in Value :
       LET s == order[frame[1]]
           x == <<s, frame[2]>>
           unit == Programs[s][frame[2]]
           ins == [k \in DOMAIN unit.ins |-> outs[<<s, unit.ins[k]>>]]
           object == IF unit.kind \in Makers THEN Remade(own[x], v) ELSE NoPicture
       IN /\ own' = [own EXCEPT ![x] = object]
          /\ outs' = [outs EXCEPT ![x] = Output(unit.kind, object, ins, v)]
          /\ bus' = Written(unit.kind, ins, v)
  /\ frame' = Next_frame
  /\ UNCHANGED <<order, past, cycles, made>>

s_new ==
  /\ frame = Between /\ made < MaxMade
  /\ made' = made + 1
  /\ \E s \in Synth \ {order[i] : i \in DOMAIN order} :
       /\ order' \in {<<s>> \o order, Append(order, s)}
       /\ own' = [x \in Unit |-> IF x[1] = s /\ Programs[s][x[2]].kind \in Makers
                                 THEN Made(Programs[s][x[2]].kind) ELSE own[x]]
  /\ UNCHANGED <<outs, bus, past, frame, cycles>>

n_free ==
  /\ frame = Between
  /\ \E place \in DOMAIN order :
       /\ order' = RemoveAt(order, place)
       /\ own' = [x \in Unit |-> IF x[1] = order[place] THEN NoPicture ELSE own[x]]
       /\ outs' = [x \in Unit |-> IF x[1] = order[place] THEN <<>> ELSE outs[x]]
  /\ UNCHANGED <<bus, past, frame, cycles, made>>

Init ==
  /\ order = <<>>
  /\ own = [x \in Unit |-> NoPicture]
  /\ outs = [x \in Unit |-> <<>>]
  /\ bus = <<>>
  /\ past = <<>>
  /\ frame = Between
  /\ cycles = 0
  /\ made = 0

Next == G_Begin \/ G_Unit \/ s_new \/ n_free

Spec == Init /\ [][Next]_vars
=============================================================================

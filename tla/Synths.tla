------------------------------- MODULE Synths -------------------------------
(***************************************************************************)
(* The control side of the synths: a definition is turned into units       *)
(* (GSynth::GSynth, PluginPool::create_unit), messages write parameters    *)
(* and the bus, and the control thread runs the units one after the other  *)
(* (GSynth::process_c, control.cc, in_out.cc, sc_unit_wrapper.cc).         *)
(*                                                                         *)
(* Of the lock (module Server) this keeps what it excludes: a message that *)
(* takes the write lock waits for the control cycle, /n_set with an index  *)
(* and /n_setn do not.  Of the tree (module NodeTree) it keeps the order   *)
(* in which a cycle meets the synths; a synth beside the root, or in a     *)
(* group that is, is in no cycle's order, though clients reach it by its   *)
(* id.  A unit has one output; one with n of them stands for n in a row.   *)
(***************************************************************************)
EXTENDS Integers, Sequences, FiniteSets, SequencesExt

CONSTANTS
  MaxSynth,       (* bound: synths that live at a time                     *)
  MaxValue,       (* bound: what a parameter or the bus may hold           *)
  Definitions,    (* definition -> the sequence of its units               *)
  NoDefinition

Synth  == 1..MaxSynth
Value  == 0..MaxValue

Kinds == {"Control", "TrigControl", "In", "Out", "ReplaceOut", "XOut",
          "sc",        (* a SuperCollider unit, in its wrapper             *)
          "graphics",  (* a unit without a control rate function           *)
          "unknown"}   (* the name of no unit                              *)

\* rate: 0 scalar, 1 control, 2 graphics.  ins: the units that feed the inputs
\* after the bus.
UnitSpec == [kind: Kinds, rate: 0..2, ins: Seq(Nat)]

ASSUME BoundAssumption == MaxSynth \in Nat \ {0} /\ MaxValue \in Nat \ {0}
ASSUME DefinitionAssumption ==
  /\ NoDefinition \notin DOMAIN Definitions
  /\ \A d \in DOMAIN Definitions :
       /\ Definitions[d] \in Seq(UnitSpec)
       /\ \A u \in DOMAIN Definitions[d] :
            \A k \in DOMAIN Definitions[d][u].ins : Definitions[d][u].ins[k] \in 1..(u - 1)

\* The parameters of a synth: what Control copies, and what TrigControl copies
\* and clears.
Level == 1
Trigger == 2
Parameter == {Level, Trigger}

\* What _current_synth is when it leads to no synth.
Nobody == 0
Freed  == -1

VARIABLES
  synths,     (* what is known of each GSynth                              *)
  order,      (* the synths of the tree in the order of its walk           *)
  params,     (* _parameters of each synth                                 *)
  outs,       (* _control_outs of its units                                *)
  ran,        (* its units that have run (history; for a wrapper, _unit)   *)
  bus,        (* the one control bus                                       *)
  current,    (* PluginPool::_current_synth                                *)
  cycle,      (* where the control thread is                               *)
  pulled,     (* how the trigger was last set since it was cleared         *)
  misused     (* the first use of a pointer that leads nowhere             *)

vars == <<synths, order, params, outs, ran, bus, current, cycle, pulled, misused>>
signals == <<params, outs, ran, bus>>

-----------------------------------------------------------------------------
(* The units *)

NoSynth == [def |-> NoDefinition, setup |-> "none", done |-> {}]

Live == {s \in Synth : synths[s] # NoSynth}

Units(s) == Definitions[synths[s].def]

AtRate(d, rate) == {u \in DOMAIN Definitions[d] : Definitions[d][u].rate = rate}

OfKind(d, kind) == {u \in DOMAIN Definitions[d] : Definitions[d][u].kind = kind}

\* What process_c of one synth works on.
Memory(s) == [params |-> params[s], outs |-> outs[s], ran |-> ran[s], bus |-> bus]

Fresh(d) == [params |-> [i \in Parameter |-> 0],
             outs   |-> [u \in DOMAIN Definitions[d] |-> 0],
             ran    |-> {}, bus |-> bus]

Input(m, unit, k) == IF k \in DOMAIN unit.ins THEN m.outs[unit.ins[k]] ELSE 1

CopyTrigger(m, u) == [m EXCEPT !.outs[u] = m.params[Trigger], !.ran = @ \cup {u}]

ClearTrigger(m) == [m EXCEPT !.params[Trigger] = 0]

\* XOut weighs by its input what it should weigh by xfade.
Mix(old, xfade, input) == xfade * input + old * (1 - input)

Capped(v) == IF v > MaxValue THEN MaxValue ELSE IF v < 0 THEN 0 ELSE v

\* process_c of one unit.  A SuperCollider unit passes its input on, for any
\* function of it.  A unit without a control function sets its output and throws.
ProcessUnit(m, unit, u) ==
  LET result ==
    CASE unit.kind = "Control"     -> [m EXCEPT !.outs[u] = m.params[Level]]
      [] unit.kind = "TrigControl" -> ClearTrigger(CopyTrigger(m, u))
      [] unit.kind = "In"          -> [m EXCEPT !.outs[u] = m.bus]
      [] unit.kind = "Out"         -> [m EXCEPT !.bus = Capped(@ + Input(m, unit, 1))]
      [] unit.kind = "ReplaceOut"  -> [m EXCEPT !.bus = Input(m, unit, 1)]
      [] unit.kind = "XOut"        -> [m EXCEPT !.bus = Capped(Mix(@, Input(m, unit, 1), Input(m, unit, 2)))]
      [] unit.kind = "sc"          -> [m EXCEPT !.outs[u] = Input(m, unit, 1)]
      [] OTHER                     -> [m EXCEPT !.outs[u] = 0]
  IN [result EXCEPT !.ran = @ \cup {u}]

\* A unit that throws ends the loop.
RunUnitsToThrow(m, d, rate, last) ==
  LET after[u \in 0..last] ==
        IF u = 0 THEN m
        ELSE IF u \in AtRate(d, rate) /\ \A k \in 1..(u - 1) : k \notin OfKind(d, "graphics")
             THEN ProcessUnit(after[u - 1], Definitions[d][u], u)
             ELSE after[u - 1]
  IN after[last]

\* /s_new leaves the control units to the next cycle.
RunUnitsScalar(m, d, rate, last) ==
  IF rate = 0 THEN RunUnitsToThrow(m, d, rate, last) ELSE m

\* The loop over the units of one rate, under the write lock, up to unit last;
\* at control rate it goes on behind a unit that throws.
RunUnits(m, d, rate, last) ==
  LET after[u \in 0..last] ==
        IF u = 0 THEN m
        ELSE IF u \in AtRate(d, rate) THEN ProcessUnit(after[u - 1], Definitions[d][u], u)
        ELSE after[u - 1]
  IN after[last]

\* fDoneAction: a unit of synth by is done; the pool's current synth is marked.
Mark(known, marked, by, rate) ==
  IF marked \in Synth
  THEN [known EXCEPT ![marked].done = @ \cup {IF marked = by THEN "own"
                                              ELSE IF rate = 0 THEN "scalar" ELSE "other"}]
  ELSE known

Keep(s, m) ==
  /\ params' = [params EXCEPT ![s] = m.params]
  /\ outs' = [outs EXCEPT ![s] = m.outs]
  /\ ran' = [ran EXCEPT ![s] = m.ran]
  /\ bus' = m.bus

-----------------------------------------------------------------------------
(* Creation of a synth *)

\* The units that create_unit makes: those before one of an unknown name.
Made(d) == {u \in DOMAIN Definitions[d] : \A k \in 1..u : Definitions[d][k].kind # "unknown"}

Throwing(d) == AtRate(d, 0) \cap OfKind(d, "graphics")

\* The last unit that the constructor gets past at scalar rate.
LastScalar(d) ==
  IF Made(d) # DOMAIN Definitions[d] THEN 0
  ELSE CHOOSE n \in 0..Len(Definitions[d]) :
         /\ \A u \in 1..n : u \notin Throwing(d)
         /\ n = Len(Definitions[d]) \/ n + 1 \in Throwing(d)

Constructible(d) == LastScalar(d) = Len(Definitions[d])

\* Among the units us is a wrapper that never ran: its destructor hands an
\* uninitialised pointer to the SuperCollider unit's.
Unconstructed(us, d, m) == us \cap OfKind(d, "sc") \subseteq m.ran

\* What is left when the scalar units have run, with another synth as the
\* current one; whether one of them reports a done action is its own affair.
Scalars(s, d, reports, known) ==
  LET made == RunUnits(Fresh(d), d, 0, LastScalar(d))
  IN /\ reports => OfKind(d, "sc") \cap made.ran # {}
     /\ synths' = IF reports THEN Mark(known, current, s, 0) ELSE known
     /\ misused' = CASE reports /\ current \notin Synth -> <<"current", "scalar">>
                     [] ~Constructible(d) /\ ~Unconstructed(Made(d), d, made) -> <<"unit", "failed">>
                     [] OTHER -> misused

Between == [position |-> 0, unit |-> 0, clearing |-> FALSE]

\* Behind the use of a pointer that leads nowhere anything may follow: the model
\* stops there.
Defined == misused = <<>>

CanWrite == Defined /\ cycle = Between

NewSlot(s) == s \notin Live /\ \A t \in 1..(s - 1) : t \in Live

\* An unknown unit, or a scalar one without a control function, throws out of
\* the constructor; the units made so far are destroyed.
s_new_fails ==
  /\ CanWrite
  /\ \E s \in Synth, d \in DOMAIN Definitions, reports \in BOOLEAN :
       /\ NewSlot(s) /\ ~Constructible(d)
       /\ bus' = RunUnits(Fresh(d), d, 0, LastScalar(d)).bus
       /\ Scalars(s, d, reports, synths)
  /\ UNCHANGED <<order, params, outs, ran, current, cycle, pulled>>

\* Otherwise the arguments follow, then process_c(0); if an argument is
\* malformed the synth is there all the same, as it is if it was to be put beside
\* the root.
SetUp(s, d, setup, level, trigger) ==
  LET made  == RunUnits(Fresh(d), d, 0, Len(Definitions[d]))
      given == [made EXCEPT !.params[Level] = level, !.params[Trigger] = trigger]
  IN /\ OfKind(d, "Control") = {} => level = 0
     /\ OfKind(d, "TrigControl") = {} => trigger = 0
     /\ Keep(s, IF setup = "complete" THEN RunUnits(given, d, 1, Len(Definitions[d])) ELSE given)
     /\ pulled' = [pulled EXCEPT ![s] = IF setup = "broken" /\ trigger # 0 THEN "locked" ELSE "idle"]

s_new ==
  /\ CanWrite
  /\ \E s \in Synth, d \in DOMAIN Definitions, setup \in {"broken", "complete"},
        level, trigger \in Value, reports \in BOOLEAN :
       /\ NewSlot(s) /\ Constructible(d)
       /\ Scalars(s, d, reports, [synths EXCEPT ![s] = [def |-> d, setup |-> setup, done |-> {}]])
       /\ SetUp(s, d, setup, level, trigger)
       /\ current' = IF setup = "complete" THEN s ELSE current
       /\ order' \in {order, <<s>> \o order, Append(order, s)}
  /\ UNCHANGED cycle

-----------------------------------------------------------------------------
(* The other messages *)

\* The synth's node leaves the tree, if it is in it.
Leaves(s) ==
  \/ s \notin ToSet(order) /\ UNCHANGED order
  \/ \E place \in DOMAIN order : order[place] = s /\ order' = RemoveAt(order, place)

n_freeUnlocked ==
  /\ \E s \in Live :
       /\ synths' = [synths EXCEPT ![s] = NoSynth]
       /\ Leaves(s)
       /\ current' = IF current = s THEN Freed ELSE current
  /\ UNCHANGED <<params, outs, ran, bus, cycle, pulled, misused>>

n_free ==
  /\ CanWrite
  /\ \E s \in Live :
       /\ synths' = [synths EXCEPT ![s] = NoSynth]
       /\ Leaves(s)
       /\ Keep(s, [params |-> [i \in Parameter |-> 0], outs |-> <<>>, ran |-> {}, bus |-> bus])
       /\ pulled' = [pulled EXCEPT ![s] = "idle"]
       /\ current' = IF current = s THEN Freed ELSE current
       /\ misused' = IF Unconstructed(DOMAIN Units(s), synths[s].def, Memory(s)) THEN misused
                     ELSE <<"unit", IF OfKind(synths[s].def, "sc") \cap AtRate(synths[s].def, 2) # {}
                                    THEN "graphics rate" ELSE synths[s].setup>>
  /\ UNCHANGED cycle

\* A parameter that no unit of the definition reads stays as it is here.
Set(s, i, v, how) ==
  /\ i = Level => OfKind(synths[s].def, "Control") # {}
  /\ i = Trigger => OfKind(synths[s].def, "TrigControl") # {}
  /\ params' = [params EXCEPT ![s][i] = v]
  /\ pulled' = IF i = Level THEN pulled ELSE [pulled EXCEPT ![s] = how]
  /\ UNCHANGED <<synths, order, outs, ran, bus, current, cycle, misused>>

n_setUnlocked ==
  \E s \in Live, i \in Parameter, v \in Value : Set(s, i, v, IF v = 0 THEN "idle" ELSE "locked")

\* /n_set with a name, under the write lock.
n_set ==
  /\ CanWrite
  /\ \E s \in Live, i \in Parameter, v \in Value : Set(s, i, v, IF v = 0 THEN "idle" ELSE "locked")

\* /n_set with an index, and each value of an /n_setn: at any point of a cycle.
n_set_index ==
  /\ Defined
  /\ \E s \in Live, i \in Parameter, v \in Value : Set(s, i, v, "unlocked")

c_setUnlocked ==
  /\ \E v \in Value : bus' = v
  /\ UNCHANGED <<synths, order, params, outs, ran, current, cycle, pulled, misused>>

c_set ==
  /\ CanWrite
  /\ \E v \in Value : bus' = v
  /\ UNCHANGED <<synths, order, params, outs, ran, current, cycle, pulled, misused>>

-----------------------------------------------------------------------------
(* The control cycle *)

Here == order[cycle.position]

\* The loop ends at a unit that throws.
NextUnitToThrow(s, u) ==
  IF u # 0 /\ Units(s)[u].kind = "graphics" THEN Len(Units(s)) + 1
  ELSE CHOOSE n \in (u + 1)..(Len(Units(s)) + 1) :
         /\ n = Len(Units(s)) + 1 \/ Units(s)[n].rate = 1
         /\ \A k \in (u + 1)..(n - 1) : Units(s)[k].rate # 1

\* The unit of synth s that runs after unit u, or the end of its units.
NextUnit(s, u) ==
  CHOOSE n \in (u + 1)..(Len(Units(s)) + 1) :
    /\ n = Len(Units(s)) + 1 \/ Units(s)[n].rate = 1
    /\ \A k \in (u + 1)..(n - 1) : Units(s)[k].rate # 1

Advanced == [cycle EXCEPT !.clearing = FALSE, !.unit = NextUnit(Here, @)]

Runs(kinds) ==
  /\ cycle # Between
  /\ cycle.unit \in DOMAIN Units(Here)
  /\ Units(Here)[cycle.unit].kind \in kinds

SynthProcessed == cycle # Between /\ cycle.unit > Len(Units(Here))

CycleProcessed == SynthProcessed /\ cycle.position = Len(order)

C_EnterUnknown ==
  /\ (Defined /\ cycle = Between) \/ SynthProcessed
  /\ cycle.position < Len(order)
  /\ cycle' = [Between EXCEPT !.position = cycle.position + 1,
                              !.unit = NextUnit(order[cycle.position + 1], 0)]
  /\ UNCHANGED <<synths, order, current, pulled, misused, signals>>

\* The pool gets to know who is processed.
C_Enter ==
  /\ (Defined /\ cycle = Between) \/ SynthProcessed
  /\ cycle.position < Len(order)
  /\ current' = order[cycle.position + 1]
  /\ cycle' = [Between EXCEPT !.position = cycle.position + 1,
                              !.unit = NextUnit(order[cycle.position + 1], 0)]
  /\ UNCHANGED <<synths, order, pulled, misused, signals>>

\* A SuperCollider unit may report that it is done, through fDoneAction.
C_Unit ==
  /\ Runs(Kinds \ {"TrigControl"})
  /\ Keep(Here, ProcessUnit(Memory(Here), Units(Here)[cycle.unit], cycle.unit))
  /\ \/ UNCHANGED synths
     \/ Units(Here)[cycle.unit].kind = "sc" /\ synths' = Mark(synths, current, Here, 1)
  /\ cycle' = Advanced
  /\ UNCHANGED <<order, current, pulled, misused>>

\* TrigControl copies its parameter, then clears it.
C_CopyTrigger ==
  /\ Runs({"TrigControl"}) /\ ~cycle.clearing
  /\ Keep(Here, CopyTrigger(Memory(Here), cycle.unit))
  /\ cycle' = [cycle EXCEPT !.clearing = TRUE]
  /\ UNCHANGED <<synths, order, current, pulled, misused>>

C_ClearTrigger ==
  /\ cycle.clearing
  /\ Keep(Here, ClearTrigger(Memory(Here)))
  /\ pulled' = [pulled EXCEPT ![Here] = "idle"]
  /\ cycle' = Advanced
  /\ UNCHANGED <<synths, order, current, misused>>

C_End ==
  /\ CycleProcessed
  /\ cycle' = Between
  /\ UNCHANGED <<synths, order, current, pulled, misused, signals>>

ControlCycle == C_Enter \/ C_Unit \/ C_CopyTrigger \/ C_ClearTrigger \/ C_End

Messages == s_new \/ s_new_fails \/ n_free \/ n_set \/ n_set_index \/ c_set

Init ==
  /\ synths = [s \in Synth |-> NoSynth]
  /\ order = <<>>
  /\ params = [s \in Synth |-> [i \in Parameter |-> 0]]
  /\ outs = [s \in Synth |-> <<>>]
  /\ ran = [s \in Synth |-> {}]
  /\ bus = 0
  /\ current = Nobody
  /\ cycle = Between
  /\ pulled = [s \in Synth |-> "idle"]
  /\ misused = <<>>

Next == ControlCycle \/ Messages

Spec == Init /\ [][Next]_vars

\* A cycle that has begun runs on; that one begins is not granted, as /controlRate 0
\* ends them (control_loop.cc).
FairSpec == Spec /\ WF_vars(cycle # Between /\ ControlCycle)

-----------------------------------------------------------------------------
(* Properties *)

TypeOK ==
  /\ synths \in [Synth -> [def: DOMAIN Definitions \cup {NoDefinition},
                           setup: {"none", "broken", "complete"},
                           done: SUBSET {"own", "scalar", "other"}]]
  /\ order \in Seq(Live)
  /\ params \in [Synth -> [Parameter -> Value]]
  /\ outs \in [Synth -> Seq(Value)]
  /\ ran \in [Synth -> SUBSET Nat]
  /\ bus \in Value
  /\ current \in Live \cup {Nobody, Freed}
  /\ cycle \in [position: 0..Len(order), unit: Nat, clearing: BOOLEAN]
  /\ pulled \in [Synth -> {"idle", "locked", "unlocked"}]

\* A synth that a graphics cycle may meet has run every scalar and control unit,
\* behind units that throw as well, though no control cycle may have come by:
\* /s_new sees to it (osc_handler.cc /s_new, synth.cc process_c).  A malformed
\* /s_new is the exception.
UnitsRunFirst ==
  \A s \in Live :
    synths[s].setup = "complete" =>
      AtRate(synths[s].def, 0) \cup AtRate(synths[s].def, 1) \subseteq ran[s]

\* A pointer that leads nowhere is used only where a definition or a message is
\* at fault: a creation that failed or was broken off, a SuperCollider unit at
\* graphics rate, a scalar one that reports (sc_unit_wrapper.cc, plugin_pool.cc).
MisusedByBadDefinition == misused # <<"unit", "complete">>

\* A synth is marked as done by its own units only, or by the scalar units of
\* one that was created next (plugin_pool.cc fDoneAction, synth.cc process_c).
DoneByOwnUnits == \A s \in Synth : "other" \notin synths[s].done

\* TrigControl puts out a trigger only if one was set, and each that was set
\* under the lock; one set without it may be lost (control.cc).
TriggersArriveOnce ==
  cycle.clearing =>
    /\ outs[Here][cycle.unit] # 0 => pulled[Here] # "idle"
    /\ pulled[Here] = "locked" => outs[Here][cycle.unit] # 0

\* The units that a cycle runs, in the order it reaches them.
Places == UNION {{i} \X AtRate(synths[order[i]].def, 1) : i \in DOMAIN order}

UnitAt(at) == Units(order[at[1]])[at[2]]

Writers == {at \in Places : UnitAt(at).kind \in {"Out", "ReplaceOut", "XOut"}}

Before(a, b) == a[1] < b[1] \/ (a[1] = b[1] /\ a[2] < b[2])

\* At the end of a cycle an In behind a ReplaceOut holds what that one wrote in
\* this very cycle, whichever messages came meanwhile (in_out.cc, /c_set).
ReaderFollowsWriter ==
  CycleProcessed =>
    \A r \in Places, w \in Writers :
      /\ UnitAt(r).kind = "In" /\ UnitAt(w).kind = "ReplaceOut" /\ Before(w, r)
      /\ \A p \in Writers : ~(Before(w, p) /\ Before(p, r))
      => outs[order[r[1]]][r[2]] = Input(Memory(order[w[1]]), UnitAt(w), 1)

\* As long as cycles come, what is set reaches the outputs of the controls of a
\* synth that is in the tree, behind units that throw as well (control.cc,
\* synth.cc process_c).
Delivered(s) ==
  s \in ToSet(order) =>
    \A u \in AtRate(synths[s].def, 1) \cap OfKind(synths[s].def, "Control") :
      outs[s][u] = params[s][Level]

SetReachesOuts == []<>(cycle # Between) => \A s \in Synth : []<>Delivered(s)
=============================================================================

---------------------------- MODULE SynthsProofs ----------------------------
(***************************************************************************)
(* The control side of the synths, for any definitions and any number of   *)
(* synths:                                                                 *)
(*                                                                         *)
(*   - fDoneAction marks the right synth: _current_synth leads to the one  *)
(*     whose units run, although /s_new sets it too and /n_free may leave  *)
(*     it dangling between the cycles;                                     *)
(*   - units run before they are drawn or freed, triggers arrive, and no   *)
(*     pointer is misused (UnitsInv: the state of the synths, the tree's   *)
(*     order, the memories, the pool and the control thread's place);      *)
(*   - an In reads what the writer before it wrote (Reading: what the bus  *)
(*     and the outputs hold at every place the cycle is behind).           *)
(***************************************************************************)
EXTENDS Synths, DataLemmas, TLAPS

SynthRecord == [def   : DOMAIN Definitions \cup {NoDefinition},
                setup : {"none", "broken", "complete"},
                done  : SUBSET {"own", "scalar", "other"}]

KnownOK == synths \in [Synth -> SynthRecord]

\* What the pool knows is right while a cycle is among the units of a synth.
CurrentIsHere ==
  /\ DOMAIN cycle = {"position", "unit", "clearing"}
  /\ cycle # Between => current = Here

DoneInv == KnownOK /\ CurrentIsHere /\ DoneByOwnUnits

\* A mark for the synth that runs, or for a scalar unit, is no foreign one.
LEMMA MarkOwn ==
  ASSUME NEW known \in [Synth -> SynthRecord],
         \A s \in Synth : "other" \notin known[s].done,
         NEW marked, NEW by, NEW rate, marked = by \/ rate = 0
  PROVE  /\ Mark(known, marked, by, rate) \in [Synth -> SynthRecord]
         /\ \A s \in Synth : "other" \notin Mark(known, marked, by, rate)[s].done
<1> DEFINE how == IF marked = by THEN "own" ELSE IF rate = 0 THEN "scalar" ELSE "other"
<1>1. how \in {"own", "scalar"}
  OBVIOUS
<1>2. Mark(known, marked, by, rate) =
        IF marked \in Synth THEN [known EXCEPT ![marked].done = @ \cup {how}] ELSE known
  BY DEF Mark
<1> HIDE DEF how
<1> QED
  BY <1>1, <1>2 DEF SynthRecord

\* The control cycle moves on within a synth.
LEMMA AdvanceKeepsCurrent ==
  ASSUME CurrentIsHere, cycle # Between, UNCHANGED <<order, current>>,
         DOMAIN cycle' = DOMAIN cycle, cycle'.position = cycle.position
  PROVE  CurrentIsHere'
BY DEF CurrentIsHere, Here

\* The invariant holds at first.
LEMMA DoneInit == Init => DoneInv
<1> SUFFICES ASSUME Init PROVE DoneInv
  OBVIOUS
<1>1. KnownOK
  BY DEF Init, KnownOK, SynthRecord, NoSynth
<1>2. CurrentIsHere
  BY DEF Init, CurrentIsHere, Between
<1>3. DoneByOwnUnits
  BY DEF Init, DoneByOwnUnits, NoSynth
<1> QED
  BY <1>1, <1>2, <1>3 DEF DoneInv

\* Every step preserves it.
LEMMA DoneStep == DoneInv /\ [Next]_vars => DoneInv'
<1> SUFFICES ASSUME DoneInv, [Next]_vars PROVE DoneInv'
  OBVIOUS
<1> USE DEF DoneInv
<1>1. CASE UNCHANGED vars
  BY <1>1 DEF vars, KnownOK, CurrentIsHere, DoneByOwnUnits, Here
<1>2. CASE s_new_fails
  <2>1. CurrentIsHere'
    BY <1>2 DEF s_new_fails, CurrentIsHere, CanWrite, Between
  <2>2. synths' = synths \/ \E s \in Synth : synths' = Mark(synths, current, s, 0)
    BY <1>2 DEF s_new_fails, Scalars
  <2>3. KnownOK' /\ DoneByOwnUnits'
    BY <2>2, MarkOwn DEF KnownOK, DoneByOwnUnits
  <2> QED
    BY <2>1, <2>3
<1>3. CASE s_new
  <2>1. CurrentIsHere'
    <3>1. cycle = Between /\ cycle' = cycle
      BY <1>3, Zenon DEF s_new, CanWrite
    <3> QED
      BY <3>1 DEF CurrentIsHere, Between
  <2>2. PICK s \in Synth, d \in DOMAIN Definitions, setup \in {"broken", "complete"},
             level \in Value, trigger \in Value, reports \in BOOLEAN :
          Scalars(s, d, reports, [synths EXCEPT ![s] = [def |-> d, setup |-> setup, done |-> {}]])
    BY <1>3, Zenon DEF s_new
  <2> DEFINE known == [synths EXCEPT ![s] = [def |-> d, setup |-> setup, done |-> {}]]
  <2>3. known \in [Synth -> SynthRecord] /\ \A t \in Synth : "other" \notin known[t].done
    BY DEF KnownOK, DoneByOwnUnits, SynthRecord
  <2>4. synths' = known \/ synths' = Mark(known, current, s, 0)
    BY <2>2 DEF Scalars
  <2>5. KnownOK' /\ DoneByOwnUnits'
    <3> HIDE DEF known
    <3> QED
      BY <2>3, <2>4, MarkOwn DEF KnownOK, DoneByOwnUnits
  <2> QED
    BY <2>1, <2>5
<1>4. CASE n_free
  <2>1. CurrentIsHere'
    BY <1>4 DEF n_free, CurrentIsHere, CanWrite, Between
  <2>2. PICK s \in Synth : synths' = [synths EXCEPT ![s] = NoSynth]
    BY <1>4 DEF n_free, Live
  <2>3. NoSynth \in SynthRecord /\ NoSynth.done = {}
    BY DEF NoSynth, SynthRecord
  <2> QED
    BY <2>1, <2>2, <2>3 DEF KnownOK, DoneByOwnUnits
<1>5. CASE n_set \/ n_set_index \/ c_set
  BY <1>5 DEF n_set, n_set_index, c_set, Set, KnownOK, CurrentIsHere, DoneByOwnUnits, Here
<1>6. CASE C_Enter
  <2>1. cycle' = [Between EXCEPT !.position = cycle.position + 1,
                                 !.unit = NextUnit(order[cycle.position + 1], 0)]
        /\ current' = order[cycle.position + 1] /\ UNCHANGED <<synths, order>>
    BY <1>6 DEF C_Enter
  <2>2. DOMAIN cycle' = {"position", "unit", "clearing"} /\ cycle'.position = cycle.position + 1
    BY <2>1 DEF Between
  <2>3. CurrentIsHere'
    BY <2>1, <2>2 DEF CurrentIsHere, Here
  <2> QED
    BY <2>1, <2>3 DEF KnownOK, DoneByOwnUnits
<1>7. CASE C_Unit
  <2>1. cycle # Between /\ UNCHANGED <<order, current>> /\ cycle' = Advanced
    BY <1>7 DEF C_Unit, Runs
  <2>2. DOMAIN cycle' = DOMAIN cycle /\ cycle'.position = cycle.position
    BY <2>1 DEF Advanced, CurrentIsHere
  <2>3. CurrentIsHere'
    BY <2>1, <2>2, AdvanceKeepsCurrent
  <2>4. synths' = synths \/ synths' = Mark(synths, current, Here, 1)
    BY <1>7 DEF C_Unit
  <2>5. current = Here
    BY <2>1 DEF CurrentIsHere
  <2>6. KnownOK' /\ DoneByOwnUnits'
    BY <2>4, <2>5, MarkOwn DEF KnownOK, DoneByOwnUnits
  <2> QED
    BY <2>3, <2>6
<1>8. CASE C_CopyTrigger
  <2>1. cycle # Between /\ UNCHANGED <<synths, order, current>>
        /\ cycle' = [cycle EXCEPT !.clearing = TRUE]
    BY <1>8 DEF C_CopyTrigger, Runs
  <2>2. DOMAIN cycle' = DOMAIN cycle /\ cycle'.position = cycle.position
    BY <2>1 DEF CurrentIsHere
  <2> QED
    BY <2>1, <2>2, AdvanceKeepsCurrent DEF KnownOK, DoneByOwnUnits
<1>9. CASE C_ClearTrigger
  <2>1. cycle # Between /\ UNCHANGED <<synths, order, current>> /\ cycle' = Advanced
    BY <1>9 DEF C_ClearTrigger, Between
  <2>2. DOMAIN cycle' = DOMAIN cycle /\ cycle'.position = cycle.position
    BY <2>1 DEF Advanced, CurrentIsHere
  <2> QED
    BY <2>1, <2>2, AdvanceKeepsCurrent DEF KnownOK, DoneByOwnUnits
<1>10. CASE C_End
  BY <1>10 DEF C_End, CurrentIsHere, Between, KnownOK, DoneByOwnUnits
<1> QED
  BY <1>1, <1>2, <1>3, <1>4, <1>5, <1>6, <1>7, <1>8, <1>9, <1>10
  DEF Next, ControlCycle, Messages

\* A synth is marked as done by its own units only, or by the scalar units of
\* one that was created next (plugin_pool.cc fDoneAction, synth.cc process_c).
THEOREM DoneIsOwn == Spec => []DoneByOwnUnits
<1>1. DoneInv => DoneByOwnUnits
  BY DEF DoneInv
<1> QED
  BY DoneInit, DoneStep, <1>1, PTL DEF Spec

\* While units run, the pool's current synth is the one whose units they are.
THEOREM CurrentIsWhoRuns == Spec => []CurrentIsHere
<1>1. DoneInv => CurrentIsHere
  BY DEF DoneInv
<1> QED
  BY DoneInit, DoneStep, <1>1, PTL DEF Spec

-----------------------------------------------------------------------------
(* One unit *)

MemoryOf(d) == [params : [Parameter -> Value], outs : [DOMAIN Definitions[d] -> Value],
                ran : SUBSET Nat, bus : Value]

WriterKinds == {"Out", "ReplaceOut", "XOut"}

LEMMA UnitFacts ==
  ASSUME NEW d \in DOMAIN Definitions
  PROVE  /\ Len(Definitions[d]) \in Nat /\ DOMAIN Definitions[d] = 1..Len(Definitions[d])
         /\ \A u \in DOMAIN Definitions[d] :
              /\ Definitions[d][u].kind \in Kinds /\ Definitions[d][u].rate \in 0..2
              /\ \A k \in DOMAIN Definitions[d][u].ins : Definitions[d][u].ins[k] \in 1..(u - 1)
<1>1. Definitions[d] \in Seq(UnitSpec)
  BY DefinitionAssumption
<1>2. \A u \in DOMAIN Definitions[d] : Definitions[d][u] \in UnitSpec
  BY <1>1, ElementOfSeq
<1>3. Len(Definitions[d]) \in Nat /\ DOMAIN Definitions[d] = 1..Len(Definitions[d])
  BY <1>1
<1>4. \A u \in DOMAIN Definitions[d] :
        \A k \in DOMAIN Definitions[d][u].ins : Definitions[d][u].ins[k] \in 1..(u - 1)
  BY DefinitionAssumption
<1> QED
  BY <1>2, <1>3, <1>4 DEF UnitSpec

LEMMA Values == 0 \in Value /\ 1 \in Value /\ Value \subseteq Int
BY BoundAssumption DEF Value

LEMMA InputOK ==
  ASSUME NEW d \in DOMAIN Definitions, NEW u \in DOMAIN Definitions[d],
         NEW m, m.outs \in [DOMAIN Definitions[d] -> Value], NEW k
  PROVE  Input(m, Definitions[d][u], k) \in Value
<1>1. CASE k \in DOMAIN Definitions[d][u].ins
  <2>1. Definitions[d][u].ins[k] \in DOMAIN Definitions[d]
    BY <1>1, UnitFacts
  <2> QED
    BY <1>1, <2>1 DEF Input
<1>2. CASE k \notin DOMAIN Definitions[d][u].ins
  BY <1>2, Values DEF Input
<1> QED
  BY <1>1, <1>2

LEMMA CappedOK ==
  ASSUME NEW v \in Int
  PROVE  Capped(v) \in Value
BY BoundAssumption DEF Capped, Value

LEMMA MixOK ==
  ASSUME NEW old \in Int, NEW xfade \in Int, NEW input \in Int
  PROVE  Mix(old, xfade, input) \in Int
<1>1. \A a, b \in Int : a * b \in Int /\ a + b \in Int /\ a - b \in Int
  OBVIOUS
<1> QED
  BY <1>1 DEF Mix

\* What a unit does to its synth's memory and the bus.
LEMMA UnitDoes ==
  ASSUME NEW d \in DOMAIN Definitions, NEW u \in DOMAIN Definitions[d], NEW m \in MemoryOf(d),
         NEW after, after = ProcessUnit(m, Definitions[d][u], u)
  PROVE  /\ after \in MemoryOf(d) /\ after.ran = m.ran \cup {u}
         /\ \A k \in DOMAIN Definitions[d] : k # u => after.outs[k] = m.outs[k]
         /\ Definitions[d][u].kind \notin WriterKinds => after.bus = m.bus
         /\ Definitions[d][u].kind \in WriterKinds => after.outs = m.outs
         /\ Definitions[d][u].kind = "In" => after.outs[u] = m.bus
         /\ Definitions[d][u].kind = "ReplaceOut" => after.bus = Input(m, Definitions[d][u], 1)
         /\ Definitions[d][u].kind # "TrigControl" => after.params = m.params
         /\ Definitions[d][u].kind = "TrigControl" => after.params[Trigger] = 0
<1> DEFINE unit == Definitions[d][u]
           in1 == Input(m, unit, 1)
           in2 == Input(m, unit, 2)
<1>1. /\ m.params \in [Parameter -> Value] /\ m.outs \in [DOMAIN Definitions[d] -> Value]
      /\ m.ran \in SUBSET Nat /\ m.bus \in Value
      /\ m = [params |-> m.params, outs |-> m.outs, ran |-> m.ran, bus |-> m.bus]
  BY DEF MemoryOf
<1>2. in1 \in Value /\ in2 \in Value
  BY <1>1, InputOK
<1>3. u \in Nat
  BY UnitFacts
<1>4. Level \in Parameter /\ Trigger \in Parameter /\ m.params[Level] \in Value /\ m.params[Trigger] \in Value
  BY <1>1 DEF Level, Trigger, Parameter
<1> DEFINE Does(a) ==
         /\ a \in MemoryOf(d) /\ a.ran = m.ran \cup {u}
         /\ \A k \in DOMAIN Definitions[d] : k # u => a.outs[k] = m.outs[k]
         /\ unit.kind \notin WriterKinds => a.bus = m.bus
         /\ unit.kind \in WriterKinds => a.outs = m.outs
         /\ unit.kind = "In" => a.outs[u] = m.bus
         /\ unit.kind = "ReplaceOut" => a.bus = in1
         /\ unit.kind # "TrigControl" => a.params = m.params
         /\ unit.kind = "TrigControl" => a.params[Trigger] = 0
<1> SUFFICES Does(after)
  OBVIOUS
<1> DEFINE Out(v) == [params |-> m.params, outs |-> [m.outs EXCEPT ![u] = v],
                      ran |-> m.ran \cup {u}, bus |-> m.bus]
           Bus(v) == [params |-> m.params, outs |-> m.outs, ran |-> m.ran \cup {u}, bus |-> v]
           Cleared == [params |-> [m.params EXCEPT ![Trigger] = 0],
                       outs |-> [m.outs EXCEPT ![u] = m.params[Trigger]],
                       ran |-> m.ran \cup {u} \cup {u}, bus |-> m.bus]
<1>5. ASSUME NEW v \in Value
      PROVE  /\ Out(v) \in MemoryOf(d) /\ Bus(v) \in MemoryOf(d) /\ Out(v).outs[u] = v
             /\ \A k \in DOMAIN Definitions[d] : k # u => Out(v).outs[k] = m.outs[k]
  BY <1>1, <1>3, <1>5 DEF MemoryOf
<1>6. ASSUME NEW v \in Value, unit.kind \notin WriterKinds \cup {"TrigControl"},
             unit.kind = "In" => v = m.bus, after = Out(v)
      PROVE  Does(after)
  <2>1. unit.kind \notin WriterKinds /\ unit.kind # "ReplaceOut" /\ unit.kind # "TrigControl"
    BY <1>6 DEF WriterKinds
  <2>2. Out(v) \in MemoryOf(d) /\ Out(v).outs[u] = v
        /\ \A k \in DOMAIN Definitions[d] : k # u => Out(v).outs[k] = m.outs[k]
    BY <1>5
  <2>3. after.params = m.params /\ after.bus = m.bus /\ after.ran = m.ran \cup {u}
    BY <1>6
  <2> HIDE DEF Out
  <2> QED
    BY <1>6, <2>1, <2>2, <2>3
<1>7. ASSUME NEW v \in Value, unit.kind \in WriterKinds, unit.kind = "ReplaceOut" => v = in1, after = Bus(v)
      PROVE  Does(after)
  <2>1. unit.kind # "In" /\ unit.kind # "TrigControl"
    BY <1>7 DEF WriterKinds
  <2>2. Bus(v) \in MemoryOf(d)
    BY <1>5
  <2> QED
    BY <1>7, <2>1, <2>2
<1> HIDE DEF in1, in2, Does
<1>8. CASE unit.kind = "Control"
  <2>1. after = Out(m.params[Level])
    BY <1>1, <1>8, Zenon DEF ProcessUnit
  <2> HIDE DEF Out
  <2> QED
    BY <1>4, <1>6, <1>8, <2>1 DEF WriterKinds
<1>9. CASE unit.kind = "TrigControl"
  <2>1. after = Cleared
    BY <1>1, <1>9 DEF ProcessUnit, ClearTrigger, CopyTrigger
  <2>2. Cleared \in MemoryOf(d) /\ Cleared.params[Trigger] = 0
    BY <1>1, <1>3, <1>4, Values DEF MemoryOf
  <2>3. /\ Cleared.ran = m.ran \cup {u} /\ Cleared.bus = m.bus
        /\ \A k \in DOMAIN Definitions[d] : k # u => Cleared.outs[k] = m.outs[k]
    BY <1>1
  <2> HIDE DEF Cleared
  <2> QED
    BY <1>9, <2>1, <2>2, <2>3 DEF Does, WriterKinds
<1>10. CASE unit.kind = "In"
  <2>1. after = Out(m.bus)
    BY <1>1, <1>10, Zenon DEF ProcessUnit
  <2> HIDE DEF Out
  <2> QED
    BY <1>1, <1>6, <1>10, <2>1 DEF WriterKinds
<1>11. CASE unit.kind = "Out"
  <2>1. after = Bus(Capped(m.bus + in1))
    BY <1>1, <1>11 DEF ProcessUnit, in1
  <2>2. Capped(m.bus + in1) \in Value
    <3>1. m.bus + in1 \in Int
      BY <1>1, <1>2, Values
    <3> QED
      BY <3>1, CappedOK
  <2> HIDE DEF Bus
  <2> QED
    BY <1>7, <1>11, <2>1, <2>2 DEF WriterKinds
<1>12. CASE unit.kind = "ReplaceOut"
  <2>1. after = Bus(in1)
    BY <1>1, <1>12 DEF ProcessUnit, in1
  <2> HIDE DEF Bus
  <2> QED
    BY <1>2, <1>7, <1>12, <2>1 DEF WriterKinds
<1>13. CASE unit.kind = "XOut"
  <2>1. after = Bus(Capped(Mix(m.bus, in1, in2)))
    BY <1>1, <1>13 DEF ProcessUnit, in1, in2
  <2>2. Capped(Mix(m.bus, in1, in2)) \in Value
    <3>1. Mix(m.bus, in1, in2) \in Int
      BY <1>1, <1>2, Values, MixOK
    <3> QED
      BY <3>1, CappedOK
  <2> HIDE DEF Bus
  <2> QED
    BY <1>7, <1>13, <2>1, <2>2 DEF WriterKinds
<1>14. CASE unit.kind = "sc"
  <2>1. after = Out(in1)
    BY <1>1, <1>14 DEF ProcessUnit, in1
  <2> HIDE DEF Out
  <2> QED
    BY <1>2, <1>6, <1>14, <2>1 DEF WriterKinds
<1>15. CASE unit.kind \notin {"Control", "TrigControl", "In", "Out", "ReplaceOut", "XOut", "sc"}
  <2>1. after = Out(0)
    BY <1>1, <1>15 DEF ProcessUnit
  <2> HIDE DEF Out
  <2> QED
    BY <1>6, <1>15, <2>1, Values DEF WriterKinds
<1> QED
  BY <1>8, <1>9, <1>10, <1>11, <1>12, <1>13, <1>14, <1>15

-----------------------------------------------------------------------------
(* The loop over the units of a rate *)

\* What a loop up to unit n leaves of a memory.
LoopLeaves(m, after, d, rate, n) ==
  /\ m.ran \cup (AtRate(d, rate) \cap 1..n) \subseteq after.ran
  /\ m.params[Trigger] = 0 \/ OfKind(d, "TrigControl") \cap AtRate(d, rate) \cap (1..n) # {}
       => after.params[Trigger] = 0

LEMMA RunUnitsLeaves ==
  ASSUME NEW d \in DOMAIN Definitions, NEW m \in MemoryOf(d), NEW rate,
         NEW last \in 0..Len(Definitions[d])
  PROVE  /\ RunUnits(m, d, rate, last) \in MemoryOf(d)
         /\ LoopLeaves(m, RunUnits(m, d, rate, last), d, rate, last)
<1> DEFINE X == MemoryOf(d)
           Turned(c, u) == IF u \in AtRate(d, rate) THEN ProcessUnit(c, Definitions[d][u], u) ELSE c
           turn == [u \in 1..last |-> [c \in X |-> Turned(c, u)]]
           Body(g) == [u \in 0..last |-> IF u = 0 THEN m ELSE Turned(g[u - 1], u)]
           after == CHOOSE g : g = Body(g)
<1>1. last \in Nat /\ 1..last \subseteq DOMAIN Definitions[d]
  BY UnitFacts
<1>2. \A u \in 1..last, c \in X : Turned(c, u) \in X
  BY <1>1, UnitDoes
<1>3. RunUnits(m, d, rate, last) = after[last]
  BY DEF RunUnits
<1> HIDE DEF Turned
<1>4. turn \in [1..last -> [X -> X]]
  BY <1>2
<1>5. PICK f \in Loops(X, m, last, turn) : TRUE
  <2> HIDE DEF turn
  <2> QED
    BY <1>1, <1>4, TurnsAdd
<1>6. f \in [0..last -> X] /\ f[0] = m /\ \A u \in 1..last : f[u] = turn[u][f[u - 1]]
  BY <1>5 DEF Loops
<1>7. \A u \in 1..last : f[u] = Turned(f[u - 1], u)
  <2> TAKE u \in 1..last
  <2>1. f[u - 1] \in X
    BY <1>1, <1>6
  <2> QED
    BY <1>6, <2>1
<1>8. f = Body(f)
  <2>1. f = [u \in 0..last |-> f[u]]
    BY <1>6
  <2>2. \A u \in 0..last : f[u] = IF u = 0 THEN m ELSE Turned(f[u - 1], u)
    <3> TAKE u \in 0..last
    <3>1. u # 0 => u \in 1..last
      BY <1>1
    <3> QED
      BY <1>6, <1>7, <3>1
  <2> QED
    BY <2>1, <2>2
<1>9. after = Body(after)
  BY <1>8
<1>10. after[0] = m /\ \A u \in 1..last : after[u] = Turned(after[u - 1], u)
  <2>1. PICK g : g = after
    OBVIOUS
  <2>2. after = Body(g)
    BY <1>9, <2>1
  <2> HIDE DEF after
  <2>3. \A u \in 0..last : after[u] = IF u = 0 THEN m ELSE Turned(g[u - 1], u)
    BY <2>2
  <2>4. \A u \in 1..last : u \in 0..last /\ u # 0
    BY <1>1
  <2> QED
    BY <1>1, <2>1, <2>3, <2>4
<1> HIDE DEF after, Body, turn
<1> DEFINE T == {u \in 0..last : after[u] \in X /\ LoopLeaves(m, after[u], d, rate, u)}
<1>11. 0 \in T
  BY <1>1, <1>10 DEF LoopLeaves
<1>12. ASSUME NEW u \in 1..last, u - 1 \in T
       PROVE  u \in T
  <2> PICK c \in X : c = after[u - 1]
    BY <1>12
  <2>1. LoopLeaves(m, c, d, rate, u - 1) /\ after[u] = Turned(c, u) /\ u \in DOMAIN Definitions[d]
    BY <1>1, <1>10, <1>12
  <2>2. \A S : S \cap 1..u \subseteq (S \cap 1..(u - 1)) \cup {u}
    BY <1>1
  <2>3. CASE u \in AtRate(d, rate)
    <3>1. after[u] = ProcessUnit(c, Definitions[d][u], u)
      BY <2>1, <2>3 DEF Turned
    <3>2. /\ after[u] \in X /\ after[u].ran = c.ran \cup {u}
          /\ Definitions[d][u].kind # "TrigControl" => after[u].params = c.params
          /\ Definitions[d][u].kind = "TrigControl" => after[u].params[Trigger] = 0
      BY <2>1, <3>1, UnitDoes
    <3>3. m.ran \cup (AtRate(d, rate) \cap 1..u) \subseteq after[u].ran
      BY <2>1, <2>2, <3>2 DEF LoopLeaves
    <3>4. m.params[Trigger] = 0 \/ OfKind(d, "TrigControl") \cap AtRate(d, rate) \cap (1..u) # {}
            => after[u].params[Trigger] = 0
      BY <2>1, <2>2, <3>2 DEF LoopLeaves, OfKind
    <3> QED
      BY <3>2, <3>3, <3>4 DEF LoopLeaves
  <2>4. CASE u \notin AtRate(d, rate)
    <3>1. after[u] = c
      BY <2>1, <2>4 DEF Turned
    <3> QED
      BY <2>1, <2>2, <2>4, <3>1 DEF LoopLeaves
  <2> QED
    BY <2>3, <2>4
<1> HIDE DEF T
<1>13. 0..last \subseteq T
  BY <1>1, <1>11, <1>12, EveryTurn
<1>14. last \in T
  BY <1>1, <1>13
<1> QED
  BY <1>3, <1>14 DEF T

LEMMA FreshOK ==
  ASSUME NEW d \in DOMAIN Definitions, bus \in Value
  PROVE  Fresh(d) \in MemoryOf(d) /\ Fresh(d).params[Trigger] = 0
BY Values DEF Fresh, MemoryOf, Parameter, Trigger

\* The constructor gets past a prefix of the units.
LEMMA LastScalarOK ==
  ASSUME NEW d \in DOMAIN Definitions
  PROVE  LastScalar(d) \in 0..Len(Definitions[d])
<1> DEFINE n == Len(Definitions[d])
           Ends(k) == /\ \A u \in 1..k : u \notin Throwing(d)
                      /\ k = Len(Definitions[d]) \/ k + 1 \in Throwing(d)
<1>1. n \in Nat /\ Throwing(d) \subseteq 1..n
  BY UnitFacts DEF Throwing, AtRate
<1>2. \E k \in 0..n : Ends(k)
  <2>1. CASE Throwing(d) = {}
    BY <1>1, <2>1
  <2>2. CASE Throwing(d) # {}
    <3>1. Throwing(d) \in SUBSET Nat
      BY <1>1
    <3>2. PICK k \in Throwing(d) : \A u \in Throwing(d) : k <= u
      BY <2>2, <3>1, LeastElement
    <3>3. k - 1 \in 0..n /\ (k - 1) + 1 = k /\ \A u \in 1..(k - 1) : u \notin Throwing(d)
      BY <1>1, <3>2
    <3>4. Ends(k - 1)
      BY <3>2, <3>3
    <3> QED
      BY <3>3, <3>4
  <2> QED
    BY <2>1, <2>2
<1>3. (CHOOSE k \in 0..n : Ends(k)) \in 0..n
  BY <1>2
<1> QED
  BY <1>1, <1>3 DEF LastScalar

-----------------------------------------------------------------------------
(* The invariant *)

Size(s) == Len(Units(s))

\* The walk of the tree meets live synths only, and each at most once.
OrderIsLive ==
  /\ order \in Seq(Synth)
  /\ \A i \in DOMAIN order : order[i] \in Live
  /\ \A i, j \in DOMAIN order : order[i] = order[j] => i = j

MemoriesOK ==
  /\ params \in [Synth -> [Parameter -> Value]]
  /\ outs \in [Synth -> Seq(Value)]
  /\ ran \in [Synth -> SUBSET Nat]
  /\ bus \in Value
  /\ \A s \in Live : synths[s].def \in DOMAIN Definitions /\ Memory(s) \in MemoryOf(synths[s].def)

PoolOK ==
  /\ current \in Live \cup {Nobody, Freed}
  /\ pulled \in [Synth -> {"idle", "locked", "unlocked"}]

\* The control thread is between cycles, or at a control unit of a synth, or
\* behind its last one.
CycleOK ==
  /\ cycle \in [position: Nat, unit: Nat, clearing: BOOLEAN]
  /\ cycle # Between =>
       /\ cycle.position \in DOMAIN order
       /\ cycle.unit \in 1..(Size(Here) + 1)
       /\ cycle.unit \in DOMAIN Units(Here) => Units(Here)[cycle.unit].rate = 1
  /\ cycle.clearing =>
       /\ cycle # Between /\ cycle.unit \in DOMAIN Units(Here)
       /\ Units(Here)[cycle.unit].kind = "TrigControl"

\* A control cycle clears the trigger.
Pulls(s) == OfKind(synths[s].def, "TrigControl") \cap AtRate(synths[s].def, 1) # {}

\* The parameter is as it was last set under the lock.
TriggersSet ==
  \A s \in Live : /\ Pulls(s) /\ pulled[s] = "idle" => params[s][Trigger] = 0
                  /\ pulled[s] = "locked" => params[s][Trigger] # 0

StateOK == KnownOK /\ OrderIsLive /\ MemoriesOK /\ PoolOK /\ CycleOK

UnitsInv == StateOK /\ UnitsRunFirst /\ MisusedByBadDefinition /\ TriggersSet /\ TriggersArriveOnce

-----------------------------------------------------------------------------
(* What the steps have in common *)

\* The synths have the units they had, in the same order.
SameUnits ==
  /\ order' = order
  /\ \A s \in Synth : synths'[s].def = synths[s].def /\ synths'[s].setup = synths[s].setup
  /\ Live' = Live

LEMMA LiveFacts ==
  ASSUME StateOK, NEW s \in Live
  PROVE  /\ s \in Synth /\ synths[s].def \in DOMAIN Definitions
         /\ Size(s) \in Nat /\ DOMAIN Units(s) = 1..Size(s)
         /\ Memory(s) \in MemoryOf(synths[s].def)
         /\ params[s] \in [Parameter -> Value] /\ outs[s] \in [DOMAIN Units(s) -> Value]
         /\ ran[s] \in SUBSET Nat
<1>1. s \in Synth /\ synths[s].def \in DOMAIN Definitions /\ Memory(s) \in MemoryOf(synths[s].def)
  BY DEF StateOK, MemoriesOK, Live
<1>2. Size(s) \in Nat /\ DOMAIN Units(s) = 1..Size(s)
  BY <1>1, UnitFacts DEF Size, Units
<1> QED
  BY <1>1, <1>2 DEF Memory, MemoryOf, Units

LEMMA HereFacts ==
  ASSUME StateOK, cycle # Between
  PROVE  Here \in Live /\ cycle.position \in DOMAIN order
BY DEF StateOK, CycleOK, OrderIsLive, Here

\* Where the control thread goes next.
LEMMA NextUnitOK ==
  ASSUME StateOK, NEW s \in Live, NEW u \in 0..Size(s), NEW n, n = NextUnit(s, u)
  PROVE  /\ n \in (u + 1)..(Size(s) + 1)
         /\ n = Size(s) + 1 \/ Units(s)[n].rate = 1
         /\ \A k \in (u + 1)..(n - 1) : Units(s)[k].rate # 1
<1> DEFINE Goes(m) == /\ m = Len(Units(s)) + 1 \/ Units(s)[m].rate = 1
                      /\ \A k \in (u + 1)..(m - 1) : Units(s)[k].rate # 1
           T == {m \in (u + 1)..(Size(s) + 1) : m = Size(s) + 1 \/ Units(s)[m].rate = 1}
<1>1. Size(s) \in Nat /\ u \in Nat
  BY LiveFacts
<1>2. PICK m \in T : \A k \in T : m <= k
  <2>1. T \in SUBSET Nat /\ Size(s) + 1 \in T
    BY <1>1
  <2> HIDE DEF T
  <2> QED
    BY <2>1, LeastElement
<1>3. Goes(m) /\ m \in (u + 1)..(Size(s) + 1)
  BY <1>1, <1>2 DEF Size
<1>4. n = CHOOSE k \in (u + 1)..(Size(s) + 1) : Goes(k)
  BY DEF NextUnit, Size
<1> HIDE DEF Goes, T
<1>5. n \in (u + 1)..(Size(s) + 1) /\ Goes(n)
  BY <1>3, <1>4
<1> QED
  BY <1>5 DEF Goes, Size

\* One synth's memory is replaced.
LEMMA KeepOK ==
  ASSUME MemoriesOK, NEW s \in Synth, NEW m,
         m.params \in [Parameter -> Value], m.outs \in Seq(Value), m.ran \in SUBSET Nat, m.bus \in Value,
         Keep(s, m)
  PROVE  /\ params' \in [Synth -> [Parameter -> Value]] /\ outs' \in [Synth -> Seq(Value)]
         /\ ran' \in [Synth -> SUBSET Nat] /\ bus' \in Value
         /\ params'[s] = m.params /\ outs'[s] = m.outs /\ ran'[s] = m.ran /\ bus' = m.bus
         /\ \A t \in Synth : t # s => params'[t] = params[t] /\ outs'[t] = outs[t] /\ ran'[t] = ran[t]
<1>1. /\ params' = [params EXCEPT ![s] = m.params] /\ outs' = [outs EXCEPT ![s] = m.outs]
      /\ ran' = [ran EXCEPT ![s] = m.ran] /\ bus' = m.bus
  BY DEF Keep
<1>2. /\ params \in [Synth -> [Parameter -> Value]] /\ outs \in [Synth -> Seq(Value)]
      /\ ran \in [Synth -> SUBSET Nat]
  BY DEF MemoriesOK
<1>3. params' \in [Synth -> [Parameter -> Value]] /\ params'[s] = m.params
      /\ \A t \in Synth : t # s => params'[t] = params[t]
  BY <1>1, <1>2
<1>4. outs' \in [Synth -> Seq(Value)] /\ outs'[s] = m.outs
      /\ \A t \in Synth : t # s => outs'[t] = outs[t]
  BY <1>1, <1>2
<1>5. ran' \in [Synth -> SUBSET Nat] /\ ran'[s] = m.ran
      /\ \A t \in Synth : t # s => ran'[t] = ran[t]
  BY <1>1, <1>2
<1> QED
  BY <1>1, <1>3, <1>4, <1>5

LEMMA OutsAreSequences ==
  ASSUME NEW d \in DOMAIN Definitions, NEW o \in [DOMAIN Definitions[d] -> Value]
  PROVE  o \in Seq(Value)
<1>1. o \in [1..Len(Definitions[d]) -> Value] /\ Len(Definitions[d]) \in Nat
  BY UnitFacts
<1> QED
  BY <1>1

\* A memory that fits its definition is put back.
LEMMA KeepMemory ==
  ASSUME StateOK, NEW s \in Synth, NEW d \in DOMAIN Definitions, NEW m \in MemoryOf(d), Keep(s, m),
         \A t \in Live' \ {s} : t \in Live /\ synths'[t].def = synths[t].def,
         s \in Live' => synths'[s].def = d
  PROVE  /\ MemoriesOK'
         /\ params'[s] = m.params /\ outs'[s] = m.outs /\ ran'[s] = m.ran /\ bus' = m.bus
         /\ \A t \in Synth : t # s => params'[t] = params[t] /\ outs'[t] = outs[t] /\ ran'[t] = ran[t]
<1>1. /\ m.params \in [Parameter -> Value] /\ m.outs \in [DOMAIN Definitions[d] -> Value]
      /\ m.ran \in SUBSET Nat /\ m.bus \in Value
  BY DEF MemoryOf
<1>2. m.outs \in Seq(Value)
  BY <1>1, OutsAreSequences
<1>3. /\ params' \in [Synth -> [Parameter -> Value]] /\ outs' \in [Synth -> Seq(Value)]
      /\ ran' \in [Synth -> SUBSET Nat] /\ bus' \in Value
      /\ params'[s] = m.params /\ outs'[s] = m.outs /\ ran'[s] = m.ran /\ bus' = m.bus
      /\ \A t \in Synth : t # s => params'[t] = params[t] /\ outs'[t] = outs[t] /\ ran'[t] = ran[t]
  BY <1>1, <1>2, KeepOK DEF StateOK
<1>4. \A t \in Live' : synths'[t].def \in DOMAIN Definitions /\ Memory(t)' \in MemoryOf(synths'[t].def)
  <2> TAKE t \in Live'
  <2>1. Memory(t)' = [params |-> params'[t], outs |-> outs'[t], ran |-> ran'[t], bus |-> bus']
    BY DEF Memory
  <2>2. CASE t = s
    BY <1>1, <1>3, <2>1, <2>2 DEF MemoryOf
  <2>3. CASE t # s
    <3>1. t \in Live /\ synths'[t].def = synths[t].def
      BY <2>3
    <3>2. /\ t \in Synth /\ synths[t].def \in DOMAIN Definitions /\ params[t] \in [Parameter -> Value]
          /\ outs[t] \in [DOMAIN Definitions[synths[t].def] -> Value] /\ ran[t] \in SUBSET Nat
      BY <3>1, LiveFacts DEF Units
    <3> QED
      BY <1>3, <2>1, <2>3, <3>1, <3>2 DEF MemoryOf
  <2> QED
    BY <2>2, <2>3
<1> QED
  BY <1>3, <1>4 DEF MemoriesOK

LEMMA SameUnitsKeep ==
  ASSUME StateOK, SameUnits
  PROVE  /\ OrderIsLive'
         /\ \A t \in Live : /\ t \in Live' /\ t \in Synth
                            /\ synths'[t].def = synths[t].def /\ synths'[t].setup = synths[t].setup
                            /\ Units(t)' = Units(t) /\ Size(t)' = Size(t)
                            /\ Pulls(t)' = Pulls(t)
<1>1. \A t \in Live : /\ t \in Live' /\ t \in Synth
                      /\ synths'[t].def = synths[t].def /\ synths'[t].setup = synths[t].setup
  BY DEF SameUnits, Live
<1>2. \A t \in Live : Units(t)' = Units(t) /\ Size(t)' = Size(t) /\ Pulls(t)' = Pulls(t)
  BY <1>1 DEF Units, Size, Pulls, OfKind, AtRate
<1>3. OrderIsLive'
  <2>1. OrderIsLive /\ order' = order /\ Live' = Live
    BY DEF StateOK, SameUnits
  <2> QED
    BY <2>1 DEF OrderIsLive
<1> QED
  BY <1>1, <1>2, <1>3

\* A mark changes nothing but what it marks.
LEMMA MarkSameUnits ==
  ASSUME StateOK, NEW by, NEW rate, synths' = Mark(synths, current, by, rate), order' = order
  PROVE  KnownOK' /\ SameUnits
<1>1. PICK how \in {"own", "scalar", "other"} :
         how = IF current = by THEN "own" ELSE IF rate = 0 THEN "scalar" ELSE "other"
  OBVIOUS
<1>2. synths' = IF current \in Synth THEN [synths EXCEPT ![current].done = @ \cup {how}] ELSE synths
  BY <1>1 DEF Mark
<1>3. synths \in [Synth -> SynthRecord]
  BY DEF StateOK, KnownOK
<1>4. synths' \in [Synth -> SynthRecord]
  BY <1>2, <1>3 DEF SynthRecord
<1>5. \A t \in Synth : synths'[t].def = synths[t].def /\ synths'[t].setup = synths[t].setup
  BY <1>2, <1>3 DEF SynthRecord
<1>6. current \in Synth => current \in Live
  BY BoundAssumption DEF StateOK, PoolOK, Nobody, Freed, Synth
<1>7. \A t \in Live : synths'[t] # NoSynth
  <2>1. \A t \in Live : synths[t].def # NoDefinition /\ t \in Synth
    BY LiveFacts, DefinitionAssumption
  <2> QED
    BY <1>5, <2>1 DEF NoSynth
<1>8. \A t \in Synth \ Live : synths'[t] = synths[t]
  BY <1>2, <1>3, <1>6
<1>9. Live' = Live
  BY <1>7, <1>8 DEF Live
<1> QED
  BY <1>4, <1>5, <1>9 DEF KnownOK, SameUnits

-----------------------------------------------------------------------------
(* The control cycle *)

\* Whatever the control thread does, units that have run have run.
RunOn ==
  /\ SameUnits /\ \A t \in Live : ran[t] \subseteq ran'[t]
  /\ misused' = misused \/ MisusedByBadDefinition'

LEMMA RunOnKeeps ==
  ASSUME UnitsInv, RunOn
  PROVE  UnitsRunFirst' /\ MisusedByBadDefinition'
<1>1. UnitsRunFirst'
  <2>1. \A t \in Live' : t \in Live /\ synths'[t].def = synths[t].def /\ synths'[t].setup = synths[t].setup
                         /\ ran[t] \subseteq ran'[t]
    BY SameUnitsKeep DEF UnitsInv, RunOn, SameUnits
  <2>2. UnitsRunFirst
    BY DEF UnitsInv
  <2> QED
    BY <2>1, <2>2 DEF UnitsRunFirst, AtRate
<1>2. MisusedByBadDefinition'
  BY DEF UnitsInv, RunOn, MisusedByBadDefinition
<1> QED
  BY <1>1, <1>2

\* It goes on to the next unit of the synth.
LEMMA AdvancedOK ==
  ASSUME StateOK, SameUnits, cycle # Between, cycle.unit \in DOMAIN Units(Here), cycle' = Advanced
  PROVE  /\ CycleOK' /\ cycle'.clearing = FALSE /\ cycle'.position = cycle.position
         /\ cycle'.unit = NextUnit(Here, cycle.unit) /\ Here' = Here
<1>1. /\ cycle \in [position: Nat, unit: Nat, clearing: BOOLEAN] /\ Here \in Live
      /\ cycle.position \in DOMAIN order
  BY HereFacts DEF StateOK, CycleOK
<1>2. PICK n : n = NextUnit(Here, cycle.unit)
  OBVIOUS
<1>3. Size(Here) \in Nat /\ cycle.unit \in 0..Size(Here) /\ DOMAIN Units(Here) = 1..Size(Here)
  BY <1>1, LiveFacts
<1>4. n \in (cycle.unit + 1)..(Size(Here) + 1) /\ (n = Size(Here) + 1 \/ Units(Here)[n].rate = 1)
  BY <1>1, <1>2, <1>3, NextUnitOK
<1>5. cycle' = [cycle EXCEPT !.clearing = FALSE, !.unit = n]
  BY <1>2 DEF Advanced
<1>6. n \in Nat /\ n \in 1..(Size(Here) + 1)
  BY <1>3, <1>4
<1>7. /\ cycle' \in [position: Nat, unit: Nat, clearing: BOOLEAN] /\ cycle'.unit = n
      /\ cycle'.position = cycle.position /\ cycle'.clearing = FALSE
  BY <1>1, <1>5, <1>6
<1>8. Here' = Here /\ order' = order
  BY <1>7 DEF Here, SameUnits
<1>9. Units(Here)' = Units(Here) /\ Size(Here)' = Size(Here)
  <2>1. PICK s \in Live : s = Here
    BY <1>1
  <2>2. synths'[s].def = synths[s].def
    BY <2>1, SameUnitsKeep
  <2> QED
    BY <1>8, <2>1, <2>2 DEF Units, Size
<1>10. CycleOK'
  <2>1. n \in DOMAIN Units(Here) => Units(Here)[n].rate = 1
    BY <1>3, <1>4
  <2> QED
    BY <1>1, <1>6, <1>7, <1>8, <1>9, <2>1 DEF CycleOK
<1> QED
  BY <1>2, <1>7, <1>8, <1>10

LEMMA PoolSame ==
  ASSUME StateOK, SameUnits, UNCHANGED <<current, pulled>>
  PROVE  PoolOK'
BY DEF StateOK, PoolOK, SameUnits

LEMMA UnitKeeps ==
  ASSUME UnitsInv, C_Unit
  PROVE  UnitsInv'
<1> PICK s, u, d, unit : s = Here /\ u = cycle.unit /\ d = synths[s].def /\ unit = Units(s)[u]
  OBVIOUS
<1>1. /\ cycle # Between /\ u \in DOMAIN Units(s) /\ unit.kind \in Kinds \ {"TrigControl"}
      /\ Keep(s, ProcessUnit(Memory(s), unit, u))
      /\ synths' = synths \/ synths' = Mark(synths, current, s, 1)
      /\ cycle' = Advanced /\ UNCHANGED <<order, current, pulled, misused>>
  BY DEF C_Unit, Runs
<1>2. /\ StateOK /\ s \in Live /\ s \in Synth /\ d \in DOMAIN Definitions /\ Memory(s) \in MemoryOf(d)
      /\ unit = Definitions[d][u] /\ u \in DOMAIN Definitions[d]
  BY <1>1, HereFacts, LiveFacts DEF UnitsInv, Units
<1>3. KnownOK' /\ SameUnits
  <2>1. CASE synths' = synths
    BY <1>1, <2>1 DEF UnitsInv, StateOK, KnownOK, SameUnits, Live
  <2>2. CASE synths' = Mark(synths, current, s, 1)
    BY <1>1, <1>2, <2>2, MarkSameUnits
  <2> QED
    BY <1>1, <2>1, <2>2
<1>4. PICK m : m = ProcessUnit(Memory(s), unit, u)
  OBVIOUS
<1>5. m \in MemoryOf(d) /\ m.ran = ran[s] \cup {u} /\ m.params = params[s]
  BY <1>1, <1>2, <1>4, UnitDoes DEF Memory
<1>6. /\ MemoriesOK' /\ params'[s] = m.params /\ ran'[s] = m.ran
      /\ \A t \in Synth : t # s => params'[t] = params[t] /\ outs'[t] = outs[t] /\ ran'[t] = ran[t]
  BY <1>1, <1>2, <1>3, <1>4, <1>5, KeepMemory, SameUnitsKeep DEF SameUnits
<1>7. CycleOK' /\ cycle'.clearing = FALSE
  BY <1>1, <1>2, <1>3, AdvancedOK
<1>8. StateOK'
  BY <1>1, <1>2, <1>3, <1>6, <1>7, SameUnitsKeep, PoolSame DEF StateOK
<1>9. UnitsRunFirst' /\ MisusedByBadDefinition'
  <2>1. RunOn
    BY <1>1, <1>3, <1>5, <1>6 DEF RunOn, Live
  <2> QED
    BY <2>1, RunOnKeeps
<1>10. TriggersSet'
  <2>1. \A t \in Live' : t \in Live /\ params'[t] = params[t] /\ pulled'[t] = pulled[t] /\ Pulls(t)' = Pulls(t)
    BY <1>1, <1>2, <1>3, <1>5, <1>6, SameUnitsKeep DEF SameUnits
  <2>2. TriggersSet
    BY DEF UnitsInv
  <2> QED
    BY <2>1, <2>2 DEF TriggersSet
<1>11. TriggersArriveOnce'
  BY <1>7 DEF TriggersArriveOnce
<1> QED
  BY <1>8, <1>9, <1>10, <1>11 DEF UnitsInv

LEMMA CopyTriggerKeeps ==
  ASSUME UnitsInv, C_CopyTrigger
  PROVE  UnitsInv'
<1> PICK s, u, d, unit : s = Here /\ u = cycle.unit /\ d = synths[s].def /\ unit = Units(s)[u]
  OBVIOUS
<1>1. /\ cycle # Between /\ u \in DOMAIN Units(s) /\ unit.kind = "TrigControl"
      /\ Keep(s, CopyTrigger(Memory(s), u)) /\ cycle' = [cycle EXCEPT !.clearing = TRUE]
      /\ UNCHANGED <<synths, order, current, pulled, misused>>
  BY DEF C_CopyTrigger, Runs
<1>2. /\ StateOK /\ s \in Live /\ s \in Synth /\ d \in DOMAIN Definitions /\ Memory(s) \in MemoryOf(d)
      /\ unit = Definitions[d][u] /\ u \in DOMAIN Definitions[d] /\ u \in Nat
  BY <1>1, HereFacts, LiveFacts, UnitFacts DEF UnitsInv, Units
<1>3. KnownOK' /\ SameUnits
  BY <1>1 DEF UnitsInv, StateOK, KnownOK, SameUnits, Live
<1>4. PICK m : m = CopyTrigger(Memory(s), u)
  OBVIOUS
<1>5. /\ m \in MemoryOf(d) /\ m.ran = ran[s] \cup {u} /\ m.params = params[s]
      /\ m.outs[u] = params[s][Trigger]
  BY <1>2, <1>4 DEF CopyTrigger, Memory, MemoryOf, Parameter, Trigger
<1>6. /\ MemoriesOK' /\ params'[s] = m.params /\ ran'[s] = m.ran /\ outs'[s] = m.outs
      /\ \A t \in Synth : t # s => params'[t] = params[t] /\ outs'[t] = outs[t] /\ ran'[t] = ran[t]
  BY <1>1, <1>2, <1>3, <1>4, <1>5, KeepMemory, SameUnitsKeep DEF SameUnits
<1>7. /\ cycle \in [position: Nat, unit: Nat, clearing: BOOLEAN]
      /\ cycle' \in [position: Nat, unit: Nat, clearing: BOOLEAN] /\ cycle'.clearing = TRUE
      /\ cycle'.position = cycle.position /\ cycle'.unit = u /\ Here' = s
  <2>1. cycle \in [position: Nat, unit: Nat, clearing: BOOLEAN]
    BY <1>2 DEF StateOK, CycleOK
  <2> QED
    BY <1>1, <2>1 DEF Here
<1>8. Units(s)' = Units(s) /\ Size(s)' = Size(s)
  BY <1>2, <1>3, SameUnitsKeep
<1>9. CycleOK'
  <2>1. cycle' # Between
    BY <1>7 DEF Between
  <2>2. cycle.position \in DOMAIN order /\ u \in 1..(Size(s) + 1) /\ unit.rate = 1
    BY <1>1, <1>2 DEF StateOK, CycleOK
  <2> QED
    BY <1>1, <1>7, <1>8, <2>1, <2>2 DEF CycleOK
<1>10. StateOK'
  BY <1>1, <1>2, <1>3, <1>6, <1>9, SameUnitsKeep, PoolSame DEF StateOK
<1>11. UnitsRunFirst' /\ MisusedByBadDefinition'
  <2>1. RunOn
    BY <1>1, <1>3, <1>5, <1>6 DEF RunOn, Live
  <2> QED
    BY <2>1, RunOnKeeps
<1>12. TriggersSet'
  <2>1. \A t \in Live' : t \in Live /\ params'[t] = params[t] /\ pulled'[t] = pulled[t] /\ Pulls(t)' = Pulls(t)
    BY <1>1, <1>2, <1>3, <1>5, <1>6, SameUnitsKeep DEF SameUnits
  <2>2. TriggersSet
    BY DEF UnitsInv
  <2> QED
    BY <2>1, <2>2 DEF TriggersSet
<1>13. TriggersArriveOnce'
  <2>1. Pulls(s)
    BY <1>1, <1>2 DEF Pulls, OfKind, AtRate, StateOK, CycleOK
  <2>2. (pulled[s] = "idle" => params[s][Trigger] = 0) /\ (pulled[s] = "locked" => params[s][Trigger] # 0)
    BY <1>2, <2>1 DEF UnitsInv, TriggersSet
  <2> QED
    BY <1>1, <1>5, <1>6, <1>7, <2>2 DEF TriggersArriveOnce
<1> QED
  BY <1>10, <1>11, <1>12, <1>13 DEF UnitsInv

LEMMA ClearTriggerKeeps ==
  ASSUME UnitsInv, C_ClearTrigger
  PROVE  UnitsInv'
<1> PICK s, u, d : s = Here /\ u = cycle.unit /\ d = synths[s].def
  OBVIOUS
<1>1. /\ cycle.clearing /\ Keep(s, ClearTrigger(Memory(s))) /\ pulled' = [pulled EXCEPT ![s] = "idle"]
      /\ cycle' = Advanced /\ UNCHANGED <<synths, order, current, misused>>
  BY DEF C_ClearTrigger
<1>2. StateOK /\ cycle # Between /\ u \in DOMAIN Units(s)
  BY <1>1 DEF UnitsInv, StateOK, CycleOK
<1>3. s \in Live /\ s \in Synth /\ d \in DOMAIN Definitions /\ Memory(s) \in MemoryOf(d)
  BY <1>2, HereFacts, LiveFacts
<1>4. KnownOK' /\ SameUnits
  BY <1>1 DEF UnitsInv, StateOK, KnownOK, SameUnits, Live
<1>5. PICK m : m = ClearTrigger(Memory(s))
  OBVIOUS
<1>6. /\ m \in MemoryOf(d) /\ m.ran = ran[s] /\ m.params[Trigger] = 0 /\ m.outs = outs[s]
  BY <1>3, <1>5, Values DEF ClearTrigger, Memory, MemoryOf, Parameter, Trigger
<1>7. /\ MemoriesOK' /\ params'[s] = m.params /\ ran'[s] = m.ran
      /\ \A t \in Synth : t # s => params'[t] = params[t] /\ outs'[t] = outs[t] /\ ran'[t] = ran[t]
  BY <1>1, <1>2, <1>3, <1>4, <1>5, <1>6, KeepMemory, SameUnitsKeep DEF SameUnits
<1>8. CycleOK' /\ cycle'.clearing = FALSE
  BY <1>1, <1>2, <1>4, AdvancedOK
<1>9. /\ pulled' \in [Synth -> {"idle", "locked", "unlocked"}] /\ pulled'[s] = "idle"
      /\ \A t \in Synth : t # s => pulled'[t] = pulled[t]
  BY <1>1, <1>2, <1>3 DEF StateOK, PoolOK
<1>10. StateOK'
  <2>1. PoolOK'
    BY <1>1, <1>2, <1>4, <1>9 DEF StateOK, PoolOK, SameUnits
  <2> QED
    BY <1>2, <1>4, <1>7, <1>8, <2>1, SameUnitsKeep DEF StateOK
<1>11. UnitsRunFirst' /\ MisusedByBadDefinition'
  <2>1. RunOn
    BY <1>1, <1>4, <1>6, <1>7 DEF RunOn, Live
  <2> QED
    BY <2>1, RunOnKeeps
<1>12. TriggersSet'
  <2>1. \A t \in Live' : /\ t \in Live /\ t \in Synth /\ Pulls(t)' = Pulls(t)
                         /\ t # s => params'[t] = params[t] /\ pulled'[t] = pulled[t]
    BY <1>2, <1>4, <1>7, <1>9, SameUnitsKeep DEF SameUnits
  <2>2. TriggersSet
    BY DEF UnitsInv
  <2> QED
    BY <1>6, <1>7, <1>9, <2>1, <2>2 DEF TriggersSet
<1>13. TriggersArriveOnce'
  BY <1>8 DEF TriggersArriveOnce
<1> QED
  BY <1>10, <1>11, <1>12, <1>13 DEF UnitsInv

\* It goes on to the next synth.
LEMMA EnterKeeps ==
  ASSUME UnitsInv, C_Enter
  PROVE  UnitsInv'
<1> PICK i, s : i = cycle.position + 1 /\ s = order[i]
  OBVIOUS
<1>1. /\ cycle.position < Len(order) /\ current' = s
      /\ cycle' = [Between EXCEPT !.position = i, !.unit = NextUnit(s, 0)]
      /\ UNCHANGED <<synths, order, pulled, misused, params, outs, ran, bus>>
  BY DEF C_Enter, signals
<1>2. StateOK /\ cycle.position \in Nat
  BY DEF UnitsInv, StateOK, CycleOK
<1>3. i \in DOMAIN order /\ i \in Nat
  <2>1. order \in Seq(Synth)
    BY <1>2 DEF StateOK, OrderIsLive
  <2> QED
    BY <1>1, <1>2, <2>1
<1>4. s \in Live
  BY <1>2, <1>3 DEF StateOK, OrderIsLive
<1>5. KnownOK' /\ SameUnits
  BY <1>1 DEF UnitsInv, StateOK, KnownOK, SameUnits, Live
<1>6. MemoriesOK'
  <2>1. \A t \in Live : Memory(t)' = Memory(t)
    BY <1>1 DEF Memory
  <2> QED
    BY <1>1, <1>2, <1>5, <2>1 DEF StateOK, MemoriesOK, SameUnits
<1>7. PICK n : n = NextUnit(s, 0)
  OBVIOUS
<1>8. Size(s) \in Nat /\ DOMAIN Units(s) = 1..Size(s)
  BY <1>2, <1>4, LiveFacts
<1>9. n \in 1..(Size(s) + 1) /\ (n = Size(s) + 1 \/ Units(s)[n].rate = 1) /\ n \in Nat
  <2>1. 0 \in 0..Size(s)
    BY <1>8
  <2>2. n \in (0 + 1)..(Size(s) + 1) /\ (n = Size(s) + 1 \/ Units(s)[n].rate = 1)
    BY <1>2, <1>4, <1>7, <2>1, NextUnitOK
  <2> QED
    BY <1>8, <2>2
<1>10. /\ cycle' \in [position: Nat, unit: Nat, clearing: BOOLEAN] /\ cycle'.unit = n
       /\ cycle'.position = i /\ cycle'.clearing = FALSE /\ Here' = s
  BY <1>1, <1>3, <1>7, <1>9 DEF Between, Here
<1>11. CycleOK'
  <2>1. Units(s)' = Units(s) /\ Size(s)' = Size(s)
    BY <1>2, <1>4, <1>5, SameUnitsKeep
  <2> QED
    BY <1>1, <1>3, <1>8, <1>9, <1>10, <2>1 DEF CycleOK
<1>12. StateOK'
  <2>1. PoolOK'
    BY <1>1, <1>2, <1>4, <1>5 DEF StateOK, PoolOK, SameUnits
  <2> QED
    BY <1>2, <1>5, <1>6, <1>11, <2>1, SameUnitsKeep DEF StateOK
<1>13. UnitsRunFirst' /\ MisusedByBadDefinition'
  <2>1. RunOn
    BY <1>1, <1>5 DEF RunOn
  <2> QED
    BY <2>1, RunOnKeeps
<1>14. TriggersSet' /\ TriggersArriveOnce'
  <2>1. \A t \in Live' : t \in Live /\ Pulls(t)' = Pulls(t)
    BY <1>2, <1>5, SameUnitsKeep DEF SameUnits
  <2> QED
    BY <1>1, <1>10, <2>1 DEF UnitsInv, TriggersSet, TriggersArriveOnce
<1> QED
  BY <1>12, <1>13, <1>14 DEF UnitsInv

\* Nothing happens, or the cycle ends, or the bus is set.
LEMMA BusKeeps ==
  ASSUME UnitsInv, bus' \in Value, cycle' = cycle \/ cycle' = Between, KnownOK', SameUnits,
         misused' = misused \/ MisusedByBadDefinition',
         UNCHANGED <<params, outs, ran, current, pulled>>
  PROVE  UnitsInv'
<1>1. KnownOK' /\ SameUnits /\ StateOK
  BY DEF UnitsInv
<1>2. MemoriesOK'
  <2>1. ASSUME NEW t \in Live
        PROVE  Memory(t)' \in MemoryOf(synths[t].def)
    <3>1. /\ params[t] \in [Parameter -> Value] /\ outs[t] \in [DOMAIN Definitions[synths[t].def] -> Value]
          /\ ran[t] \in SUBSET Nat
      BY <1>1, LiveFacts DEF Units
    <3>2. Memory(t)' = [params |-> params[t], outs |-> outs[t], ran |-> ran[t], bus |-> bus']
      BY DEF Memory
    <3> QED
      BY <3>1, <3>2 DEF MemoryOf
  <2>2. \A t \in Live' : t \in Live /\ synths'[t].def = synths[t].def /\ synths[t].def \in DOMAIN Definitions
    BY <1>1, SameUnitsKeep, LiveFacts DEF SameUnits
  <2>3. \A t \in Live' : synths'[t].def \in DOMAIN Definitions /\ Memory(t)' \in MemoryOf(synths'[t].def)
    BY <2>1, <2>2
  <2>4. /\ params' \in [Synth -> [Parameter -> Value]] /\ outs' \in [Synth -> Seq(Value)]
        /\ ran' \in [Synth -> SUBSET Nat] /\ bus' \in Value
    BY <1>1 DEF StateOK, MemoriesOK
  <2> QED
    BY <2>3, <2>4 DEF MemoriesOK
<1>3. CycleOK' /\ (cycle'.clearing => cycle' = cycle)
  <2>1. CASE cycle' = Between
    BY <2>1 DEF CycleOK, Between
  <2>2. CASE cycle' = cycle
    <3>1. Here' = Here /\ order' = order
      BY <1>1, <2>2 DEF Here, SameUnits
    <3>2. cycle # Between => Units(Here)' = Units(Here) /\ Size(Here)' = Size(Here)
      <4> SUFFICES ASSUME cycle # Between PROVE Units(Here)' = Units(Here) /\ Size(Here)' = Size(Here)
        OBVIOUS
      <4>1. PICK s \in Live : s = Here
        BY <1>1, HereFacts
      <4>2. synths'[s].def = synths[s].def
        BY <1>1, <4>1, SameUnitsKeep
      <4> QED
        BY <3>1, <4>1, <4>2 DEF Units, Size
    <3> QED
      BY <1>1, <2>2, <3>1, <3>2 DEF StateOK, CycleOK
  <2> QED
    BY <2>1, <2>2
<1>4. StateOK'
  BY <1>1, <1>2, <1>3, SameUnitsKeep, PoolSame DEF StateOK
<1>5. UnitsRunFirst' /\ MisusedByBadDefinition'
  <2>1. RunOn
    BY <1>1 DEF RunOn
  <2> QED
    BY <2>1, RunOnKeeps
<1>6. TriggersSet' /\ TriggersArriveOnce'
  <2>1. \A t \in Live' : t \in Live /\ Pulls(t)' = Pulls(t)
    BY <1>1, SameUnitsKeep DEF SameUnits
  <2>2. TriggersSet'
    BY <2>1 DEF UnitsInv, TriggersSet
  <2>3. TriggersArriveOnce'
    BY <1>1, <1>3 DEF UnitsInv, TriggersArriveOnce, Here, SameUnits
  <2> QED
    BY <2>2, <2>3
<1> QED
  BY <1>4, <1>5, <1>6 DEF UnitsInv

-----------------------------------------------------------------------------
(* The messages *)

\* A parameter is set, between the cycles unless it is set without the lock.
LEMMA SetKeeps ==
  ASSUME UnitsInv, NEW s \in Live, NEW i \in Parameter, NEW v \in Value, NEW how, Set(s, i, v, how),
         how = "unlocked" \/ (cycle = Between /\ how = IF v = 0 THEN "idle" ELSE "locked"),
         cycle' = cycle
  PROVE  UnitsInv'
<1>1. /\ params' = [params EXCEPT ![s][i] = v]
      /\ pulled' = IF i = Level THEN pulled ELSE [pulled EXCEPT ![s] = how]
      /\ UNCHANGED <<synths, order, outs, ran, bus, current, cycle, misused>>
  BY DEF Set
<1>2. KnownOK' /\ SameUnits /\ StateOK /\ s \in Synth
  BY <1>1 DEF UnitsInv, StateOK, KnownOK, SameUnits, Live
<1>3. /\ params' \in [Synth -> [Parameter -> Value]] /\ params'[s][i] = v
      /\ \A j \in Parameter : j # i => params'[s][j] = params[s][j]
      /\ \A t \in Synth : t # s => params'[t] = params[t]
  BY <1>1, <1>2 DEF StateOK, MemoriesOK
<1>4. MemoriesOK'
  <2>1. ASSUME NEW t \in Live
        PROVE  Memory(t)' \in MemoryOf(synths[t].def)
    <3>1. /\ params'[t] \in [Parameter -> Value] /\ outs[t] \in [DOMAIN Definitions[synths[t].def] -> Value]
          /\ ran[t] \in SUBSET Nat /\ bus \in Value
      BY <1>2, <1>3, LiveFacts DEF Units, StateOK, MemoriesOK, Live
    <3>2. Memory(t)' = [params |-> params'[t], outs |-> outs[t], ran |-> ran[t], bus |-> bus]
      BY <1>1 DEF Memory
    <3> QED
      BY <3>1, <3>2 DEF MemoryOf
  <2> QED
    BY <1>1, <1>2, <1>3, <2>1 DEF StateOK, MemoriesOK, SameUnits
<1>5. CycleOK' /\ Here' = Here
  <2>1. Here' = Here
    BY <1>1 DEF Here
  <2>2. Units(Here)' = Units(Here) /\ Size(Here)' = Size(Here)
    BY <1>1, <2>1 DEF Units, Size
  <2> QED
    BY <1>1, <1>2, <2>1, <2>2 DEF StateOK, CycleOK
<1>6. /\ pulled' \in [Synth -> {"idle", "locked", "unlocked"}]
      /\ i = Level => pulled' = pulled
      /\ i # Level => pulled'[s] = how
      /\ \A t \in Synth : t # s => pulled'[t] = pulled[t]
  <2>1. how \in {"idle", "locked", "unlocked"}
    OBVIOUS
  <2>2. pulled \in [Synth -> {"idle", "locked", "unlocked"}]
    BY <1>2 DEF StateOK, PoolOK
  <2> QED
    BY <1>1, <1>2, <2>1, <2>2
<1>7. StateOK'
  <2>1. PoolOK'
    BY <1>1, <1>2, <1>6 DEF StateOK, PoolOK, SameUnits
  <2> QED
    BY <1>2, <1>4, <1>5, <2>1, SameUnitsKeep DEF StateOK
<1>8. UnitsRunFirst' /\ MisusedByBadDefinition'
  <2>1. RunOn
    BY <1>1, <1>2 DEF RunOn
  <2> QED
    BY <2>1, RunOnKeeps
<1>9. i # Level => i = Trigger
  BY DEF Parameter
<1>10. Level # Trigger /\ Trigger \in Parameter
  BY DEF Level, Trigger, Parameter
<1>11. TriggersSet'
  <2> SUFFICES ASSUME NEW t \in Live
               PROVE  /\ Pulls(t) /\ pulled'[t] = "idle" => params'[t][Trigger] = 0
                      /\ pulled'[t] = "locked" => params'[t][Trigger] # 0
    BY <1>2, SameUnitsKeep DEF TriggersSet, SameUnits
  <2>1. /\ Pulls(t) /\ pulled[t] = "idle" => params[t][Trigger] = 0
        /\ pulled[t] = "locked" => params[t][Trigger] # 0
    BY DEF UnitsInv, TriggersSet
  <2>2. CASE t # s \/ i = Level
    <3>1. pulled'[t] = pulled[t] /\ params'[t][Trigger] = params[t][Trigger]
      BY <1>3, <1>6, <1>10, <2>2 DEF Live
    <3> QED
      BY <2>1, <3>1
  <2>3. CASE t = s /\ i = Trigger
    BY <1>3, <1>6, <1>10, <2>3
  <2> QED
    BY <1>9, <2>2, <2>3
<1>12. TriggersArriveOnce'
  <2> SUFFICES ASSUME cycle.clearing PROVE TriggersArriveOnce'
    BY <1>1 DEF TriggersArriveOnce
  <2>1. how = "unlocked" /\ Here \in Live
    BY <1>2, HereFacts DEF Between, StateOK, CycleOK
  <2>2. pulled'[Here] = pulled[Here] \/ pulled'[Here] = "unlocked"
    BY <1>6, <2>1 DEF Live
  <2> QED
    BY <1>1, <1>5, <2>2 DEF UnitsInv, TriggersArriveOnce
<1> QED
  BY <1>7, <1>8, <1>11, <1>12 DEF UnitsInv

\* Its wrappers have run, unless the definition or /s_new was at fault.
LEMMA FreeKeeps ==
  ASSUME UnitsInv, n_free
  PROVE  UnitsInv'
<1>0. PICK s \in Live :
      /\ synths' = [synths EXCEPT ![s] = NoSynth]
      /\ Leaves(s)
      /\ Keep(s, [params |-> [i \in Parameter |-> 0], outs |-> <<>>, ran |-> {}, bus |-> bus])
      /\ pulled' = [pulled EXCEPT ![s] = "idle"]
      /\ current' = IF current = s THEN Freed ELSE current
      /\ misused' = IF Unconstructed(DOMAIN Units(s), synths[s].def, Memory(s)) THEN misused
                    ELSE <<"unit", IF OfKind(synths[s].def, "sc") \cap AtRate(synths[s].def, 2) # {}
                                   THEN "graphics rate" ELSE synths[s].setup>>
  BY Zenon DEF n_free
<1>1. StateOK /\ s \in Synth /\ cycle = Between /\ cycle' = cycle
  BY DEF n_free, UnitsInv, Live, CanWrite
<1>2. NoSynth \in SynthRecord
  BY DEF NoSynth, SynthRecord
<1>3. /\ synths' \in [Synth -> SynthRecord] /\ synths'[s] = NoSynth
      /\ \A t \in Synth : t # s => synths'[t] = synths[t]
  BY <1>0, <1>1, <1>2 DEF StateOK, KnownOK
<1>4. Live' = Live \ {s}
  BY <1>1, <1>3 DEF Live
<1>5. OrderIsLive'
  <2>1. OrderIsLive
    BY <1>1 DEF StateOK
  <2>2. CASE s \notin ToSet(order) /\ order' = order
    <3>1. \A i \in DOMAIN order : order[i] # s
      BY <2>2 DEF ToSet
    <3>2. \A i \in DOMAIN order : order[i] \in Live'
      BY <1>4, <2>1, <3>1 DEF OrderIsLive
    <3> QED
      BY <2>1, <2>2, <3>2 DEF OrderIsLive
  <2>3. ASSUME NEW place \in DOMAIN order, order[place] = s, order' = RemoveAt(order, place)
        PROVE  OrderIsLive'
    <3>1. PICK r : r = RemoveAt(order, place)
      OBVIOUS
    <3>2. /\ r \in Seq(Synth)
          /\ \A i \in DOMAIN r : \E j \in DOMAIN order : j # place /\ r[i] = order[j]
          /\ \A i, j \in DOMAIN r : r[i] = r[j] => i = j
      BY <2>1, <2>3, <3>1, RemovedOnce DEF OrderIsLive
    <3>3. \A i \in DOMAIN r : r[i] \in Live'
      BY <1>4, <2>1, <2>3, <3>2 DEF OrderIsLive
    <3>4. order' = r
      BY <2>3, <3>1
    <3> QED
      BY <3>2, <3>3, <3>4 DEF OrderIsLive
  <2> QED
    BY <1>0, <2>2, <2>3 DEF Leaves
<1>6. /\ MemoriesOK'
      /\ \A t \in Synth : t # s => params'[t] = params[t] /\ outs'[t] = outs[t] /\ ran'[t] = ran[t]
  <2> PICK m : m = [params |-> [i \in Parameter |-> 0], outs |-> <<>>, ran |-> {}, bus |-> bus]
    OBVIOUS
  <2>1. m.params \in [Parameter -> Value] /\ m.outs \in Seq(Value) /\ m.ran \in SUBSET Nat /\ m.bus = bus
    BY Values
  <2>2. MemoriesOK /\ bus \in Value
    BY <1>1 DEF StateOK, MemoriesOK
  <2>3. /\ params' \in [Synth -> [Parameter -> Value]] /\ outs' \in [Synth -> Seq(Value)]
        /\ ran' \in [Synth -> SUBSET Nat] /\ bus' \in Value /\ bus' = bus
        /\ \A t \in Synth : t # s => params'[t] = params[t] /\ outs'[t] = outs[t] /\ ran'[t] = ran[t]
    BY <1>0, <1>1, <2>1, <2>2, KeepOK
  <2>4. ASSUME NEW t \in Live \ {s}
        PROVE  synths'[t].def \in DOMAIN Definitions /\ Memory(t)' \in MemoryOf(synths'[t].def)
    <3>1. t \in Synth /\ synths[t].def \in DOMAIN Definitions /\ Memory(t) \in MemoryOf(synths[t].def)
      BY <1>1, LiveFacts
    <3>2. Memory(t)' = Memory(t) /\ synths'[t] = synths[t]
      BY <1>3, <2>3, <3>1 DEF Memory
    <3> QED
      BY <3>1, <3>2
  <2> QED
    BY <1>4, <2>3, <2>4 DEF MemoriesOK
<1>7. PoolOK'
  <2>1. /\ pulled' \in [Synth -> {"idle", "locked", "unlocked"}]
    BY <1>0, <1>1 DEF StateOK, PoolOK
  <2>2. current' \in Live' \cup {Nobody, Freed}
    BY <1>0, <1>1, <1>4 DEF StateOK, PoolOK
  <2> QED
    BY <2>1, <2>2 DEF PoolOK
<1>8. CycleOK'
  BY <1>1 DEF CycleOK, Between
<1>9. StateOK'
  BY <1>3, <1>5, <1>6, <1>7, <1>8 DEF StateOK, KnownOK
<1>10. \A t \in Live' : /\ t \in Live /\ t \in Synth /\ synths'[t] = synths[t]
                        /\ params'[t] = params[t] /\ ran'[t] = ran[t] /\ pulled'[t] = pulled[t]
  BY <1>0, <1>1, <1>3, <1>4, <1>6 DEF Live, StateOK, PoolOK
<1>11. UnitsRunFirst'
  BY <1>10 DEF UnitsInv, UnitsRunFirst, AtRate
<1>12. MisusedByBadDefinition'
  <2> SUFFICES ASSUME synths[s].setup = "complete",
                      OfKind(synths[s].def, "sc") \cap AtRate(synths[s].def, 2) = {}
               PROVE  Unconstructed(DOMAIN Units(s), synths[s].def, Memory(s))
    BY <1>0 DEF UnitsInv, MisusedByBadDefinition
  <2>1. AtRate(synths[s].def, 0) \cup AtRate(synths[s].def, 1) \subseteq ran[s]
    BY DEF UnitsInv, UnitsRunFirst
  <2>2. synths[s].def \in DOMAIN Definitions
    BY <1>1, LiveFacts
  <2>3. \A u \in DOMAIN Definitions[synths[s].def] : Definitions[synths[s].def][u].rate \in 0..2
    BY <2>2, UnitFacts
  <2>4. OfKind(synths[s].def, "sc") \subseteq ran[s]
    BY <2>1, <2>3 DEF OfKind, AtRate
  <2> QED
    BY <2>4 DEF Unconstructed, Memory
<1>13. TriggersSet' /\ TriggersArriveOnce'
  <2>1. \A t \in Live' : Pulls(t)' = Pulls(t)
    BY <1>10 DEF Pulls, OfKind, AtRate
  <2> QED
    BY <1>1, <1>10, <2>1 DEF UnitsInv, TriggersSet, TriggersArriveOnce, Between
<1> QED
  BY <1>9, <1>11, <1>12, <1>13 DEF UnitsInv

\* A synth that fails to be made leaves the bus and, maybe, a mark.
LEMMA FailureKeeps ==
  ASSUME UnitsInv, s_new_fails
  PROVE  UnitsInv'
<1>0. PICK s \in Synth, d \in DOMAIN Definitions, reports \in BOOLEAN :
        /\ bus' = RunUnits(Fresh(d), d, 0, LastScalar(d)).bus
        /\ Scalars(s, d, reports, synths)
  BY Zenon DEF s_new_fails
<1>1. StateOK /\ cycle' = cycle /\ UNCHANGED <<order, params, outs, ran, current, pulled>>
  BY DEF s_new_fails, UnitsInv
<1>2. bus' \in Value
  <2>1. Fresh(d) \in MemoryOf(d)
    BY <1>1, FreshOK DEF StateOK, MemoriesOK
  <2>2. RunUnits(Fresh(d), d, 0, LastScalar(d)) \in MemoryOf(d)
    BY <2>1, LastScalarOK, RunUnitsLeaves
  <2> QED
    BY <1>0, <2>2 DEF MemoryOf
<1>3. KnownOK' /\ SameUnits
  <2>1. synths' = synths \/ synths' = Mark(synths, current, s, 0)
    BY <1>0 DEF Scalars
  <2>2. CASE synths' = synths
    BY <1>1, <2>2 DEF StateOK, KnownOK, SameUnits, Live
  <2>3. CASE synths' = Mark(synths, current, s, 0)
    BY <1>1, <2>3, MarkSameUnits
  <2> QED
    BY <2>1, <2>2, <2>3
<1>4. misused' = misused \/ MisusedByBadDefinition'
  <2>1. misused' \in {misused, <<"current", "scalar">>, <<"unit", "failed">>}
    BY <1>0 DEF Scalars
  <2> QED
    BY <2>1 DEF MisusedByBadDefinition
<1> QED
  BY <1>1, <1>2, <1>3, <1>4, BusKeeps

\* A new synth has run its scalar units, and its control units if /s_new was whole.
LEMMA NewKeeps ==
  ASSUME UnitsInv, s_new
  PROVE  UnitsInv'
<1>0. PICK s \in Synth, d \in DOMAIN Definitions, setup \in {"broken", "complete"},
           level \in Value, trigger \in Value, reports \in BOOLEAN :
        /\ NewSlot(s) /\ Constructible(d)
        /\ Scalars(s, d, reports, [synths EXCEPT ![s] = [def |-> d, setup |-> setup, done |-> {}]])
        /\ SetUp(s, d, setup, level, trigger)
        /\ current' = IF setup = "complete" THEN s ELSE current
        /\ order' \in {order, <<s>> \o order, Append(order, s)}
  BY Zenon DEF s_new
<1>1. StateOK /\ cycle = Between /\ cycle' = cycle /\ s \notin Live
  BY <1>0, Zenon DEF s_new, CanWrite, UnitsInv, NewSlot
<1>2. PICK rec : rec = [def |-> d, setup |-> setup, done |-> {}]
  OBVIOUS
<1>3. rec \in SynthRecord /\ rec.def = d /\ rec.setup = setup /\ rec # NoSynth
  BY <1>2, DefinitionAssumption DEF SynthRecord, NoSynth
<1>4. PICK known : known = [synths EXCEPT ![s] = rec]
  OBVIOUS
<1>5. /\ known \in [Synth -> SynthRecord] /\ known[s] = rec
      /\ \A t \in Synth : t # s => known[t] = synths[t]
  BY <1>1, <1>3, <1>4 DEF StateOK, KnownOK
<1>6. synths' = known \/ synths' = Mark(known, current, s, 0)
  BY <1>0, <1>2, <1>4 DEF Scalars
<1>7. current \in Synth => current \in Live /\ current # s
  BY <1>1, BoundAssumption DEF StateOK, PoolOK, Nobody, Freed, Synth
<1>8. /\ synths' \in [Synth -> SynthRecord] /\ synths'[s] = rec
      /\ \A t \in Synth : t # s => synths'[t].def = synths[t].def /\ synths'[t].setup = synths[t].setup
      /\ \A t \in Synth : t # current => synths'[t] = known[t]
  <2>1. CASE synths' = known
    BY <1>5, <2>1
  <2>2. CASE synths' = Mark(known, current, s, 0)
    <3>1. PICK how \in {"own", "scalar", "other"} :
             synths' = IF current \in Synth THEN [known EXCEPT ![current].done = @ \cup {how}] ELSE known
      BY <2>2 DEF Mark
    <3> QED
      BY <1>5, <1>7, <3>1 DEF SynthRecord
  <2> QED
    BY <1>6, <2>1, <2>2
<1>9. Live' = Live \cup {s}
  <2>1. \A t \in Live : t # s /\ t \in Synth /\ synths[t].def # NoDefinition
    BY <1>1, LiveFacts, DefinitionAssumption
  <2>2. \A t \in Live : synths'[t] # NoSynth
    BY <1>8, <2>1 DEF NoSynth
  <2>3. \A t \in Synth : t \notin Live /\ t # s => synths'[t] = NoSynth
    BY <1>5, <1>7, <1>8 DEF Live
  <2> QED
    BY <1>3, <1>8, <2>2, <2>3 DEF Live
<1>10. OrderIsLive'
  <2>1. OrderIsLive
    BY <1>1 DEF StateOK
  <2>2. \A i \in DOMAIN order : order[i] \in Live' /\ order[i] # s
    BY <1>1, <1>9, <2>1 DEF OrderIsLive
  <2>3. CASE order' = order
    BY <2>1, <2>2, <2>3 DEF OrderIsLive
  <2>4. CASE order' \in {<<s>> \o order, Append(order, s)}
    <3>1. PICK r : r = order'
      OBVIOUS
    <3>2. /\ r \in Seq(Synth)
          /\ \A i \in DOMAIN r : r[i] = s \/ \E j \in DOMAIN order : r[i] = order[j]
          /\ \A i, j \in DOMAIN r : r[i] = r[j] => i = j
      BY <2>1, <2>2, <2>4, <3>1, AddedOnce DEF OrderIsLive
    <3>3. \A i \in DOMAIN r : r[i] \in Live'
      BY <1>9, <2>2, <3>2
    <3> QED
      BY <3>1, <3>2, <3>3 DEF OrderIsLive
  <2> QED
    BY <1>0, <2>3, <2>4
<1>11. PICK made \in MemoryOf(d) :
         /\ made = RunUnits(Fresh(d), d, 0, Len(Definitions[d]))
         /\ AtRate(d, 0) \subseteq made.ran
  <2>1. Fresh(d) \in MemoryOf(d)
    BY <1>1, FreshOK DEF StateOK, MemoriesOK
  <2>2. Len(Definitions[d]) \in 0..Len(Definitions[d]) /\ AtRate(d, 0) \subseteq 1..Len(Definitions[d])
    BY UnitFacts DEF AtRate
  <2>3. /\ RunUnits(Fresh(d), d, 0, Len(Definitions[d])) \in MemoryOf(d)
        /\ LoopLeaves(Fresh(d), RunUnits(Fresh(d), d, 0, Len(Definitions[d])), d, 0, Len(Definitions[d]))
    BY <2>1, <2>2, RunUnitsLeaves
  <2> QED
    BY <2>2, <2>3 DEF LoopLeaves
<1>12. PICK given \in MemoryOf(d) :
         /\ given = [made EXCEPT !.params[Level] = level, !.params[Trigger] = trigger]
         /\ given.ran = made.ran /\ given.params[Trigger] = trigger
  <2>1. [made EXCEPT !.params[Level] = level, !.params[Trigger] = trigger] \in MemoryOf(d)
    BY DEF MemoryOf
  <2> QED
    BY <2>1 DEF MemoryOf, Parameter, Trigger, Level
<1>13. PICK m \in MemoryOf(d) :
         /\ Keep(s, m) /\ AtRate(d, 0) \subseteq m.ran
         /\ setup = "complete" => /\ AtRate(d, 1) \subseteq m.ran
                                  /\ OfKind(d, "TrigControl") \cap AtRate(d, 1) # {} => m.params[Trigger] = 0
         /\ setup = "broken" => m.params[Trigger] = trigger
  <2>1. Keep(s, IF setup = "complete" THEN RunUnits(given, d, 1, Len(Definitions[d])) ELSE given)
    BY <1>0, <1>11, <1>12 DEF SetUp
  <2>2. CASE setup = "broken"
    BY <1>11, <1>12, <2>1, <2>2
  <2>3. CASE setup = "complete"
    <3>1. Len(Definitions[d]) \in 0..Len(Definitions[d]) /\ AtRate(d, 1) \subseteq 1..Len(Definitions[d])
      BY UnitFacts DEF AtRate
    <3>2. PICK m : m = RunUnits(given, d, 1, Len(Definitions[d]))
      OBVIOUS
    <3>3. m \in MemoryOf(d) /\ LoopLeaves(given, m, d, 1, Len(Definitions[d]))
      BY <3>1, <3>2, RunUnitsLeaves
    <3>4. given.ran \cup AtRate(d, 1) \subseteq m.ran
      BY <3>1, <3>3 DEF LoopLeaves
    <3>5. OfKind(d, "TrigControl") \cap AtRate(d, 1) # {} => m.params[Trigger] = 0
      BY <3>1, <3>3 DEF LoopLeaves
    <3> QED
      BY <1>11, <1>12, <2>1, <2>3, <3>2, <3>3, <3>4, <3>5
  <2> QED
    BY <2>2, <2>3
<1>14. /\ MemoriesOK'
       /\ params'[s] = m.params /\ ran'[s] = m.ran
       /\ \A t \in Synth : t # s => params'[t] = params[t] /\ outs'[t] = outs[t] /\ ran'[t] = ran[t]
  <2>1. /\ \A t \in Live' \ {s} : t \in Live /\ synths'[t].def = synths[t].def
        /\ synths'[s].def = d
    BY <1>3, <1>8, <1>9 DEF Live
  <2> QED
    BY <1>1, <1>13, <2>1, KeepMemory
<1>15. /\ pulled' \in [Synth -> {"idle", "locked", "unlocked"}]
       /\ pulled'[s] = IF setup = "broken" /\ trigger # 0 THEN "locked" ELSE "idle"
       /\ \A t \in Synth : t # s => pulled'[t] = pulled[t]
  <2>1. pulled' = [pulled EXCEPT ![s] = IF setup = "broken" /\ trigger # 0 THEN "locked" ELSE "idle"]
    BY <1>0 DEF SetUp
  <2> QED
    BY <1>1, <2>1 DEF StateOK, PoolOK
<1>16. StateOK'
  <2>1. CycleOK'
    BY <1>1 DEF CycleOK, Between
  <2>2. PoolOK'
    BY <1>0, <1>1, <1>9, <1>15 DEF StateOK, PoolOK
  <2> QED
    BY <1>8, <1>10, <1>14, <2>1, <2>2 DEF StateOK, KnownOK
<1>17. \A t \in Live : /\ t # s /\ t \in Synth /\ synths'[t].def = synths[t].def /\ synths'[t].setup = synths[t].setup
                       /\ params'[t] = params[t] /\ ran'[t] = ran[t] /\ pulled'[t] = pulled[t]
                       /\ Pulls(t)' = Pulls(t)
  BY <1>1, <1>8, <1>14, <1>15 DEF Live, Pulls, OfKind, AtRate
<1>18. UnitsRunFirst'
  <2>1. \A t \in Live : synths'[t].setup = "complete" =>
          AtRate(synths'[t].def, 0) \cup AtRate(synths'[t].def, 1) \subseteq ran'[t]
    BY <1>17 DEF UnitsInv, UnitsRunFirst
  <2>2. synths'[s].setup = "complete" =>
          AtRate(synths'[s].def, 0) \cup AtRate(synths'[s].def, 1) \subseteq ran'[s]
    BY <1>3, <1>8, <1>13, <1>14
  <2> QED
    BY <1>9, <2>1, <2>2 DEF UnitsRunFirst, AtRate
<1>19. MisusedByBadDefinition'
  <2>1. misused' \in {misused, <<"current", "scalar">>, <<"unit", "failed">>}
    BY <1>0 DEF Scalars
  <2> QED
    BY <2>1 DEF MisusedByBadDefinition, UnitsInv
<1>20. TriggersSet'
  <2>1. \A t \in Live : /\ Pulls(t)' /\ pulled'[t] = "idle" => params'[t][Trigger] = 0
                        /\ pulled'[t] = "locked" => params'[t][Trigger] # 0
    BY <1>17 DEF UnitsInv, TriggersSet
  <2>2. Pulls(s)' => OfKind(d, "TrigControl") \cap AtRate(d, 1) # {}
    BY <1>3, <1>8 DEF Pulls, OfKind, AtRate
  <2>3. /\ Pulls(s)' /\ pulled'[s] = "idle" => params'[s][Trigger] = 0
        /\ pulled'[s] = "locked" => params'[s][Trigger] # 0
    BY <1>13, <1>14, <1>15, <2>2
  <2> QED
    BY <1>9, <2>1, <2>3 DEF TriggersSet
<1>21. TriggersArriveOnce'
  BY <1>1 DEF TriggersArriveOnce, Between
<1> QED
  BY <1>16, <1>18, <1>19, <1>20, <1>21 DEF UnitsInv
-----------------------------------------------------------------------------
(* The invariant holds throughout *)

\* There is no synth at first.
LEMMA UnitsInit == Init => UnitsInv
<1> SUFFICES ASSUME Init PROVE UnitsInv
  OBVIOUS
<1>1. KnownOK
  BY DoneInit DEF DoneInv
<1>2. Live = {}
  BY DEF Init, Live
<1>3. OrderIsLive
  BY <1>2 DEF Init, OrderIsLive
<1>4. MemoriesOK
  <2>1. params \in [Synth -> [Parameter -> Value]] /\ bus \in Value
    BY Values DEF Init
  <2>2. outs \in [Synth -> Seq(Value)] /\ ran \in [Synth -> SUBSET Nat]
    BY DEF Init
  <2> QED
    BY <1>2, <2>1, <2>2 DEF MemoriesOK
<1>5. PoolOK
  BY DEF Init, PoolOK
<1>6. CycleOK
  BY DEF Init, CycleOK, Between
<1>7. UnitsRunFirst /\ TriggersSet
  BY <1>2 DEF UnitsRunFirst, TriggersSet
<1>8. MisusedByBadDefinition /\ TriggersArriveOnce
  BY DEF Init, MisusedByBadDefinition, TriggersArriveOnce, Between
<1> QED
  BY <1>1, <1>3, <1>4, <1>5, <1>6, <1>7, <1>8 DEF UnitsInv, StateOK

\* Where neither the synths nor the memories change, nothing is lost.
LEMMA UnitsStep == UnitsInv /\ [Next]_vars => UnitsInv'
<1> SUFFICES ASSUME UnitsInv, [Next]_vars PROVE UnitsInv'
  OBVIOUS
<1>1. ASSUME UNCHANGED <<synths, order, params, outs, ran, current, pulled, misused>>,
             bus' \in Value, cycle' = cycle \/ cycle' = Between
      PROVE  UnitsInv'
  <2>1. KnownOK' /\ SameUnits
    BY <1>1 DEF UnitsInv, StateOK, KnownOK, SameUnits, Live
  <2> QED
    BY <1>1, <2>1, BusKeeps
<1>2. bus \in Value
  BY DEF UnitsInv, StateOK, MemoriesOK
<1>3. CASE UNCHANGED vars
  BY <1>1, <1>2, <1>3 DEF vars
<1>4. CASE s_new_fails
  BY <1>4, FailureKeeps
<1>5. CASE s_new
  BY <1>5, NewKeeps
<1>6. CASE n_free
  BY <1>6, FreeKeeps
<1>7. CASE n_set
  <2>1. PICK s \in Live, i \in Parameter, v \in Value : Set(s, i, v, IF v = 0 THEN "idle" ELSE "locked")
    BY <1>7 DEF n_set
  <2>2. cycle = Between /\ cycle' = cycle
    BY <1>7, <2>1 DEF n_set, CanWrite, Set
  <2> QED
    BY <2>1, <2>2, SetKeeps
<1>8. CASE n_set_index
  <2>1. PICK s \in Live, i \in Parameter, v \in Value : Set(s, i, v, "unlocked")
    BY <1>8 DEF n_set_index
  <2>2. cycle' = cycle
    BY <2>1 DEF Set
  <2> QED
    BY <2>1, <2>2, SetKeeps
<1>9. CASE c_set
  BY <1>1, <1>9 DEF c_set
<1>10. CASE C_Enter
  BY <1>10, EnterKeeps
<1>11. CASE C_Unit
  BY <1>11, UnitKeeps
<1>12. CASE C_CopyTrigger
  BY <1>12, CopyTriggerKeeps
<1>13. CASE C_ClearTrigger
  BY <1>13, ClearTriggerKeeps
<1>14. CASE C_End
  BY <1>1, <1>2, <1>14 DEF C_End, signals
<1> QED
  BY <1>3, <1>4, <1>5, <1>6, <1>7, <1>8, <1>9, <1>10, <1>11, <1>12, <1>13, <1>14
  DEF Next, ControlCycle, Messages

LEMMA UnitsHold == Spec => []UnitsInv
BY UnitsInit, UnitsStep, PTL DEF Spec

LEMMA StateIsTyped == UnitsInv => TypeOK
<1> SUFFICES ASSUME UnitsInv PROVE TypeOK
  OBVIOUS
<1>1. StateOK
  BY DEF UnitsInv
<1>2. order \in Seq(Live)
  <2>1. order \in Seq(Synth) /\ \A i \in DOMAIN order : order[i] \in Live
    BY <1>1 DEF StateOK, OrderIsLive
  <2>2. PICK n \in Nat : n = Len(order)
    BY <2>1
  <2>3. order \in [1..n -> Live]
    BY <2>1, <2>2
  <2> QED
    BY <2>3
<1>3. cycle \in [position: 0..Len(order), unit: Nat, clearing: BOOLEAN]
  <2>1. cycle \in [position: Nat, unit: Nat, clearing: BOOLEAN] /\ Len(order) \in Nat
    BY <1>1, <1>2 DEF StateOK, CycleOK
  <2>2. cycle.position \in 0..Len(order)
    <3>1. CASE cycle = Between
      BY <2>1, <3>1 DEF Between
    <3>2. CASE cycle # Between
      BY <1>2, <2>1, <3>2, <1>1 DEF StateOK, CycleOK
    <3> QED
      BY <3>1, <3>2
  <2> QED
    BY <2>1, <2>2
<1>4. synths \in [Synth -> SynthRecord] /\ current \in Live \cup {Nobody, Freed}
      /\ pulled \in [Synth -> {"idle", "locked", "unlocked"}]
  BY <1>1 DEF StateOK, KnownOK, PoolOK
<1>5. /\ params \in [Synth -> [Parameter -> Value]] /\ outs \in [Synth -> Seq(Value)]
      /\ ran \in [Synth -> SUBSET Nat] /\ bus \in Value
  BY <1>1 DEF StateOK, MemoriesOK
<1> QED
  BY <1>2, <1>3, <1>4, <1>5 DEF TypeOK, SynthRecord

\* The outputs of a synth, its parameters, the pool's pointer and the position of
\* the control thread stay within what the definitions and the tree allow
\* (synth.cc, plugin_pool.cc, control_loop.cc).
THEOREM SynthsTypes == Spec => []TypeOK
BY UnitsHold, StateIsTyped, PTL

\* A synth that a graphics cycle may meet has run every scalar and control unit
\* (osc_handler.cc /s_new, synth.cc process_c).
THEOREM UnitsRunFirstHolds == Spec => []UnitsRunFirst
<1>1. UnitsInv => UnitsRunFirst
  BY DEF UnitsInv
<1> QED
  BY UnitsHold, <1>1, PTL

\* A synth that /s_new completed, from a definition without a SuperCollider unit
\* at graphics rate, is freed without the use of a pointer that leads nowhere
\* (sc_unit_wrapper.cc, plugin_pool.cc).
THEOREM MisusedByBadDefinitionHolds == Spec => []MisusedByBadDefinition
<1>1. UnitsInv => MisusedByBadDefinition
  BY DEF UnitsInv
<1> QED
  BY UnitsHold, <1>1, PTL

\* TrigControl puts out a trigger only if one was set, and each that was set
\* under the lock (control.cc).
THEOREM TriggersArriveOnceHolds == Spec => []TriggersArriveOnce
<1>1. UnitsInv => TriggersArriveOnce
  BY DEF UnitsInv
<1> QED
  BY UnitsHold, <1>1, PTL

-----------------------------------------------------------------------------
(* What an In reads *)

\* The cycle is behind the places before its cursor.
Cursor == <<cycle.position, cycle.unit>>

Holds(w) == Input(Memory(order[w[1]]), UnitAt(w), 1)

Replaces(w) == UnitAt(w).kind = "ReplaceOut"

Reads(r) == UnitAt(r).kind = "In"

OutputAt(at) == outs[order[at[1]]][at[2]]

Undisturbed(w, to) == \A p \in Writers : ~(Before(w, p) /\ Before(p, to))

\* The bus holds what the last writer wrote, if it replaced; each In behind it
\* holds that too.
Reading ==
  cycle # Between =>
    \A w \in Writers : Replaces(w) /\ Before(w, Cursor) =>
      /\ Undisturbed(w, Cursor) => bus = Holds(w)
      /\ \A r \in Places :
           Reads(r) /\ Before(w, r) /\ Before(r, Cursor) /\ Undisturbed(w, r) => OutputAt(r) = Holds(w)

ReadInv == UnitsInv /\ Reading

LEMMA PlaceFacts ==
  ASSUME StateOK, NEW at \in Places
  PROVE  /\ at = <<at[1], at[2]>> /\ at[1] \in DOMAIN order /\ at[1] \in Nat /\ at[2] \in Nat
         /\ order[at[1]] \in Live /\ at[2] \in DOMAIN Units(order[at[1]])
         /\ UnitAt(at).rate = 1
<1>0. PICK i \in DOMAIN order : at \in {i} \X AtRate(synths[order[i]].def, 1)
  BY DEF Places
<1>1. PICK u \in AtRate(synths[order[i]].def, 1) : at = <<i, u>>
  BY <1>0
<1>2. order \in Seq(Synth) /\ order[i] \in Live
  BY DEF StateOK, OrderIsLive
<1>3. u \in DOMAIN Units(order[i]) /\ Units(order[i])[u].rate = 1 /\ DOMAIN Units(order[i]) = 1..Size(order[i])
      /\ Size(order[i]) \in Nat
  BY <1>2, LiveFacts DEF AtRate, Units
<1>4. at[1] = i /\ at[2] = u /\ i \in Nat /\ u \in Nat
  BY <1>1, <1>2, <1>3
<1> QED
  BY <1>1, <1>2, <1>3, <1>4 DEF UnitAt

\* A control unit of a synth in the tree is a place.
LEMMA IsPlace ==
  ASSUME NEW i \in DOMAIN order, NEW u \in DOMAIN Units(order[i]), Units(order[i])[u].rate = 1
  PROVE  <<i, u>> \in Places
<1>1. u \in AtRate(synths[order[i]].def, 1)
  BY DEF AtRate, Units
<1> QED
  BY <1>1 DEF Places

LEMMA BeforeIsOrder ==
  ASSUME NEW a, NEW b, a[1] \in Nat, a[2] \in Nat, b[1] \in Nat, b[2] \in Nat, Before(a, b)
  PROVE  ~Before(b, a) /\ ~(a[1] = b[1] /\ a[2] = b[2])
BY DEF Before

\* The places and their units are those of the synths.
LEMMA SamePlaces ==
  ASSUME StateOK, SameUnits
  PROVE  /\ Places' = Places /\ Writers' = Writers
         /\ \A at \in Places : UnitAt(at)' = UnitAt(at)
<1>1. \A i \in DOMAIN order : order[i] \in Live
  BY DEF StateOK, OrderIsLive
<1>2. \A i \in DOMAIN order : synths'[order[i]].def = synths[order[i]].def
  BY <1>1, SameUnitsKeep
<1>3. order' = order
  BY DEF SameUnits
<1>4. Places' = Places
  BY <1>2, <1>3 DEF Places, AtRate
<1>5. \A at \in Places : UnitAt(at)' = UnitAt(at)
  <2> TAKE at \in Places
  <2>1. synths'[order[at[1]]].def = synths[order[at[1]]].def
    BY <1>2, PlaceFacts
  <2> QED
    BY <1>3, <2>1 DEF UnitAt, Units
<1> QED
  BY <1>4, <1>5 DEF Writers

\* What a writer writes comes from units before it.
LEMMA SameHolds ==
  ASSUME StateOK, SameUnits, NEW w \in Writers,
         \A k \in 1..(w[2] - 1) : outs'[order[w[1]]][k] = outs[order[w[1]]][k]
  PROVE  Holds(w)' = Holds(w)
<1>1. w \in Places /\ order' = order /\ UnitAt(w)' = UnitAt(w)
  BY SamePlaces DEF Writers, SameUnits
<1> PICK s, d, unit : s = order[w[1]] /\ d = synths[s].def /\ unit = UnitAt(w)
  OBVIOUS
<1>2. s \in Live /\ w[2] \in DOMAIN Units(s)
  BY <1>1, PlaceFacts
<1>3. d \in DOMAIN Definitions /\ w[2] \in DOMAIN Definitions[d] /\ unit = Definitions[d][w[2]]
  BY <1>2, LiveFacts DEF Units, UnitAt
<1>4. \A k \in DOMAIN unit.ins : unit.ins[k] \in 1..(w[2] - 1)
  BY <1>3, UnitFacts
<1>5. Holds(w) = IF 1 \in DOMAIN unit.ins THEN outs[s][unit.ins[1]] ELSE 1
  BY DEF Holds, Input, Memory
<1>6. Holds(w)' = IF 1 \in DOMAIN unit.ins THEN outs'[s][unit.ins[1]] ELSE 1
  BY <1>1 DEF Holds, Input, Memory
<1> QED
  BY <1>4, <1>5, <1>6

\* The cursor goes past a place, or past none.
LEMMA ReadingGoesOn ==
  ASSUME StateOK, Reading, SameUnits, cycle # Between, NEW q, q = Cursor, NEW on, on = Cursor',
         \A at \in Places : Before(at, on) => Before(at, q) \/ at = q,
         \A at \in Places : Before(at, q) => Before(at, on),
         \A at \in Places : at # q => OutputAt(at)' = OutputAt(at),
         \A w \in Writers : Before(w, q) \/ w = q => Holds(w)' = Holds(w),
         bus' = bus \/ (q \in Writers /\ Before(q, on)),
         q \in Writers /\ Replaces(q) /\ Before(q, on) => bus' = Holds(q),
         q \in Places /\ Reads(q) /\ Before(q, on) => OutputAt(q)' = bus
  PROVE  Reading'
<1>1. /\ \A at \in Places : Before(at, on) => Before(at, q) \/ at = q
      /\ \A at \in Places : Before(at, q) => Before(at, on)
      /\ \A at \in Places : at # q => OutputAt(at)' = OutputAt(at)
      /\ \A w \in Writers : Before(w, q) \/ w = q => Holds(w)' = Holds(w)
      /\ bus' = bus \/ (q \in Writers /\ Before(q, on))
      /\ q \in Writers /\ Replaces(q) /\ Before(q, on) => bus' = Holds(q)
      /\ q \in Places /\ Reads(q) /\ Before(q, on) => OutputAt(q)' = bus
  OBVIOUS
<1>2. /\ Places' = Places /\ Writers' = Writers /\ Writers \subseteq Places
      /\ \A at \in Places : Replaces(at)' = Replaces(at) /\ Reads(at)' = Reads(at)
  BY SamePlaces DEF Writers, Replaces, Reads
<1>3. ASSUME NEW w \in Writers, Replaces(w), Before(w, on)
      PROVE  /\ Undisturbed(w, on) => bus' = Holds(w)'
             /\ \A r \in Places :
                  Reads(r) /\ Before(w, r) /\ Before(r, on) /\ Undisturbed(w, r) => OutputAt(r)' = Holds(w)'
  <2>1. w \in Places /\ (Before(w, q) \/ w = q) /\ Holds(w)' = Holds(w)
    BY <1>1, <1>2, <1>3
  <2>2. CASE w = q
    <3>1. bus' = Holds(w)
      BY <1>1, <1>3, <2>2
    <3>2. ASSUME NEW r \in Places, Before(w, r), Before(r, on)
          PROVE  FALSE
      <4>1. Before(r, w) \/ r = w
        BY <1>1, <2>2, <3>2
      <4> QED
        BY <2>1, <3>2, <4>1, PlaceFacts, BeforeIsOrder
    <3> QED
      BY <2>1, <3>1, <3>2
  <2>3. CASE Before(w, q)
    <3>1. /\ Undisturbed(w, q) => bus = Holds(w)
          /\ \A r \in Places :
               Reads(r) /\ Before(w, r) /\ Before(r, q) /\ Undisturbed(w, r) => OutputAt(r) = Holds(w)
      BY <1>3, <2>3 DEF Reading
    <3>2. Undisturbed(w, on) => bus' = Holds(w)
      <4> SUFFICES ASSUME Undisturbed(w, on) PROVE bus' = Holds(w)
        OBVIOUS
      <4>1. ~(q \in Writers /\ Before(q, on))
        BY <2>3 DEF Undisturbed
      <4>2. Undisturbed(w, q)
        BY <1>1, <1>2 DEF Undisturbed
      <4> QED
        BY <1>1, <3>1, <4>1, <4>2
    <3>3. ASSUME NEW r \in Places, Reads(r), Before(w, r), Before(r, on), Undisturbed(w, r)
          PROVE  OutputAt(r)' = Holds(w)
      <4>1. CASE r = q
        BY <1>1, <3>1, <3>3, <4>1
      <4>2. CASE r # q
        BY <1>1, <3>1, <3>3, <4>2
      <4> QED
        BY <4>1, <4>2
    <3> QED
      BY <2>1, <3>2, <3>3
  <2> QED
    BY <2>1, <2>2, <2>3
<1> QED
  BY <1>2, <1>3 DEF Reading, Undisturbed

\* The places before the cursor, once it is past the unit it is at.
LEMMA CursorGoesOn ==
  ASSUME StateOK, SameUnits, cycle # Between, cycle.unit \in DOMAIN Units(Here), cycle' = Advanced
  PROVE  /\ Cursor \in Places /\ Before(Cursor, Cursor')
         /\ \A at \in Places : Before(at, Cursor') => Before(at, Cursor) \/ at = Cursor
         /\ \A at \in Places : Before(at, Cursor) => Before(at, Cursor')
<1> PICK s, p, u, n : s = Here /\ p = cycle.position /\ u = cycle.unit /\ n = NextUnit(Here, u)
  OBVIOUS
<1>1. s \in Live /\ p \in DOMAIN order /\ s = order[p] /\ u \in DOMAIN Units(s)
  BY HereFacts DEF Here
<1>2. p \in Nat /\ u \in 0..Size(s) /\ u \in Nat /\ Size(s) \in Nat /\ DOMAIN Units(s) = 1..Size(s)
  BY <1>1, LiveFacts DEF StateOK, OrderIsLive
<1>3. Cursor = <<p, u>> /\ Cursor' = <<p, n>>
  BY AdvancedOK DEF Cursor
<1>4. n \in (u + 1)..(Size(s) + 1) /\ \A k \in (u + 1)..(n - 1) : Units(s)[k].rate # 1
  BY <1>1, <1>2, NextUnitOK
<1>5. <<p, u>> \in Places
  <2>1. Units(s)[u].rate = 1
    BY <1>1 DEF StateOK, CycleOK
  <2> QED
    BY <1>1, <2>1, IsPlace
<1>6. n \in Nat /\ u < n
  BY <1>2, <1>4
<1>7. ASSUME NEW at \in Places
      PROVE  /\ Before(at, <<p, n>>) => Before(at, <<p, u>>) \/ at = <<p, u>>
             /\ Before(at, <<p, u>>) => Before(at, <<p, n>>)
  <2> PICK i, k : i = at[1] /\ k = at[2]
    OBVIOUS
  <2>1. /\ at = <<i, k>> /\ i \in Nat /\ k \in Nat /\ k \in DOMAIN Units(order[i])
        /\ Units(order[i])[k].rate = 1
    BY PlaceFacts DEF UnitAt
  <2>2. ~(i = p /\ u < k /\ k < n)
    <3> SUFFICES ASSUME i = p, u < k, k < n PROVE FALSE
      OBVIOUS
    <3>1. k \in (u + 1)..(n - 1)
      BY <1>2, <1>6, <2>1
    <3> QED
      BY <1>1, <1>4, <2>1, <3>1
  <2> QED
    BY <1>2, <1>6, <2>1, <2>2 DEF Before
<1>8. Before(<<p, u>>, <<p, n>>)
  BY <1>6 DEF Before
<1> QED
  BY <1>3, <1>5, <1>7, <1>8

\* A unit writes no output but its own.
LEMMA OutputsElsewhere ==
  ASSUME StateOK, SameUnits, cycle # Between, NEW s, s = Here, NEW u, u = cycle.unit,
         \A k \in DOMAIN Units(s) : k # u => outs'[s][k] = outs[s][k],
         \A t \in Synth : t # s => outs'[t] = outs[t]
  PROVE  /\ \A at \in Places : at # <<cycle.position, u>> => OutputAt(at)' = OutputAt(at)
         /\ \A w \in Writers : Before(w, Cursor) => Holds(w)' = Holds(w)
<1> PICK p : p = cycle.position
  OBVIOUS
<1>1. s \in Live /\ p \in DOMAIN order /\ s = order[p] /\ order' = order
  BY HereFacts DEF Here, SameUnits
<1>2. /\ \A i \in DOMAIN order : order[i] \in Synth /\ (order[i] = s => i = p)
      /\ p \in Nat /\ u \in Nat
  BY <1>1 DEF StateOK, OrderIsLive, CycleOK, Live
<1>3. ASSUME NEW at \in Places, at # <<p, u>>
      PROVE  OutputAt(at)' = OutputAt(at)
  <2> PICK i, k : i = at[1] /\ k = at[2]
    OBVIOUS
  <2>1. at = <<i, k>> /\ i \in DOMAIN order /\ k \in DOMAIN Units(order[i])
    BY PlaceFacts
  <2>2. OutputAt(at) = outs[order[i]][k] /\ OutputAt(at)' = outs'[order[i]][k]
    BY <1>1 DEF OutputAt
  <2>3. CASE order[i] = s
    BY <1>2, <1>3, <2>1, <2>2, <2>3
  <2>4. CASE order[i] # s
    BY <1>2, <2>1, <2>2, <2>4
  <2> QED
    BY <2>3, <2>4
<1>4. ASSUME NEW w \in Writers, Before(w, Cursor)
      PROVE  Holds(w)' = Holds(w)
  <2> PICK i, k : i = w[1] /\ k = w[2]
    OBVIOUS
  <2>1. w \in Places /\ i \in DOMAIN order /\ k \in DOMAIN Units(order[i]) /\ i \in Nat /\ k \in Nat
        /\ order[i] \in Live
    BY PlaceFacts DEF Writers
  <2>2. i < p \/ (i = p /\ k < u)
    BY <1>4 DEF Before, Cursor
  <2>3. \A j \in 1..(k - 1) : outs'[order[i]][j] = outs[order[i]][j]
    <3>1. CASE order[i] = s
      <4>1. i = p /\ k < u
        BY <1>2, <2>1, <2>2, <3>1
      <4>2. \A j \in 1..(k - 1) : j \in DOMAIN Units(s) /\ j # u
        <5>1. Size(s) \in Nat /\ DOMAIN Units(s) = 1..Size(s)
          BY <1>1, LiveFacts
        <5> QED
          BY <1>2, <2>1, <3>1, <4>1, <5>1
      <4> QED
        BY <3>1, <4>2
    <3>2. CASE order[i] # s
      BY <1>2, <2>1, <3>2
    <3> QED
      BY <3>1, <3>2
  <2> QED
    BY <2>3, SameHolds
<1> QED
  BY <1>3, <1>4

LEMMA UnitReads ==
  ASSUME ReadInv, C_Unit
  PROVE  Reading'
<1> PICK s, u, d, unit, q, on : /\ s = Here /\ u = cycle.unit /\ d = synths[s].def /\ unit = Units(s)[u]
                                /\ q = Cursor /\ on = Cursor'
  OBVIOUS
<1>1. /\ cycle # Between /\ u \in DOMAIN Units(s) /\ unit.kind # "TrigControl"
      /\ Keep(s, ProcessUnit(Memory(s), unit, u))
      /\ synths' = synths \/ synths' = Mark(synths, current, s, 1)
      /\ cycle' = Advanced /\ order' = order
  BY DEF C_Unit, Runs
<1>2. /\ StateOK /\ Reading /\ s \in Live /\ s \in Synth /\ d \in DOMAIN Definitions
      /\ Memory(s) \in MemoryOf(d) /\ unit = Definitions[d][u] /\ u \in DOMAIN Definitions[d]
  BY <1>1, HereFacts, LiveFacts DEF ReadInv, UnitsInv, Units
<1>3. SameUnits
  <2>1. CASE synths' = synths
    BY <1>1, <2>1 DEF SameUnits, Live
  <2>2. CASE synths' = Mark(synths, current, s, 1)
    BY <1>1, <1>2, <2>2, MarkSameUnits
  <2> QED
    BY <1>1, <2>1, <2>2
<1>4. PICK m : m = ProcessUnit(Memory(s), unit, u)
  OBVIOUS
<1>5. /\ m \in MemoryOf(d)
      /\ \A k \in DOMAIN Definitions[d] : k # u => m.outs[k] = outs[s][k]
      /\ unit.kind \notin WriterKinds => m.bus = bus
      /\ unit.kind \in WriterKinds => m.outs = outs[s]
      /\ unit.kind = "In" => m.outs[u] = bus
      /\ unit.kind = "ReplaceOut" => m.bus = Input(Memory(s), unit, 1)
  BY <1>2, <1>4, UnitDoes DEF Memory
<1>6. bus' = m.bus /\ outs'[s] = m.outs /\ \A t \in Synth : t # s => outs'[t] = outs[t]
  BY <1>1, <1>2, <1>3, <1>4, <1>5, KeepMemory, SameUnitsKeep DEF SameUnits
<1>7. /\ q \in Places /\ Before(q, on)
      /\ \A at \in Places : Before(at, on) => Before(at, q) \/ at = q
      /\ \A at \in Places : Before(at, q) => Before(at, on)
  BY <1>1, <1>2, <1>3, CursorGoesOn
<1>8. /\ \A at \in Places : at # q => OutputAt(at)' = OutputAt(at)
      /\ \A w \in Writers : Before(w, q) => Holds(w)' = Holds(w)
  <2>1. \A k \in DOMAIN Units(s) : k # u => outs'[s][k] = outs[s][k]
    BY <1>5, <1>6 DEF Units
  <2>2. q = <<cycle.position, u>>
    BY DEF Cursor
  <2> QED
    BY <1>1, <1>2, <1>3, <1>6, <2>1, <2>2, OutputsElsewhere
<1>9. /\ q[1] = cycle.position /\ q[2] = u /\ UnitAt(q) = unit /\ order[q[1]] = s /\ order' = order
  BY <1>1 DEF Cursor, UnitAt, Here
<1>10. q \in Writers <=> unit.kind \in WriterKinds
  BY <1>7, <1>9 DEF Writers, WriterKinds
<1>11. q \in Writers => Holds(q)' = Holds(q)
  <2> SUFFICES ASSUME q \in Writers PROVE Holds(q)' = Holds(q)
    OBVIOUS
  <2>1. \A k \in 1..(q[2] - 1) : outs'[order[q[1]]][k] = outs[order[q[1]]][k]
    BY <1>5, <1>6, <1>9, <1>10
  <2> QED
    BY <1>2, <1>3, <2>1, SameHolds
<1>12. bus' = bus \/ (q \in Writers /\ Before(q, on))
  BY <1>5, <1>6, <1>7, <1>10
<1>13. q \in Writers /\ Replaces(q) => bus' = Holds(q)
  BY <1>5, <1>6, <1>9 DEF Replaces, Holds
<1>14. q \in Places /\ Reads(q) => OutputAt(q)' = bus
  BY <1>5, <1>6, <1>9 DEF Reads, OutputAt
<1> QED
  BY <1>1, <1>2, <1>3, <1>7, <1>8, <1>11, <1>12, <1>13, <1>14, ReadingGoesOn

LEMMA CopyTriggerReads ==
  ASSUME ReadInv, C_CopyTrigger
  PROVE  Reading'
<1> PICK s, u, d, q : s = Here /\ u = cycle.unit /\ d = synths[s].def /\ q = Cursor
  OBVIOUS
<1>1. /\ cycle # Between /\ u \in DOMAIN Units(s) /\ Units(s)[u].kind = "TrigControl"
      /\ Keep(s, CopyTrigger(Memory(s), u)) /\ cycle' = [cycle EXCEPT !.clearing = TRUE]
      /\ UNCHANGED <<synths, order>>
  BY DEF C_CopyTrigger, Runs
<1>2. /\ StateOK /\ Reading /\ s \in Live /\ s \in Synth /\ Memory(s) \in MemoryOf(d)
      /\ d \in DOMAIN Definitions /\ u \in DOMAIN Definitions[d] /\ u \in Nat
  BY <1>1, HereFacts, LiveFacts, UnitFacts DEF ReadInv, UnitsInv, Units
<1>3. SameUnits
  BY <1>1 DEF SameUnits, Live
<1>4. PICK m : m = CopyTrigger(Memory(s), u)
  OBVIOUS
<1>5. /\ m \in MemoryOf(d) /\ m.bus = bus
      /\ \A k \in DOMAIN Definitions[d] : k # u => m.outs[k] = outs[s][k]
  BY <1>2, <1>4 DEF CopyTrigger, Memory, MemoryOf, Parameter, Trigger
<1>6. bus' = bus /\ outs'[s] = m.outs /\ \A t \in Synth : t # s => outs'[t] = outs[t]
  BY <1>1, <1>2, <1>3, <1>4, <1>5, KeepMemory, SameUnitsKeep DEF SameUnits
<1>7. Cursor' = q
  BY <1>1, <1>2 DEF Cursor, StateOK, CycleOK
<1>8. /\ \A at \in Places : at # q => OutputAt(at)' = OutputAt(at)
      /\ \A w \in Writers : Before(w, q) => Holds(w)' = Holds(w)
  <2>1. \A k \in DOMAIN Units(s) : k # u => outs'[s][k] = outs[s][k]
    BY <1>5, <1>6 DEF Units
  <2>2. q = <<cycle.position, u>>
    BY DEF Cursor
  <2> QED
    BY <1>1, <1>2, <1>3, <1>6, <2>1, <2>2, OutputsElsewhere
<1>9. ~Before(q, q) /\ q \notin Writers
  <2>1. q[1] = cycle.position /\ q[2] = u /\ UnitAt(q) = Units(s)[u]
    BY DEF Cursor, UnitAt, Here
  <2>2. ~Before(q, q)
    BY <1>2, <2>1 DEF Before, StateOK, CycleOK
  <2> QED
    BY <1>1, <2>1, <2>2 DEF Writers
<1> QED
  BY <1>1, <1>2, <1>3, <1>6, <1>7, <1>8, <1>9, ReadingGoesOn

LEMMA ClearTriggerReads ==
  ASSUME ReadInv, C_ClearTrigger
  PROVE  Reading'
<1> PICK s, u, d, q, on : /\ s = Here /\ u = cycle.unit /\ d = synths[s].def
                          /\ q = Cursor /\ on = Cursor'
  OBVIOUS
<1>1. /\ cycle.clearing /\ Keep(s, ClearTrigger(Memory(s))) /\ cycle' = Advanced
      /\ UNCHANGED <<synths, order>>
  BY DEF C_ClearTrigger
<1>2. /\ StateOK /\ Reading /\ cycle # Between /\ u \in DOMAIN Units(s)
      /\ Units(s)[u].kind = "TrigControl"
  BY <1>1 DEF ReadInv, UnitsInv, StateOK, CycleOK
<1>3. s \in Live /\ s \in Synth /\ d \in DOMAIN Definitions /\ Memory(s) \in MemoryOf(d)
  BY <1>2, HereFacts, LiveFacts
<1>4. SameUnits
  BY <1>1 DEF SameUnits, Live
<1>5. PICK m : m = ClearTrigger(Memory(s))
  OBVIOUS
<1>6. m \in MemoryOf(d) /\ m.bus = bus /\ m.outs = outs[s]
  BY <1>3, <1>5, Values DEF ClearTrigger, Memory, MemoryOf, Parameter, Trigger
<1>7. bus' = bus /\ outs'[s] = outs[s] /\ \A t \in Synth : t # s => outs'[t] = outs[t]
  BY <1>1, <1>2, <1>3, <1>4, <1>5, <1>6, KeepMemory, SameUnitsKeep DEF SameUnits
<1>8. /\ \A at \in Places : Before(at, on) => Before(at, q) \/ at = q
      /\ \A at \in Places : Before(at, q) => Before(at, on)
  BY <1>1, <1>2, <1>4, CursorGoesOn
<1>9. /\ \A at \in Places : at # q => OutputAt(at)' = OutputAt(at)
      /\ \A w \in Writers : Before(w, q) => Holds(w)' = Holds(w)
  <2>1. q = <<cycle.position, u>>
    BY DEF Cursor
  <2> QED
    BY <1>2, <1>4, <1>7, <2>1, OutputsElsewhere
<1>10. q \notin Writers /\ ~Reads(q)
  <2>1. UnitAt(q) = Units(s)[u]
    BY DEF Cursor, UnitAt, Here
  <2> QED
    BY <1>2, <2>1 DEF Writers, Reads
<1> QED
  BY <1>2, <1>4, <1>7, <1>8, <1>9, <1>10, ReadingGoesOn

\* No place lies between the end of a synth and the first unit of the next.
LEMMA EnterReads ==
  ASSUME ReadInv, C_Enter
  PROVE  Reading'
<1> PICK p, n : p = cycle.position + 1 /\ n = NextUnit(order[cycle.position + 1], 0)
  OBVIOUS
<1>1. /\ cycle = Between \/ SynthProcessed
      /\ cycle.position < Len(order) /\ cycle' = [Between EXCEPT !.position = p, !.unit = n]
      /\ UNCHANGED <<synths, order, outs, bus>>
  BY DEF C_Enter, signals
<1>2. StateOK /\ Reading /\ SameUnits /\ order \in Seq(Synth) /\ cycle.position \in Nat /\ Len(order) \in Nat
  BY <1>1 DEF ReadInv, UnitsInv, StateOK, OrderIsLive, SameUnits, Live, CycleOK
<1>3. p \in DOMAIN order /\ p \in Nat /\ order[p] \in Live
  BY <1>1, <1>2 DEF StateOK, OrderIsLive
<1>4. n \in 1..(Size(order[p]) + 1) /\ \A k \in 1..(n - 1) : Units(order[p])[k].rate # 1
  <2>1. Size(order[p]) \in Nat /\ 0 \in 0..Size(order[p]) /\ 0 + 1 = 1
    BY <1>2, <1>3, LiveFacts
  <2> QED
    BY <1>2, <1>3, <2>1, NextUnitOK
<1>5. Cursor' = <<p, n>> /\ n \in Nat
  BY <1>1, <1>2, <1>3, <1>4, LiveFacts DEF Cursor, Between
<1>6. ASSUME NEW at \in Places
      PROVE  Before(at, <<p, n>>) <=> at[1] < p
  <2> PICK i, k : i = at[1] /\ k = at[2]
    OBVIOUS
  <2>1. /\ i \in Nat /\ k \in DOMAIN Units(order[i]) /\ Units(order[i])[k].rate = 1
        /\ order[i] \in Live
    BY <1>2, PlaceFacts DEF UnitAt
  <2>2. k \in Nat /\ k >= 1
    BY <1>2, <2>1, LiveFacts
  <2>3. ~(i = p /\ k < n)
    <3> SUFFICES ASSUME i = p, k < n PROVE FALSE
      OBVIOUS
    <3>1. k \in 1..(n - 1)
      BY <1>5, <2>2
    <3> QED
      BY <1>4, <2>1, <3>1
  <2> QED
    BY <2>3 DEF Before
<1>7. CASE cycle = Between
  <2>1. p = 1
    BY <1>7 DEF Between
  <2>2. \A at \in Places : ~Before(at, Cursor')
    <3> TAKE at \in Places
    <3>1. at[1] \in Nat /\ at[1] >= 1
      BY <1>2, PlaceFacts
    <3> QED
      BY <1>5, <1>6, <2>1, <3>1
  <2>3. Places' = Places /\ Writers' = Writers /\ Writers \subseteq Places
    BY <1>2, SamePlaces DEF Writers
  <2> QED
    BY <2>2, <2>3 DEF Reading
<1>8. CASE SynthProcessed
  <2> PICK q, on : q = Cursor /\ on = Cursor'
    OBVIOUS
  <2>1. q = <<p - 1, cycle.unit>> /\ p - 1 \in Nat /\ cycle # Between /\ cycle.unit > Size(Here)
        /\ Here = order[p - 1] /\ cycle.unit \in Nat
    BY <1>2, <1>8 DEF Cursor, SynthProcessed, Here, Size, StateOK, CycleOK
  <2>2. ASSUME NEW at \in Places
        PROVE  Before(at, q) <=> at[1] < p
    <3> PICK i, k : i = at[1] /\ k = at[2]
      OBVIOUS
    <3>1. i \in Nat /\ k \in DOMAIN Units(order[i]) /\ order[i] \in Live
      BY <1>2, PlaceFacts
    <3>2. k \in Nat /\ k <= Size(order[i]) /\ Size(order[i]) \in Nat
      BY <1>2, <3>1, LiveFacts
    <3> QED
      BY <1>3, <2>1, <3>1, <3>2 DEF Before
  <2>3. q \notin Places
    <3> SUFFICES ASSUME q \in Places PROVE FALSE
      OBVIOUS
    <3>1. q[1] = p - 1 /\ ~(q[1] >= p) /\ ~Before(q, q)
      BY <1>3, <2>1 DEF Before
    <3> QED
      BY <1>3, <2>1, <2>2, <3>1
  <2>4. \A at \in Places : OutputAt(at)' = OutputAt(at)
    BY <1>1 DEF OutputAt
  <2>5. \A w \in Writers : Holds(w)' = Holds(w)
    BY <1>1, <1>2, SameHolds
  <2>6. \A at \in Places : Before(at, on) <=> Before(at, q)
    BY <1>5, <1>6, <2>2
  <2>7. q \notin Writers /\ bus' = bus
    BY <1>1, <2>3 DEF Writers
  <2> QED
    BY <1>2, <2>1, <2>3, <2>4, <2>5, <2>6, <2>7, ReadingGoesOn
<1> QED
  BY <1>1, <1>7, <1>8

\* Only the parameters change in the middle of a cycle.
LEMMA ReadingKept ==
  ASSUME ReadInv, cycle' = Between \/ UNCHANGED <<synths, order, outs, bus, cycle>>
  PROVE  Reading'
<1>1. CASE cycle' = Between
  BY <1>1 DEF Reading, Between
<1>2. CASE UNCHANGED <<synths, order, outs, bus, cycle>>
  <2>1. StateOK /\ SameUnits /\ Reading
    BY <1>2 DEF ReadInv, UnitsInv, SameUnits, Live
  <2>2. /\ Places' = Places /\ Writers' = Writers /\ Writers \subseteq Places
        /\ \A at \in Places : UnitAt(at)' = UnitAt(at) /\ OutputAt(at)' = OutputAt(at)
    BY <1>2, <2>1, SamePlaces DEF Writers, OutputAt
  <2>3. \A w \in Writers : Holds(w)' = Holds(w)
    BY <1>2, <2>1, SameHolds
  <2>4. Cursor' = Cursor /\ bus' = bus /\ cycle' = cycle
    BY <1>2 DEF Cursor
  <2> QED
    BY <2>1, <2>2, <2>3, <2>4 DEF Reading, Undisturbed, Replaces, Reads
<1> QED
  BY <1>1, <1>2

LEMMA ReadStep == ReadInv /\ [Next]_vars => ReadInv'
<1> SUFFICES ASSUME ReadInv, [Next]_vars PROVE ReadInv'
  OBVIOUS
<1>1. UnitsInv'
  BY UnitsStep DEF ReadInv
<1> SUFFICES Reading'
  BY <1>1 DEF ReadInv
<1>2. CASE UNCHANGED vars
  BY <1>2, ReadingKept DEF vars
<1>3. CASE s_new_fails \/ s_new \/ n_free \/ n_set \/ c_set
  <2>1. cycle' = Between
    BY <1>3, Zenon DEF s_new_fails, s_new, n_free, n_set, c_set, CanWrite, Set
  <2> QED
    BY <2>1, ReadingKept
<1>4. CASE n_set_index
  BY <1>4, ReadingKept DEF n_set_index, Set
<1>5. CASE C_End
  BY <1>5, ReadingKept DEF C_End
<1> QED
  BY <1>2, <1>3, <1>4, <1>5, EnterReads, UnitReads, CopyTriggerReads, ClearTriggerReads
  DEF Next, ControlCycle, Messages

\* At the end of a cycle an In behind a ReplaceOut holds what that one wrote in
\* this very cycle, whichever messages came meanwhile (in_out.cc, /c_set).
THEOREM ReaderFollowsWriterHolds == Spec => []ReaderFollowsWriter
<1>1. Init => ReadInv
  <2>1. Init => Reading
    BY DEF Init, Reading, Between
  <2> QED
    BY <2>1, UnitsInit DEF ReadInv
<1>2. ReadInv => ReaderFollowsWriter
  <2> SUFFICES ASSUME ReadInv, CycleProcessed PROVE ReaderFollowsWriter
    BY DEF ReaderFollowsWriter
  <2>1. StateOK /\ Reading
    BY DEF ReadInv, UnitsInv
  <2>2. cycle # Between /\ cycle.unit > Size(Here) /\ cycle.position = Len(order)
    BY DEF CycleProcessed, SynthProcessed, Size
  <2>3. ASSUME NEW at \in Places
        PROVE  Before(at, Cursor)
    <3> PICK i, k : i = at[1] /\ k = at[2]
      OBVIOUS
    <3>1. i \in DOMAIN order /\ k \in DOMAIN Units(order[i]) /\ order[i] \in Live
      BY <2>1, PlaceFacts
    <3>2. k \in Nat /\ k <= Size(order[i]) /\ Size(order[i]) \in Nat /\ i \in Nat /\ i <= Len(order)
          /\ cycle.unit \in Nat /\ Len(order) \in Nat
      BY <2>1, <3>1, LiveFacts DEF StateOK, OrderIsLive, CycleOK
    <3> QED
      BY <2>2, <3>2 DEF Before, Cursor, Here
  <2>4. Writers \subseteq Places
    BY DEF Writers
  <2>5. ASSUME NEW r \in Places, NEW w \in Writers, Reads(r), Replaces(w), Before(w, r), Undisturbed(w, r)
        PROVE  OutputAt(r) = Holds(w)
    BY <2>1, <2>2, <2>3, <2>4, <2>5 DEF Reading
  <2> QED
    BY <2>5 DEF ReaderFollowsWriter, Reads, Replaces, Undisturbed, OutputAt, Holds
<1> QED
  BY <1>1, <1>2, ReadStep, PTL DEF Spec
=============================================================================

---------------------------- MODULE ServerProofs ----------------------------
(***************************************************************************)
(* Why the control cycle sees whole synths only and why a done action      *)
(* frees its reporter or the heir of its id, for any number of synths,     *)
(* ids and kinds of completion messages.                                   *)
(***************************************************************************)
EXTENDS Server, SequenceTheorems, TLAPS

IsEnding(call, cmd) == call.cmd = cmd /\ call.step = "end"

\* The activation records: one for a message, and one above it for its
\* completion message, which has none of its own.
CallsOK ==
  /\ calls \in Seq(Call)
  /\ Len(calls) \in 0..2
  /\ Len(calls) = 2 => /\ calls[1].cmd \in Outer /\ calls[1].step = "end"
                       /\ calls[2].cmd \in Plain /\ calls[2].inner = None
  /\ \A k \in DOMAIN calls : calls[k].cmd \in Plain => calls[k].inner = None
  /\ graphics # "between" => calls = <<>>

\* Who holds the lock, and where in the program.
LockOK ==
  /\ readers["control"] = IF control = "nodes" THEN 1 ELSE 0
  /\ readers["main"] = IF graphics = "nodes" \/ (calls # <<>> /\ IsEnding(calls[1], "b_read"))
                       THEN 1 ELSE 0
  /\ writing <=> calls # <<>> /\ IsEnding(Top, "s_new")
  /\ writing => control # "nodes"

\* Synths are born in turn, and none is half made unless /s_new holds the lock.
BirthsOK ==
  /\ \A s, x \in Synth : s <= x /\ synths[s].state = "unborn" => synths[x].state = "unborn"
  /\ \A s \in Live : synths[s].setup = "pending" => writing

\* No two live synths share an id.
IdsUnique == \A s, x \in Live : synths[s].id = synths[x].id => s = x

\* Who has reported was whole when it did, and keeps its id.
ReportersBorn ==
  \A d \in done_actions : /\ synths[d.by].state # "unborn" /\ synths[d.by].setup # "pending"
                           /\ synths[d.by].id = d.id

-----------------------------------------------------------------------------
(* The data: each way in which a step changes the synths *)

Data == /\ synths \in [Synth -> SynthRecord]
        /\ done_actions \subseteq [id: Id, by: Synth]
        /\ todo \subseteq Synth
        /\ BirthsOK /\ IdsUnique /\ CycleSeesWholeSynths
        /\ ReportersBorn /\ PendingNamesReporter

\* A step that leaves the synths, and what is known of them, alone.
Stays == UNCHANGED <<synths, done_actions, todo, writing>> /\ (control' = "nodes" => control = "nodes")

LEMMA DataStays ==
  ASSUME Data, Stays
  PROVE  Data'
BY DEF Stays, Data, BirthsOK, IdsUnique, CycleSeesWholeSynths, ReportersBorn,
       PendingNamesReporter, Live, Named

\* The control cycle begins with what is in the tree; nobody writes, so all is whole.
Begins == UNCHANGED <<synths, done_actions, writing>> /\ ~writing /\ todo' = InTree

LEMMA DataBegin ==
  ASSUME Data, Begins
  PROVE  Data'
BY DEF Begins, Data, BirthsOK, IdsUnique, CycleSeesWholeSynths, ReportersBorn,
       PendingNamesReporter, InTree, Live, Named

\* Nothing but the mark of a done action is set.
LEMMA MarkedRecord ==
  ASSUME NEW r \in SynthRecord, NEW b \in BOOLEAN
  PROVE  LET m == [r EXCEPT !.done = b]
         IN m \in SynthRecord /\ m.state = r.state /\ m.id = r.id /\ m.setup = r.setup /\ m.done = b
BY DEF SynthRecord

\* Synths report.
Reports ==
  /\ UNCHANGED writing
  /\ control' = "nodes" => control = "nodes"
  /\ synths' \in [Synth -> SynthRecord]
  /\ \A s \in Synth : /\ synths'[s].state = synths[s].state
                      /\ synths'[s].id = synths[s].id
                      /\ synths'[s].setup = synths[s].setup
                      /\ synths[s].done => synths'[s].done
  /\ todo' \subseteq todo
  /\ \A d \in done_actions' \ done_actions :
       \E s \in todo : /\ control = "nodes" /\ d = [id |-> synths[s].id, by |-> s]
                       /\ synths'[s].done

LEMMA DataReports ==
  ASSUME Data, Reports
  PROVE  Data'
<1> USE DEF Reports
<1>1. Live' = Live /\ \A i : Named(i)' = Named(i)
  BY DEF Live, Named
<1>2. todo' \subseteq Synth /\ BirthsOK' /\ IdsUnique' /\ CycleSeesWholeSynths'
  <2>1. todo' \subseteq Synth
    BY DEF Data
  <2>2. BirthsOK'
    BY <1>1 DEF Data, BirthsOK, Live
  <2>3. IdsUnique'
    BY <1>1 DEF Data, IdsUnique, Live
  <2>4. CycleSeesWholeSynths'
    BY <1>1 DEF Data, CycleSeesWholeSynths, Live
  <2> QED
    BY <2>1, <2>2, <2>3, <2>4
<1>3. ASSUME NEW d \in done_actions'
      PROVE  /\ d \in [id: Id, by: Synth]
             /\ synths'[d.by].state # "unborn" /\ synths'[d.by].setup # "pending"
             /\ synths'[d.by].id = d.id /\ synths'[d.by].done
             /\ \A s \in Named(d.id)' : s = d.by \/ (d.by \notin Live' /\ s > d.by)
  <2>1. CASE d \in done_actions
    <3>1. /\ d \in [id: Id, by: Synth] /\ synths[d.by].state # "unborn"
          /\ synths[d.by].setup # "pending" /\ synths[d.by].done /\ synths[d.by].id = d.id
          /\ \A s \in Named(d.id) : s = d.by \/ (d.by \notin Live /\ s > d.by)
      BY <2>1 DEF Data, ReportersBorn, PendingNamesReporter
    <3>2. Named(d.id)' = Named(d.id)
      BY <1>1
    <3> QED
      BY <3>1, <3>2, <1>1
  <2>2. CASE d \notin done_actions
    <3>1. PICK s \in todo : /\ control = "nodes" /\ d = [id |-> synths[s].id, by |-> s]
                            /\ synths'[s].done
      BY <2>2
    <3>2. s \in Live /\ synths[s].setup # "pending"
      BY <3>1 DEF Data, CycleSeesWholeSynths
    <3>3. s \in Synth /\ synths[s].state = "live" /\ synths[s].id \in Id
      BY <3>2 DEF Data, SynthRecord, Live
    <3>4. \A x \in Named(d.id) : x = s
      BY <3>1, <3>2 DEF Data, IdsUnique, Named
    <3>5. \A x \in Named(d.id)' : x = s
      BY <3>4, <1>1
    <3> QED
      BY <3>1, <3>2, <3>3, <3>5
  <2> QED
    BY <2>1, <2>2
<1> QED
  BY <1>2, <1>3 DEF Data, ReportersBorn, PendingNamesReporter

\* Synths are freed under the write lock.
Frees ==
  /\ \E S \in SUBSET Synth : synths' = Free(S)
  /\ done_actions' \subseteq done_actions
  /\ UNCHANGED <<todo, writing, control>> /\ control # "nodes"

LEMMA DataFreed ==
  ASSUME Data, Frees
  PROVE  Data'
<1> PICK S \in SUBSET Synth : synths' = Free(S)
  BY DEF Frees
<1> USE DEF Frees
<1>1. \A s \in Synth : /\ synths'[s].state \in {synths[s].state, "freed"}
                       /\ synths'[s].state = "unborn" <=> synths[s].state = "unborn"
                       /\ synths'[s].id = synths[s].id
                       /\ synths'[s].setup = synths[s].setup
                       /\ synths'[s].done = synths[s].done
  BY DEF Data, SynthRecord, Free, Live
<1>2. synths' \in [Synth -> SynthRecord]
  BY DEF Data, SynthRecord, Free
<1>3. Live' \subseteq Live /\ \A i : Named(i)' \subseteq Named(i)
  BY <1>1 DEF Live, Named
<1>4. BirthsOK' /\ IdsUnique' /\ CycleSeesWholeSynths'
  BY <1>1, <1>3 DEF Data, BirthsOK, IdsUnique, CycleSeesWholeSynths, Live
<1>5. ReportersBorn' /\ PendingNamesReporter'
  BY <1>1, <1>3 DEF Data, ReportersBorn, PendingNamesReporter
<1> QED
  BY <1>2, <1>4, <1>5 DEF Data

\* A synth is born, with an id that no live one has.
Newborn(i, inTree) ==
  [state |-> "live", id |-> i, done |-> FALSE, setup |-> "pending", inTree |-> inTree]

Born(s, i) ==
  /\ \A x \in Synth : synths[x].state = "unborn" <=> s <= x
  /\ Named(i) = {}
  /\ \E inTree \in BOOLEAN : synths' = [synths EXCEPT ![s] = Newborn(i, inTree)]

Bears == /\ \E s \in Synth, i \in Id : Born(s, i)
         /\ writing' /\ UNCHANGED <<done_actions, todo, control>> /\ control # "nodes"

LEMMA DataBorn ==
  ASSUME Data, Bears
  PROVE  Data'
<1> PICK s \in Synth, i \in Id : Born(s, i)
  BY DEF Bears
<1> PICK inTree \in BOOLEAN : synths' = [synths EXCEPT ![s] = Newborn(i, inTree)]
  BY DEF Born
<1> USE DEF Bears, Born, Newborn
<1>1. /\ synths'[s] = [state |-> "live", id |-> i, done |-> FALSE, setup |-> "pending",
                       inTree |-> inTree]
      /\ \A x \in Synth \ {s} : synths'[x] = synths[x]
  BY DEF Data
<1>2. synths' \in [Synth -> SynthRecord]
  <2>1. Newborn(i, inTree) \in SynthRecord
    BY DEF SynthRecord
  <2> HIDE DEF Newborn
  <2> QED
    BY <2>1 DEF Data
<1>3. Live' = Live \cup {s}
  BY <1>1 DEF Live
<1>4. BirthsOK'
  BY <1>1, <1>3 DEF Data, BirthsOK, Synth, Live
<1>5. IdsUnique'
  BY <1>1, <1>3 DEF Data, IdsUnique, Named, Live
<1>6. s \notin Live
  BY DEF Live, Synth
<1>7. ASSUME NEW d \in done_actions
      PROVE  /\ d.by # s /\ synths'[d.by] = synths[d.by]
             /\ \A x \in Named(d.id)' : x = d.by \/ (d.by \notin Live' /\ x > d.by)
  <2>1. d.by \in Synth /\ d.by # s /\ ~(s <= d.by)
    BY DEF Data, ReportersBorn, Synth
  <2>2. synths'[d.by] = synths[d.by]
    BY <2>1, <1>1
  <2>3. synths[d.by].id = d.id
    BY DEF Data, ReportersBorn
  <2>4. synths[d.by].done /\ \A x \in Named(d.id) : x = d.by \/ (d.by \notin Live /\ x > d.by)
    BY DEF Data, PendingNamesReporter
  <2>5. ASSUME NEW x \in Named(d.id)' PROVE x = d.by \/ (d.by \notin Live' /\ x > d.by)
    <3>1. CASE x = s
      <4>1. d.id = i
        BY <3>1, <1>1 DEF Named
      <4>2. d.by \notin Live
        <5> SUFFICES ASSUME d.by \in Live PROVE FALSE
          OBVIOUS
        <5>1. ASSUME synths[d.by].id = i PROVE d.by \in Named(i)
          BY <5>1 DEF Named
        <5> QED
          BY <5>1, <4>1, <2>1, <2>3
      <4> QED
        BY <3>1, <4>2, <2>1, <1>3 DEF Synth
    <3>2. CASE x # s
      <4>1. x \in Named(d.id)
        BY <3>2, <1>1, <1>3 DEF Named, Live
      <4> QED
        BY <4>1, <2>1, <2>4, <1>3
    <3> QED
      BY <3>1, <3>2
  <2> QED
    BY <2>1, <2>2, <2>5
<1>8. ReportersBorn' /\ PendingNamesReporter'
  BY <1>7 DEF Data, ReportersBorn, PendingNamesReporter
<1> QED
  BY <1>2, <1>4, <1>5, <1>8 DEF Data, CycleSeesWholeSynths

\* The arguments are set, or the message ends among them.
SetUp(r, outcome, b) == [r EXCEPT !.setup = outcome, !.done = b]

LEMMA SetUpRecord ==
  ASSUME NEW r \in SynthRecord, NEW outcome \in {"complete", "broken"}, NEW b \in BOOLEAN
  PROVE  /\ SetUp(r, outcome, b) \in SynthRecord
         /\ SetUp(r, outcome, b).state = r.state
         /\ SetUp(r, outcome, b).id = r.id
         /\ SetUp(r, outcome, b).setup = outcome
BY DEF SetUp, SynthRecord

\* The synth that was half made is set up, or left as it is.
SetsUp ==
  /\ synths' \in [Synth -> SynthRecord]
  /\ \A s \in Synth : synths'[s].state = synths[s].state /\ synths'[s].id = synths[s].id
  /\ \A s \in Live : synths'[s].setup # "pending"
  /\ \A s \in Synth : synths[s].setup # "pending" => synths'[s] = synths[s]
  /\ UNCHANGED <<done_actions, todo, control>> /\ control # "nodes"

LEMMA DataSetUp ==
  ASSUME Data, SetsUp
  PROVE  Data'
<1> USE DEF SetsUp
<1>1. Live' = Live /\ \A i : Named(i)' = Named(i)
  BY DEF Live, Named
<1>2. BirthsOK'
  BY <1>1 DEF Data, BirthsOK, Live
<1>3. IdsUnique' /\ CycleSeesWholeSynths'
  BY <1>1 DEF Data, IdsUnique, CycleSeesWholeSynths, Live
<1>4. ReportersBorn' /\ PendingNamesReporter'
  <2>1. \A d \in done_actions : d.by \in Synth /\ synths'[d.by] = synths[d.by]
    BY DEF Data, ReportersBorn
  <2> QED
    BY <2>1, <1>1 DEF Data, ReportersBorn, PendingNamesReporter
<1> QED
  BY <1>2, <1>3, <1>4 DEF Data

-----------------------------------------------------------------------------
(* The lock and the activation records *)

Lock == /\ readers \in [Threads -> Nat] /\ writing \in BOOLEAN /\ waiting \in BOOLEAN
        /\ control \in {"between", "nodes", "persistent"}
        /\ graphics \in {"between", "read", "nodes", "write", "persistent"}
        /\ CallsOK /\ LockOK

\* What the top record is, and what stays when it goes.
LEMMA TopAndRest ==
  ASSUME CallsOK, calls # <<>>
  PROVE  /\ Top \in Call /\ graphics = "between"
         /\ Top.cmd \in Plain => Top.inner = None
         /\ Len(calls) = 1 => Top = calls[1] /\ Return = <<>>
         /\ Len(calls) # 1 => /\ Len(calls) = 2 /\ Top = calls[2] /\ Top.cmd \in Plain
                              /\ Return = <<calls[1]>> /\ calls[1] \in Call
                              /\ calls[1].cmd \in Outer /\ calls[1].step = "end"
<1>1. Len(calls) \in {1, 2}
  BY DEF CallsOK
<1>2. \A k \in 1..Len(calls) : calls[k] \in Call
  BY DEF CallsOK
<1>3. CASE Len(calls) = 1
  <2>1. Return = <<>>
    BY <1>3 DEF Return, CallsOK
  <2> QED
    BY <1>2, <1>3, <2>1 DEF CallsOK, Top
<1>4. CASE Len(calls) = 2
  <2>1. Return = <<calls[1]>>
    <3>1. calls \in Seq(Call) /\ Return = SubSeq(calls, 1, 1)
      BY <1>4 DEF Return, CallsOK
    <3>2. Len(Return) = 1 /\ Return[1] = calls[1] /\ Return \in Seq(Call)
      BY <3>1, <1>4, SubSeqProperties
    <3> QED
      BY <3>2
  <2> QED
    BY <1>2, <1>4, <2>1 DEF CallsOK, Top
<1> QED
  BY <1>1, <1>3, <1>4

\* A message with a completion message is at the bottom; its record waits there.
LEMMA NestedCalls ==
  ASSUME CallsOK, calls # <<>>, Top.cmd \in Outer, calls' = Nested, UNCHANGED graphics
  PROVE  /\ CallsOK' /\ Len(calls) = 1 /\ calls' # <<>>
         /\ calls'[1].cmd = calls[1].cmd /\ calls'[1].step = "end"
         /\ ~IsEnding(Top', "s_new")
<1>1. Len(calls) = 1 /\ Top = calls[1] /\ calls[1] \in Call /\ graphics = "between"
  BY TopAndRest DEF Plain, Outer
<1>2. PICK first \in Call : /\ [calls EXCEPT ![1].step = "end"] = <<first>>
                            /\ first.cmd = calls[1].cmd /\ first.cmd \in Outer
                            /\ first.cmd \notin Plain /\ first.step = "end"
                            /\ first.inner = calls[1].inner
  <2>1. [calls EXCEPT ![1].step = "end"] = <<[calls[1] EXCEPT !.step = "end"]>>
    BY <1>1 DEF CallsOK
  <2> QED
    BY <1>1, <2>1 DEF Call, Outer, Plain
<1>3. CASE Top.inner = None
  <2>1. calls' = <<first>>
    BY <1>1, <1>2, <1>3 DEF Nested
  <2>2. Len(calls') = 1 /\ calls'[1] = first /\ DOMAIN calls' = {1} /\ calls' # <<>>
    BY <2>1
  <2>3. Top' = first
    BY <2>2 DEF Top
  <2>4. CallsOK'
    <3>1. calls' \in Seq(Call)
      BY <2>1
    <3> QED
      BY <3>1, <2>2, <1>1, <1>2 DEF CallsOK
  <2>5. ~IsEnding(Top', "s_new")
    BY <2>3, <1>2 DEF IsEnding, Plain
  <2> QED
    BY <2>2, <2>4, <2>5, <1>1, <1>2
<1>4. CASE Top.inner # None
  <2>1. PICK second \in Call : /\ second = Message(Top.inner, None)
                               /\ second.cmd \in Plain /\ second.inner = None
                               /\ second.step = "start"
    <3>1. Top.inner \in Plain
      BY <1>1, <1>4 DEF Call
    <3>2. [cmd |-> Top.inner, inner |-> None, step |-> "start"] \in Call
      BY <3>1 DEF Call
    <3> QED
      BY <3>1, <3>2 DEF Message
  <2>2. calls' = Append(<<first>>, second)
    BY <1>1, <1>2, <1>4, <2>1 DEF Nested
  <2>3. <<first>> \in Seq(Call) /\ Len(<<first>>) = 1 /\ <<first>>[1] = first
    BY <1>2
  <2>4. /\ calls' \in Seq(Call) /\ calls' # <<>> /\ Len(calls') = 2
        /\ calls'[1] = first /\ calls'[2] = second /\ DOMAIN calls' = {1, 2}
    BY <2>1, <2>2, <2>3, AppendProperties
  <2>5. Top' = second
    BY <2>4 DEF Top
  <2>6. CallsOK'
    BY <2>1, <2>4, <1>1, <1>2 DEF CallsOK
  <2>7. ~IsEnding(Top', "s_new")
    BY <2>1, <2>5 DEF IsEnding
  <2> QED
    BY <2>4, <2>6, <2>7, <1>1, <1>2
<1> QED
  BY <1>1, <1>3, <1>4

\* A message that returns leaves the record below it as it was.
LEMMA ReturnedCalls ==
  ASSUME CallsOK, calls # <<>>, calls' = Return, UNCHANGED graphics
  PROVE  /\ CallsOK' /\ graphics = "between"
         /\ \/ calls' = <<>> /\ Top = calls[1]
            \/ /\ calls' # <<>> /\ calls'[1] = calls[1] /\ Top.cmd \in Plain
               /\ ~IsEnding(Top', "s_new")
<1>1. CASE Len(calls) = 1
  <2>1. Return = <<>> /\ Top = calls[1] /\ graphics = "between"
    BY <1>1, TopAndRest
  <2>2. calls' = <<>> /\ Len(calls') = 0 /\ DOMAIN calls' = {} /\ calls' \in Seq(Call)
    BY <2>1
  <2> QED
    BY <2>1, <2>2 DEF CallsOK
<1>2. CASE Len(calls) # 1
  <2>1. /\ Return = <<calls[1]>> /\ calls[1] \in Call /\ calls[1].cmd \in Outer
        /\ Top.cmd \in Plain /\ graphics = "between"
    BY <1>2, TopAndRest
  <2>2. /\ calls' \in Seq(Call) /\ Len(calls') = 1 /\ DOMAIN calls' = {1}
        /\ calls'[1] = calls[1] /\ calls' # <<>>
    BY <2>1
  <2>3. calls[1].cmd \notin Plain
    BY <2>1 DEF Plain, Outer
  <2>4. CallsOK'
    BY <2>1, <2>2, <2>3 DEF CallsOK
  <2>5. ~IsEnding(Top', "s_new")
    <3>1. Top' = calls[1]
      BY <2>2 DEF Top
    <3> QED
      BY <3>1, <2>3 DEF IsEnding, Plain
  <2> QED
    BY <2>1, <2>2, <2>4, <2>5
<1> QED
  BY <1>1, <1>2

\* /s_new marks its record, at the top, as begun.
LEMMA BegunCalls ==
  ASSUME CallsOK, calls # <<>>, Top.cmd = "s_new", UNCHANGED graphics,
         calls' = [calls EXCEPT ![Len(calls)].step = "end"]
  PROVE  /\ CallsOK' /\ calls' # <<>> /\ IsEnding(Top', "s_new") /\ graphics = "between"
         /\ IsEnding(calls'[1], "b_read") <=> IsEnding(calls[1], "b_read")
<1>1. /\ graphics = "between" /\ Top \in Call /\ Top.inner = None
      /\ Len(calls) = 1 => Top = calls[1]
      /\ Len(calls) # 1 => /\ Len(calls) = 2 /\ Top = calls[2] /\ calls[1] \in Call
                           /\ calls[1].cmd \in Outer /\ calls[1].step = "end"
  BY TopAndRest DEF Plain
<1>2. PICK begun \in Call : /\ begun = [Top EXCEPT !.step = "end"]
                            /\ begun.cmd = "s_new" /\ begun.inner = None /\ begun.step = "end"
  <2>1. [Top EXCEPT !.step = "end"] = [cmd |-> "s_new", inner |-> None, step |-> "end"]
    BY <1>1 DEF Call
  <2>2. [cmd |-> "s_new", inner |-> None, step |-> "end"] \in Call
    BY DEF Call, Plain
  <2> QED
    BY <2>1, <2>2
<1>3. calls' = [calls EXCEPT ![Len(calls)] = begun]
  BY <1>2 DEF Top
<1>4. calls \in Seq(Call) /\ Len(calls) \in 1..2
  BY <1>1 DEF CallsOK
<1>5. /\ calls' \in Seq(Call) /\ Len(calls') = Len(calls) /\ calls' # <<>>
      /\ DOMAIN calls' = DOMAIN calls /\ calls'[Len(calls)] = begun
      /\ Len(calls) = 2 => calls'[1] = calls[1]
  BY <1>2, <1>3, <1>4, ExceptSeq
<1>6. Top' = begun
  BY <1>5 DEF Top
<1>7. CallsOK'
  <2>1. CASE Len(calls) = 1
    BY <2>1, <1>1, <1>2, <1>5 DEF CallsOK
  <2>2. CASE Len(calls) # 1
    BY <2>2, <1>1, <1>2, <1>5 DEF CallsOK, Plain, Outer
  <2> QED
    BY <2>1, <2>2
<1>8. IsEnding(calls'[1], "b_read") <=> IsEnding(calls[1], "b_read")
  BY <1>1, <1>2, <1>5 DEF IsEnding
<1> QED
  BY <1>1, <1>2, <1>5, <1>6, <1>7, <1>8 DEF IsEnding

-----------------------------------------------------------------------------
(* Every step keeps the lock's books *)

\* Who writes is alone.
LEMMA WriterAlone ==
  ASSUME Lock, CanWrite
  PROVE  control # "nodes" /\ readers["main"] = 0 /\ readers["control"] = 0 /\ ~writing
BY DEF Lock, LockOK, CanWrite, Threads

\* What is at the top is not the end of /s_new unless it says so.
LEMMA NotWriting ==
  ASSUME Lock, NEW cmd, NEW step, At(cmd, step), cmd # "s_new" \/ step # "end"
  PROVE  ~writing
BY DEF Lock, LockOK, At, IsEnding

\* A step of the control thread.
LEMMA ControlKeepsLock ==
  ASSUME Lock, ControlCycle
  PROVE  Lock'
<1>1. CallsOK' /\ Top' = Top /\ UNCHANGED <<calls, graphics, writing, waiting>>
  BY DEF Lock, CallsOK, Top, ControlCycle, C_Begin, C_Process, C_Unlock, C_Persistent
<1>2. CASE C_Begin
  BY <1>1, <1>2 DEF Lock, LockOK, C_Begin, CanRead, Acquire, Threads
<1>3. CASE C_Process
  <2>1. UNCHANGED <<readers, control>>
    BY <1>3 DEF C_Process
  <2> QED
    BY <1>1, <2>1 DEF Lock, LockOK
<1>4. CASE C_Unlock
  BY <1>1, <1>4 DEF Lock, LockOK, C_Unlock, Release, Threads
<1>5. CASE C_Persistent
  BY <1>1, <1>5 DEF Lock, LockOK, C_Persistent
<1> QED
  BY <1>2, <1>3, <1>4, <1>5 DEF ControlCycle

\* A step of the graphics cycle: no message is being handled.
LEMMA GraphicsKeepsLock ==
  ASSUME Lock, G_Timer \/ GraphicsCycle
  PROVE  Lock'
<1>1. calls = <<>> /\ UNCHANGED calls
  BY DEF Lock, CallsOK, GraphicsCycle, G_Timer, EventLoop, G_Begin, G_Process,
         G_DoneActions, G_Persistent
<1>2. CallsOK'
  BY <1>1 DEF Lock, CallsOK
<1>3. CASE G_Timer
  BY <1>1, <1>2, <1>3 DEF Lock, LockOK, G_Timer, EventLoop
<1>4. CASE G_Begin
  BY <1>1, <1>2, <1>4 DEF Lock, LockOK, G_Begin, Acquire, Threads
<1>5. CASE G_Process
  <2>1. /\ graphics = "nodes" /\ Release("main") /\ graphics' = "write"
        /\ UNCHANGED <<writing, waiting, control>>
    BY <1>5 DEF G_Process
  <2> QED
    BY <1>1, <1>2, <2>1 DEF Lock, LockOK, Release, Threads
<1>6. CASE G_DoneActions
  <2>1. /\ graphics = "write" /\ graphics' = "persistent" /\ waiting' = FALSE
        /\ UNCHANGED <<readers, writing, control>>
    BY <1>6 DEF G_DoneActions
  <2> QED
    BY <1>1, <1>2, <2>1 DEF Lock, LockOK
<1>7. CASE G_Persistent
  BY <1>1, <1>2, <1>7 DEF Lock, LockOK, G_Persistent
<1> QED
  BY <1>3, <1>4, <1>5, <1>6, <1>7 DEF GraphicsCycle

\* A message arrives.
LEMMA MessageKeepsLock ==
  ASSUME Lock, HandleMessage
  PROVE  Lock'
<1>1. PICK sent \in Call : /\ calls' = <<sent>> /\ sent.step = "start"
                           /\ sent.cmd \in Plain => sent.inner = None
  <2>1. PICK m \in (Plain \cup Outer) \X {None} \cup Completions : calls' = <<Message(m[1], m[2])>>
    BY DEF HandleMessage
  <2>2. /\ m[1] \in Plain \cup Outer /\ m[2] \in Plain \cup {None}
        /\ m[1] \in Plain => m[2] = None
    BY CompletionsAssumption DEF Plain, Outer
  <2>3. [cmd |-> m[1], inner |-> m[2], step |-> "start"] \in Call
    BY <2>2 DEF Call
  <2> QED
    BY <2>1, <2>2, <2>3 DEF Message
<1>2. /\ calls' \in Seq(Call) /\ calls' # <<>> /\ Len(calls') = 1 /\ DOMAIN calls' = {1}
      /\ calls'[1] = sent
  BY <1>1
<1>3. Top' = sent
  BY <1>2 DEF Top
<1>4. graphics = "between" /\ calls = <<>> /\ UNCHANGED <<readers, writing, waiting, control, graphics>>
  BY DEF HandleMessage, EventLoop, lock
<1>5. CallsOK'
  BY <1>1, <1>2, <1>4 DEF CallsOK
<1> QED
  BY <1>1, <1>2, <1>3, <1>4, <1>5 DEF Lock, LockOK, IsEnding

\* A message returns that neither holds the lock nor takes it for longer than a step.
LEMMA ReturnKeepsLock ==
  ASSUME Lock, calls # <<>>, calls' = Return, ~writing, waiting' \in BOOLEAN,
         UNCHANGED <<readers, writing, control, graphics>>, ~IsEnding(Top, "b_read")
  PROVE  Lock'
<1>1. /\ CallsOK' /\ graphics = "between"
      /\ \/ calls' = <<>> /\ Top = calls[1]
         \/ calls' # <<>> /\ calls'[1] = calls[1] /\ ~IsEnding(Top', "s_new")
  <2>1. CallsOK /\ UNCHANGED graphics
    BY DEF Lock
  <2> QED
    BY <2>1, ReturnedCalls
<1> QED
  BY <1>1 DEF Lock, LockOK

\* A message takes up its completion message.
LEMMA NestedKeepsLock ==
  ASSUME Lock, H_b_read \/ H_d_recv \/ H_b_zero
  PROVE  Lock'
<1>1. PICK cmd \in Outer : At(cmd, "start") /\ calls' = Nested /\ UNCHANGED <<graphics, control>>
  BY DEF H_b_read, H_d_recv, H_b_zero, Outer
<1>2. Top.cmd \in Outer /\ Top.cmd = cmd /\ Top.step = "start" /\ calls # <<>>
  BY <1>1 DEF At
<1>3. /\ CallsOK' /\ Len(calls) = 1 /\ calls' # <<>>
      /\ calls'[1].cmd = calls[1].cmd /\ calls'[1].step = "end"
      /\ ~IsEnding(Top', "s_new")
  <2>1. CallsOK /\ UNCHANGED graphics
    BY <1>1 DEF Lock
  <2> QED
    BY <2>1, <1>1, <1>2, NestedCalls
<1>4. Top = calls[1] /\ graphics = "between"
  <2>1. CallsOK
    BY DEF Lock
  <2> QED
    BY <2>1, <1>2, <1>3, TopAndRest
<1>5. ~writing
  <2>1. cmd # "s_new"
    BY DEF Outer
  <2> QED
    BY <2>1, <1>1, NotWriting
<1>6. calls[1].cmd = cmd /\ calls[1].step = "start"
  BY <1>2, <1>4
<1>7. readers["main"] = 0
  BY <1>4, <1>6 DEF Lock, LockOK, IsEnding
<1>8. CASE H_b_read
  <2>1. Acquire("main") /\ UNCHANGED <<writing, waiting>> /\ cmd = "b_read"
    BY <1>2, <1>8 DEF H_b_read, At
  <2>2. readers'["main"] = 1 /\ readers'["control"] = readers["control"]
        /\ readers' \in [Threads -> Nat]
    BY <2>1, <1>7 DEF Acquire, Lock, Threads
  <2> QED
    BY <1>1, <1>3, <1>5, <1>6, <2>1, <2>2 DEF Lock, LockOK, IsEnding
<1>9. CASE H_d_recv \/ H_b_zero
  <2>1. UNCHANGED <<readers, writing>> /\ waiting' \in BOOLEAN /\ cmd # "b_read"
    BY <1>2, <1>9 DEF H_d_recv, H_b_zero, At, lock, Lock
  <2> QED
    BY <1>1, <1>3, <1>4, <1>5, <1>6, <1>7, <2>1 DEF Lock, LockOK, IsEnding
<1> QED
  BY <1>8, <1>9

\* A step of a handler.
LEMMA HandlerKeepsLock ==
  ASSUME Lock, Handler
  PROVE  Lock'
<1>1. CASE H_NoEffect
  <2>1. /\ calls # <<>> /\ CanWrite /\ Top.cmd \in {"s_new", "n_free"} /\ Top.step = "start"
        /\ waiting' = FALSE /\ calls' = Return
        /\ UNCHANGED <<readers, writing, control, graphics>>
    BY <1>1 DEF H_NoEffect, At
  <2> QED
    BY <2>1, WriterAlone, ReturnKeepsLock DEF IsEnding
<1>2. CASE H_s_new
  <2>1. /\ calls # <<>> /\ CanWrite /\ Top.cmd = "s_new" /\ writing' = TRUE /\ waiting' = FALSE
        /\ calls' = [calls EXCEPT ![Len(calls)].step = "end"]
        /\ UNCHANGED <<readers, control, graphics>>
    BY <1>2 DEF H_s_new, At
  <2>2. CallsOK
    BY DEF Lock
  <2>3. /\ CallsOK' /\ calls' # <<>> /\ IsEnding(Top', "s_new") /\ graphics = "between"
        /\ IsEnding(calls'[1], "b_read") <=> IsEnding(calls[1], "b_read")
    BY <2>1, <2>2, BegunCalls
  <2>4. control # "nodes" /\ readers["main"] = 0 /\ readers["control"] = 0
    BY <2>1, WriterAlone
  <2> QED
    BY <2>1, <2>3, <2>4 DEF Lock, LockOK
<1>3. CASE H_s_new_setup
  <2>1. /\ calls # <<>> /\ Top.cmd = "s_new" /\ Top.step = "end"
        /\ writing' = FALSE /\ calls' = Return
        /\ UNCHANGED <<readers, waiting, control, graphics>>
    BY <1>3 DEF H_s_new_setup, At
  <2>2. CallsOK
    BY DEF Lock
  <2>3. /\ CallsOK' /\ graphics = "between"
        /\ \/ calls' = <<>> /\ Top = calls[1]
           \/ calls' # <<>> /\ calls'[1] = calls[1] /\ ~IsEnding(Top', "s_new")
    BY <2>1, <2>2, ReturnedCalls
  <2> QED
    BY <2>1, <2>3 DEF Lock, LockOK, IsEnding
<1>4. CASE H_n_free \/ H_g_freeAll
  <2>1. /\ calls # <<>> /\ CanWrite /\ Top.cmd \in {"n_free", "g_freeAll"}
        /\ waiting' = FALSE /\ calls' = Return
        /\ UNCHANGED <<readers, writing, control, graphics>>
    BY <1>4 DEF H_n_free, H_g_freeAll, At
  <2> QED
    BY <2>1, WriterAlone, ReturnKeepsLock DEF IsEnding
<1>5. CASE H_sync
  <2>1. /\ calls # <<>> /\ ~writing /\ Top.cmd = "sync" /\ calls' = Return
        /\ UNCHANGED <<readers, writing, waiting, control, graphics>>
    BY <1>5 DEF H_sync, At, CanRead, lock
  <2>2. waiting' \in BOOLEAN
    BY <2>1 DEF Lock
  <2> QED
    BY <2>1, <2>2, ReturnKeepsLock DEF IsEnding
<1>6. CASE H_b_read \/ H_d_recv \/ H_b_zero
  BY <1>6, NestedKeepsLock
<1>7. CASE H_b_read_end
  <2>1. /\ At("b_read", "end") /\ calls # <<>> /\ Top.cmd = "b_read" /\ Top.step = "end"
        /\ Release("main") /\ calls' = Return
        /\ UNCHANGED <<writing, waiting, control, graphics>>
    BY <1>7 DEF H_b_read_end, At
  <2>2. CallsOK /\ ~writing
    BY <2>1, NotWriting DEF Lock
  <2>3. CallsOK' /\ graphics = "between" /\ calls' = <<>> /\ Top = calls[1]
    BY <2>1, <2>2, ReturnedCalls DEF Plain
  <2> QED
    BY <2>1, <2>2, <2>3 DEF Lock, LockOK, IsEnding, Release, Threads
<1>8. CASE H_end
  <2>1. PICK cmd \in {"d_recv", "b_zero"} : At(cmd, "end")
    BY <1>8 DEF H_end
  <2>2. /\ calls # <<>> /\ Top.cmd = cmd /\ calls' = Return
        /\ UNCHANGED <<readers, writing, waiting, control, graphics>>
    BY <1>8, <2>1 DEF H_end, At, lock
  <2>3. ~writing /\ waiting' \in BOOLEAN
    BY <2>1, <2>2, NotWriting DEF Lock
  <2> QED
    BY <2>2, <2>3, ReturnKeepsLock DEF IsEnding
<1> QED
  BY <1>1, <1>2, <1>3, <1>4, <1>5, <1>6, <1>7, <1>8 DEF Handler

\* Every step.
LEMMA LockStep ==
  ASSUME Lock, [Next]_vars
  PROVE  Lock'
<1>1. ASSUME UNCHANGED <<readers, writing, control, graphics, calls>>, waiting' \in BOOLEAN
      PROVE  Lock'
  <2>1. CallsOK' /\ Top' = Top
    BY <1>1 DEF Lock, CallsOK, Top
  <2> QED
    BY <1>1, <2>1 DEF Lock, LockOK
<1>2. CASE M_Wait
  <2>1. UNCHANGED <<readers, writing, control, graphics, calls>> /\ waiting' = TRUE
    BY <1>2 DEF M_Wait
  <2> QED
    BY <1>1, <2>1
<1>3. CASE UNCHANGED vars
  <2>1. UNCHANGED <<readers, writing, waiting, control, graphics, calls>>
    BY <1>3 DEF vars
  <2> QED
    BY <1>1, <2>1 DEF Lock
<1> QED
  BY <1>2, <1>3, ControlKeepsLock, GraphicsKeepsLock, MessageKeepsLock, HandlerKeepsLock DEF Next

-----------------------------------------------------------------------------
(* Every step does one of these things to the data *)

\* The main thread has the lock for itself when it takes it for writing.
LEMMA FreeingStep ==
  ASSUME Data, Lock, G_DoneActions \/ H_n_free \/ H_g_freeAll
  PROVE  Frees
<1>1. CanWrite /\ UNCHANGED <<todo, writing, control>>
  BY DEF G_DoneActions, H_n_free, H_g_freeAll
<1>2. control # "nodes"
  BY <1>1, WriterAlone
<1>3. done_actions' \subseteq done_actions
  BY DEF G_DoneActions, H_n_free, H_g_freeAll
<1>4. \E S \in SUBSET Synth : synths' = Free(S)
  <2>1. \A i : Named(i) \in SUBSET Synth
    BY DEF Named, Live
  <2>2. Doomed \in SUBSET Synth
    BY <2>1 DEF Doomed
  <2>3. CASE G_DoneActions
    BY <2>2, <2>3 DEF G_DoneActions
  <2>4. CASE H_n_free
    <3>1. PICK i \in Id : synths' = Free(Named(i))
      BY <2>4 DEF H_n_free
    <3> QED
      BY <3>1, <2>1
  <2>5. CASE H_g_freeAll
    BY <2>5 DEF H_g_freeAll, Live
  <2> QED
    BY <2>3, <2>4, <2>5
<1> QED
  BY <1>1, <1>2, <1>3, <1>4 DEF Frees

\* The cycles let synths report.
LEMMA ReportingStep ==
  ASSUME Data, Lock, C_Process \/ G_Process
  PROVE  Reports
<1>1. CASE C_Process
  <2>1. PICK s \in todo, reports \in BOOLEAN :
          /\ synths' = [synths EXCEPT ![s].done = synths[s].done \/ reports]
          /\ done_actions' = IF synths[s].done \/ reports
                             THEN done_actions \cup {[id |-> synths[s].id, by |-> s]}
                             ELSE done_actions
          /\ todo' = todo \ {s}
    BY <1>1 DEF C_Process
  <2>2. /\ control = "nodes" /\ UNCHANGED <<writing, control>>
    BY <1>1 DEF C_Process
  <2>3. s \in Synth /\ synths[s] \in SynthRecord
    BY DEF Data
  <2>4. PICK b \in BOOLEAN : b <=> synths[s].done \/ reports
    OBVIOUS
  <2>5. b = (synths[s].done \/ reports)
    BY <2>3, <2>4 DEF SynthRecord
  <2>6. PICK m \in SynthRecord : /\ m = [synths[s] EXCEPT !.done = b]
                                 /\ m.state = synths[s].state /\ m.id = synths[s].id
                                 /\ m.setup = synths[s].setup /\ m.done = b
    BY <2>3, MarkedRecord
  <2>7. synths' = [synths EXCEPT ![s] = m]
    BY <2>1, <2>5, <2>6
  <2>8. synths'[s] = m /\ \A x \in Synth \ {s} : synths'[x] = synths[x]
    BY <2>3, <2>7 DEF Data
  <2>9. synths' \in [Synth -> SynthRecord]
    BY <2>3, <2>7 DEF Data
  <2>10. \A d \in done_actions' \ done_actions : d = [id |-> synths[s].id, by |-> s] /\ b
    BY <2>1, <2>4
  <2> QED
    BY <2>1, <2>2, <2>4, <2>6, <2>8, <2>9, <2>10 DEF Reports
<1>2. CASE G_Process
  <2>1. PICK R \in SUBSET InTree :
          synths' = [s \in Synth |-> [synths[s] EXCEPT !.done = synths[s].done \/ s \in R]]
    BY <1>2 DEF G_Process
  <2>2. UNCHANGED <<writing, control, todo, done_actions>>
    BY <1>2 DEF G_Process
  <2>3. ASSUME NEW s \in Synth
        PROVE  /\ synths'[s] \in SynthRecord /\ synths'[s].state = synths[s].state
               /\ synths'[s].id = synths[s].id /\ synths'[s].setup = synths[s].setup
               /\ synths[s].done => synths'[s].done
    <3>1. synths[s] \in SynthRecord
      BY DEF Data
    <3>2. PICK b \in BOOLEAN : b = (synths[s].done \/ s \in R)
      OBVIOUS
    <3>3. synths'[s] = [synths[s] EXCEPT !.done = b]
      BY <2>1, <3>2
    <3>4. /\ synths'[s] \in SynthRecord /\ synths'[s].state = synths[s].state
          /\ synths'[s].id = synths[s].id /\ synths'[s].setup = synths[s].setup
          /\ synths'[s].done = b
      BY <3>1, <3>3, MarkedRecord
    <3> QED
      BY <3>2, <3>4
  <2>4. synths' \in [Synth -> SynthRecord]
    BY <2>1, <2>3
  <2> QED
    BY <2>2, <2>3, <2>4 DEF Reports
<1> QED
  BY <1>1, <1>2

\* /s_new sets up the synth it made.
LEMMA SettingUpStep ==
  ASSUME Data, Lock, H_s_new_setup
  PROVE  SetsUp
<1>1. PICK outcome \in {"complete", "broken"}, reports \in BOOLEAN :
        synths' = [s \in Synth |->
            IF s \in Live /\ synths[s].setup = "pending"
            THEN [synths[s] EXCEPT !.setup = outcome, !.done = reports]
            ELSE synths[s]]
  BY DEF H_s_new_setup
<1>2. UNCHANGED <<done_actions, todo, control>>
  BY DEF H_s_new_setup
<1>3. control # "nodes"
  BY DEF Lock, LockOK, H_s_new_setup, At, IsEnding
<1>4. ASSUME NEW s \in Synth
      PROVE  /\ synths'[s] \in SynthRecord /\ synths'[s].state = synths[s].state
             /\ synths'[s].id = synths[s].id
             /\ s \in Live => synths'[s].setup # "pending"
             /\ synths[s].setup # "pending" => synths'[s] = synths[s]
  <2>1. outcome \in {"complete", "broken"} /\ reports \in BOOLEAN
    BY <1>1
  <2>2. synths[s] \in SynthRecord
    BY DEF Data
  <2>3. CASE s \in Live /\ synths[s].setup = "pending"
    <3>1. synths'[s] = SetUp(synths[s], outcome, reports)
      BY <1>1, <2>3 DEF SetUp
    <3>2. /\ synths'[s] \in SynthRecord /\ synths'[s].state = synths[s].state
          /\ synths'[s].id = synths[s].id /\ synths'[s].setup = outcome
      BY <2>1, <2>2, <3>1, SetUpRecord
    <3> QED
      BY <2>1, <2>3, <3>2
  <2>4. CASE ~(s \in Live /\ synths[s].setup = "pending")
    <3>1. synths'[s] = synths[s]
      BY <1>1, <2>4
    <3> QED
      BY <2>2, <2>4, <3>1
  <2> QED
    BY <2>3, <2>4
<1>5. synths' \in [Synth -> SynthRecord]
  BY <1>1, <1>4
<1>6. \A s \in Live : s \in Synth
  BY DEF Live
<1> QED
  BY <1>2, <1>3, <1>4, <1>5, <1>6 DEF SetsUp

LEMMA DataEffect ==
  ASSUME Data, Lock, [Next]_vars
  PROVE  Stays \/ Begins \/ Reports \/ Frees \/ Bears \/ SetsUp
<1>1. CASE C_Begin
  BY <1>1 DEF C_Begin, CanRead, Begins
<1>2. CASE C_Process \/ G_Process
  BY <1>2, ReportingStep
<1>3. CASE C_Unlock \/ C_Persistent \/ G_Timer \/ G_Begin \/ G_Persistent
  BY <1>3 DEF Stays, C_Unlock, C_Persistent, G_Timer, G_Begin, G_Persistent
<1>4. CASE G_DoneActions \/ H_n_free \/ H_g_freeAll
  BY <1>4, FreeingStep
<1>5. CASE H_s_new
  <2>1. control # "nodes"
    BY <1>5, WriterAlone DEF H_s_new
  <2>2. \E s \in Synth, i \in Id : Born(s, i)
    <3>1. PICK s \in Synth, i \in Id, inTree \in BOOLEAN :
            /\ \A x \in Synth : synths[x].state = "unborn" <=> s <= x
            /\ Named(i) = {}
            /\ synths' = [synths EXCEPT ![s] = Newborn(i, inTree)]
      BY <1>5 DEF H_s_new, Newborn
    <3> QED
      BY <3>1 DEF Born
  <2>3. writing' /\ UNCHANGED <<done_actions, todo, control>>
    BY <1>5 DEF H_s_new
  <2> QED
    BY <2>1, <2>2, <2>3 DEF Bears
<1>6. CASE H_s_new_setup
  BY <1>6, SettingUpStep
<1>7. CASE HandleMessage \/ H_NoEffect \/ H_sync \/ H_b_read \/ H_b_read_end
  BY <1>7 DEF Stays, HandleMessage, H_NoEffect, H_sync, H_b_read, H_b_read_end, lock
<1>8. CASE H_d_recv \/ H_b_zero \/ H_end \/ M_Wait \/ UNCHANGED vars
  BY <1>8 DEF Stays, H_d_recv, H_b_zero, H_end, M_Wait, vars, lock
<1> QED
  BY <1>1, <1>2, <1>3, <1>4, <1>5, <1>6, <1>7, <1>8
  DEF Next, ControlCycle, GraphicsCycle, Handler

-----------------------------------------------------------------------------
(* The invariant *)

IInv == Data /\ Lock

LEMMA InitSynths ==
  ASSUME Init
  PROVE  /\ synths \in [Synth -> SynthRecord] /\ Live = {}
         /\ \A s \in Synth : synths[s].state = "unborn"
<1>1. PICK i \in Id : synths = [s \in Synth |-> [state |-> "unborn", id |-> i,
                                              done |-> FALSE, setup |-> "pending",
                                              inTree |-> FALSE]]
  BY IdAssumption DEF Init
<1>2. \A s \in Synth : synths[s] \in SynthRecord /\ synths[s].state = "unborn"
  BY <1>1 DEF SynthRecord
<1> QED
  BY <1>1, <1>2 DEF Live

LEMMA InitIInv == Init => IInv
<1> SUFFICES ASSUME Init PROVE IInv
  OBVIOUS
<1>1. Data
  BY InitSynths DEF Init, Data, BirthsOK, IdsUnique, CycleSeesWholeSynths, ReportersBorn,
     PendingNamesReporter
<1>2. Lock
  <2>1. calls = <<>> /\ Len(calls) = 0 /\ DOMAIN calls = {} /\ calls \in Seq(Call)
    BY DEF Init
  <2>2. CallsOK
    BY <2>1 DEF CallsOK
  <2>3. readers \in [Threads -> Nat] /\ readers["main"] = 0 /\ readers["control"] = 0
    BY DEF Init, Threads
  <2>4. writing = FALSE /\ waiting = FALSE /\ control = "between" /\ graphics = "between"
    BY DEF Init
  <2> QED
    BY <2>1, <2>2, <2>3, <2>4 DEF Lock, LockOK
<1> QED
  BY <1>1, <1>2 DEF IInv

LEMMA NextKeepsIInv == IInv /\ [Next]_vars => IInv'
<1> SUFFICES ASSUME IInv, [Next]_vars PROVE IInv'
  OBVIOUS
<1>1. Lock'
  BY LockStep DEF IInv
<1>2. Data'
  BY DataEffect, DataStays, DataBegin, DataReports, DataFreed, DataBorn, DataSetUp DEF IInv
<1> QED
  BY <1>1, <1>2 DEF IInv

LEMMA AlwaysIInv == Spec => []IInv
BY InitIInv, NextKeepsIInv, PTL DEF Spec

-----------------------------------------------------------------------------
(* The theorems *)

\* Types: the lock is counted down as often as up, and the activation records
\* stay what handle_message_locked makes of them.
THEOREM ServerTypeOK == Spec => []TypeOK
<1>1. IInv => TypeOK
  BY DEF IInv, Data, Lock, CallsOK, TypeOK
<1> QED
  BY <1>1, AlwaysIInv, PTL

\* No synth is freed under the control cycle that walks the tree by pointers,
\* and none that /s_new has not set up is met by it.
THEOREM CyclesSeeWholeSynths == Spec => []CycleSeesWholeSynths
<1>1. IInv => CycleSeesWholeSynths
  BY DEF IInv, Data
<1> QED
  BY <1>1, AlwaysIInv, PTL

\* What waits under an id for the next graphics cycle was reported by a synth
\* that had that id, and meant for it.
THEOREM ReportsNameReporters == Spec => []PendingNamesReporter
<1>1. IInv => PendingNamesReporter
  BY DEF IInv, Data
<1> QED
  BY <1>1, AlwaysIInv, PTL

\* The graphics cycle frees, by id, reporters and heirs of their ids only.
THEOREM ReportersOrHeirsGo == Spec => DoneActionFreesReporterOrHeir
<1> DEFINE Goes(s) == \/ synths[s].done
                      \/ \E d \in done_actions : d.id = synths[s].id /\ d.by \notin Live /\ d.by < s
<1>1. ASSUME IInv, [Next]_vars, graphics = "write", graphics' = "persistent",
             NEW s \in Live \ Live'
      PROVE  Goes(s)
  <2>1. G_DoneActions
    BY <1>1 DEF Next, ControlCycle, C_Begin, C_Process, C_Unlock, C_Persistent, G_Timer,
       GraphicsCycle, G_Begin, G_Process, G_Persistent, HandleMessage, Handler, H_NoEffect,
       H_s_new, H_s_new_setup, H_n_free, H_g_freeAll, H_sync, H_b_read, H_b_read_end,
       H_d_recv, H_b_zero, H_end, M_Wait, vars
  <2>2. s \in Synth /\ synths[s].state = "live" /\ synths'[s] # synths[s]
    BY <1>1 DEF Live
  <2>3. s \in Doomed
    BY <2>1, <2>2 DEF G_DoneActions, Free
  <2>4. PICK d \in done_actions : s \in Named(d.id)
    BY <2>3 DEF Doomed
  <2>5. synths[s].id = d.id
    BY <2>4 DEF Named
  <2>6. synths[d.by].done /\ (s = d.by \/ (d.by \notin Live /\ s > d.by))
    BY <1>1, <2>4 DEF IInv, Data, PendingNamesReporter
  <2>7. d.by \in Synth /\ d.by \in Int /\ s \in Int
    BY <1>1, <2>2 DEF IInv, Data, Synth
  <2> QED
    BY <2>5, <2>6, <2>7
<1>2. IInv /\ [Next]_vars
      => [graphics = "write" /\ graphics' = "persistent" => \A s \in Live \ Live' : Goes(s)]_vars
  BY <1>1
<1> QED
  BY <1>2, AlwaysIInv, PTL DEF Spec, DoneActionFreesReporterOrHeir

-----------------------------------------------------------------------------
(* The server does no more to the synths than the node tree promises *)

NamedSynths == [s \in Live |-> synths[s].id]

LEMMA SynthsGo ==
  ASSUME Live' \subseteq Live, \A s \in Live' : synths'[s].id = synths[s].id
  PROVE  Synths!Free
<1>1. DOMAIN NamedSynths = Live
  BY DEF NamedSynths
<1>2. NamedSynths' = [s \in Live \ (Live \ Live') |-> NamedSynths[s]]
  BY DEF NamedSynths
<1> QED
  BY <1>1, <1>2 DEF Synths!Free, NamedSynths

\* Commands, done actions and both cycles, under their lock, come to creating
\* and freeing uniquely named synths.
THEOREM ServerImplementsSynthIds == Spec => ImplementsSynthIds
<1>1. Init => Synths!Init
  <2>1. Init => Live = {}
    BY InitSynths
  <2> QED
    BY <2>1 DEF Synths!Init
<1>2. IInv /\ [Next]_vars => [Synths!Next]_NamedSynths
  <2> SUFFICES ASSUME IInv, [Next]_vars PROVE [Synths!Next]_NamedSynths
    OBVIOUS
  <2>1. Data
    BY DEF IInv
  <2>2. CASE Stays \/ Begins
    BY <2>2 DEF Stays, Begins, NamedSynths, Live
  <2>3. CASE Reports \/ SetsUp
    <3>1. \A s \in Synth : synths'[s].state = synths[s].state /\ synths'[s].id = synths[s].id
      BY <2>3 DEF Reports, SetsUp
    <3>2. Live' \subseteq Live /\ \A s \in Live' : synths'[s].id = synths[s].id
      BY <3>1 DEF Live
    <3> QED
      BY <3>2, SynthsGo DEF Synths!Next
  <2>4. CASE Frees
    <3>1. PICK S \in SUBSET Synth : synths' = Free(S)
      BY <2>4 DEF Frees
    <3>2. \A s \in Synth : /\ synths'[s].state \in {synths[s].state, "freed"}
                           /\ synths'[s].id = synths[s].id
      BY <2>1, <3>1 DEF Data, SynthRecord, Free, Live
    <3>3. Live' \subseteq Live /\ \A s \in Live' : synths'[s].id = synths[s].id
      BY <3>2 DEF Live
    <3> QED
      BY <3>3, SynthsGo DEF Synths!Next
  <2>5. CASE Bears
    <3>1. PICK s \in Synth, i \in Id : Born(s, i)
      BY <2>5 DEF Bears
    <3>2. PICK inTree \in BOOLEAN :
            synths'[s] = Newborn(i, inTree) /\ \A x \in Synth \ {s} : synths'[x] = synths[x]
      BY <2>1, <3>1 DEF Data, Born
    <3>3. s \notin Live /\ Live' = Live \cup {s}
      BY <3>1, <3>2 DEF Born, Newborn, Live, Synth
    <3>4. i \notin {synths[x].id : x \in Live}
      BY <3>1 DEF Born, Named
    <3>5. DOMAIN NamedSynths = Live /\ Range(NamedSynths) = {synths[x].id : x \in Live}
      BY DEF NamedSynths, Range
    <3>6. NamedSynths' = [x \in (DOMAIN NamedSynths \ {}) \cup {s} |->
                           IF x = s THEN i ELSE NamedSynths[x]]
      <4>1. \A x \in Live' : synths'[x].id = IF x = s THEN i ELSE NamedSynths[x]
        BY <3>2, <3>3 DEF NamedSynths, Newborn, Live
      <4>2. NamedSynths' = [x \in Live' |-> IF x = s THEN i ELSE NamedSynths[x]]
        BY <4>1 DEF NamedSynths
      <4> QED
        BY <3>3, <3>5, <4>2
    <3>7. \E x \in Synth \ DOMAIN NamedSynths, j \in Id \ Range(NamedSynths) :
            \E S \in SUBSET DOMAIN NamedSynths :
              NamedSynths' = [y \in (DOMAIN NamedSynths \ S) \cup {x} |->
                               IF y = x THEN j ELSE NamedSynths[y]]
      <4> s \in Synth \ DOMAIN NamedSynths /\ {} \in SUBSET DOMAIN NamedSynths
        BY <3>3, <3>5
      <4> i \in Id \ Range(NamedSynths)
        BY <3>4, <3>5
      <4> WITNESS s \in Synth \ DOMAIN NamedSynths, i \in Id \ Range(NamedSynths)
      <4> WITNESS {} \in SUBSET DOMAIN NamedSynths
      <4> QED
        BY <3>6
    <3> QED
      BY <3>7 DEF Synths!Next, Synths!New, Synths!Range, Range, NamedSynths
  <2> QED
    BY <2>2, <2>3, <2>4, <2>5, DataEffect DEF IInv
<1>3. ImplementsSynthIds <=> Synths!Init /\ [][Synths!Next]_NamedSynths
  BY DEF ImplementsSynthIds, Synths!Spec, NamedSynths
<1> QED
  BY <1>1, <1>2, <1>3, AlwaysIInv, PTL DEF Spec

=============================================================================

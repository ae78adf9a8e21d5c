------------------------------- MODULE Server -------------------------------
(***************************************************************************)
(* The server at work: class ScGraph (scgraph.cc), its control loop thread *)
(* and its main thread, which takes turns between the graphics timer and   *)
(* the OSC messages (osc_handler.cc), and the read-write lock between them. *)
(*                                                                         *)
(* Of the node tree this module keeps which synths are alive, under which  *)
(* id, and whether they hang in the tree; NodeTree has the rest.  A synth  *)
(* is an address, never used again.  Add action 4 is left out here:        *)
(* NodeTree shows what it does.                                            *)
(*                                                                         *)
(* The main thread alone ever writes, so a write section is one step that  *)
(* waits for all readers, except that of /s_new, which is split where a    *)
(* malformed argument makes it leave early.                                *)
(***************************************************************************)
EXTENDS Integers, Sequences

CONSTANTS
  Id,           (* the ids clients give to synths                          *)
  MaxSynth,     (* bound: synths created in a behaviour                    *)
  Completions   (* the <<message, completion message>> pairs clients send  *)

Plain == {"s_new", "n_free", "g_freeAll", "sync"}
Outer == {"b_read", "b_zero", "d_recv"}
None  == "none"

ASSUME BoundAssumption == MaxSynth \in Nat \ {0}
ASSUME IdAssumption == Id # {}
ASSUME CompletionsAssumption == Completions \subseteq Outer \X Plain

Synth   == 1..MaxSynth
Threads == {"main", "control"}

VARIABLES
  synths,         (* what is known of each synth                           *)
  done_actions,   (* _done_actions, with the synth that reported (history) *)
  readers,        (* how often each thread holds the lock for reading      *)
  writing,        (* the main thread holds the lock for writing            *)
  waiting,        (* the main thread waits for it                          *)
  control,        (* where the control thread is                           *)
  todo,           (* the synths its cycle has yet to reach                 *)
  graphics,       (* where the graphics cycle is                           *)
  calls           (* the activation records of handle_message_locked       *)

vars == <<synths, done_actions, readers, writing, waiting, control, todo,
          graphics, calls>>
lock == <<readers, writing, waiting>>

-----------------------------------------------------------------------------
(* Data *)

\* setup is "pending" until /s_new has set the arguments and run the control
\* units once, "broken" if its message ended early.  A synth that was to be put
\* beside the root, or into a group of which that is true, is not in the tree:
\* clients reach it by its id, but no cycle meets it.
SynthRecord == [state: {"unborn", "live", "freed"}, id: Id, done: BOOLEAN,
                setup: {"pending", "complete", "broken"}, inTree: BOOLEAN]

Live == {s \in Synth : synths[s].state = "live"}

\* The synths that the iterator of the tree meets.
InTree == {s \in Live : synths[s].inTree}

Named(i) == {s \in Live : synths[s].id = i}

Free(S) == [s \in Synth |-> IF s \in S \cap Live
                            THEN [synths[s] EXCEPT !.state = "freed"]
                            ELSE synths[s]]

Call == [cmd: Plain \cup Outer, inner: Plain \cup {None}, step: {"start", "end"}]

Top == calls[Len(calls)]

Return == SubSeq(calls, 1, Len(calls) - 1)

-----------------------------------------------------------------------------
(* QReadWriteLock, not recursive; a waiting writer keeps new readers out *)

CanRead == ~writing /\ ~waiting

\* Mutant: a writer does not wait for the readers.
CanWriteAmongReaders == ~writing

CanWrite == ~writing /\ \A t \in Threads : readers[t] = 0

Acquire(t) == readers' = [readers EXCEPT ![t] = @ + 1]
\* Mutant: one unlock too many.
ReleaseTwice(t) == readers' = [readers EXCEPT ![t] = @ - 2]

Release(t) == readers' = [readers EXCEPT ![t] = @ - 1]

-----------------------------------------------------------------------------
(* The control thread: ControlLoop::thread_func, run_one_control_cycle *)

C_Begin ==
  /\ control = "between"
  /\ CanRead
  /\ Acquire("control")
  /\ todo' = InTree
  /\ control' = "nodes"
  /\ UNCHANGED <<synths, done_actions, writing, waiting, graphics, calls>>

\* Mutant: only what is reported in this cycle counts.
C_ProcessOwnReports ==
  /\ control = "nodes"
  /\ \E s \in todo, reports \in BOOLEAN :
       LET done == reports IN
       /\ synths' = [synths EXCEPT ![s].done = @ \/ reports]
       /\ done_actions' = IF done THEN done_actions \cup {[id |-> synths[s].id, by |-> s]}
                          ELSE done_actions
       /\ todo' = todo \ {s}
  /\ UNCHANGED <<readers, writing, waiting, control, graphics, calls>>

\* Mutant: the done action of one synth is taken for that of the next ones, too.
C_ProcessStale ==
  /\ control = "nodes"
  /\ \E s \in todo, reports \in BOOLEAN :
       LET done == reports \/ \E x \in Live : synths[x].done IN
       /\ synths' = [synths EXCEPT ![s].done = @ \/ reports]
       /\ done_actions' = IF done THEN done_actions \cup {[id |-> synths[s].id, by |-> s]}
                          ELSE done_actions
       /\ todo' = todo \ {s}
  /\ UNCHANGED <<readers, writing, waiting, control, graphics, calls>>

\* GSynth::process_c, and what the cycle does with the done action that a unit
\* of the synth reported now, earlier or in a graphics cycle.  Each cycle pushes
\* it again, to the same effect as once: a set stands for the vector.
C_Process ==
  /\ control = "nodes"
  /\ \E s \in todo, reports \in BOOLEAN :
       LET done == synths[s].done \/ reports IN
       /\ synths' = [synths EXCEPT ![s].done = done]
       /\ done_actions' = IF done THEN done_actions \cup {[id |-> synths[s].id, by |-> s]}
                          ELSE done_actions
       /\ todo' = todo \ {s}
  /\ UNCHANGED <<readers, writing, waiting, control, graphics, calls>>

C_Unlock ==
  /\ control = "nodes"
  /\ todo = {}
  /\ Release("control")
  /\ control' = "persistent"
  /\ UNCHANGED <<synths, done_actions, writing, waiting, todo, graphics, calls>>

\* The persistent synths have a read section of their own and no done actions.
C_Persistent ==
  /\ control = "persistent"
  /\ CanRead
  /\ control' = "between"
  /\ UNCHANGED <<synths, done_actions, readers, writing, waiting, todo, graphics, calls>>

ControlCycle == C_Begin \/ C_Process \/ C_Unlock \/ C_Persistent

-----------------------------------------------------------------------------
(* The main thread: run_one_graphics_cycle *)

EventLoop == calls = <<>> /\ graphics = "between"

G_Timer ==
  /\ EventLoop
  /\ graphics' = "read"
  /\ UNCHANGED <<synths, done_actions, readers, writing, waiting, control, todo, calls>>

G_Begin ==
  /\ graphics = "read"
  /\ CanRead
  /\ Acquire("main")
  /\ graphics' = "nodes"
  /\ UNCHANGED <<synths, done_actions, writing, waiting, control, todo, calls>>

\* Every synth in the tree is processed; some report, as a renderer does whose window closed.
G_Process ==
  /\ graphics = "nodes"
  /\ \E R \in SUBSET InTree :
       synths' = [s \in Synth |-> [synths[s] EXCEPT !.done = @ \/ s \in R]]
  /\ Release("main")
  /\ graphics' = "write"
  /\ UNCHANGED <<done_actions, writing, waiting, control, todo, calls>>

\* The synths that G_DoneActions frees: by id, as NodeTree::done_action does.
Doomed == UNION {Named(d.id) : d \in done_actions}

G_DoneActions ==
  /\ graphics = "write"
  /\ CanWrite
  /\ synths' = Free(Doomed)
  /\ done_actions' = {}
  /\ waiting' = FALSE
  /\ graphics' = "persistent"
  /\ UNCHANGED <<readers, writing, control, todo, calls>>

G_Persistent ==
  /\ graphics = "persistent"
  /\ CanRead
  /\ graphics' = "between"
  /\ UNCHANGED <<synths, done_actions, readers, writing, waiting, control, todo, calls>>

GraphicsCycle == G_Begin \/ G_Process \/ G_DoneActions \/ G_Persistent

-----------------------------------------------------------------------------
(* The main thread: handle_message.  Messages come by UDP, so any may come    *)
(* at any time, again and in any order.                                       *)

Message(cmd, inner) == [cmd |-> cmd, inner |-> inner, step |-> "start"]

HandleMessage ==
  /\ EventLoop
  /\ \E m \in (Plain \cup Outer) \X {None} \cup Completions :
       calls' = <<Message(m[1], m[2])>>
  /\ UNCHANGED <<synths, done_actions, lock, control, todo, graphics>>

At(cmd, step) == calls # <<>> /\ Top.cmd = cmd /\ Top.step = step

\* A message that leads to no change: its id is in use, or nothing has its id.
H_NoEffect ==
  /\ At("s_new", "start") \/ At("n_free", "start")
  /\ CanWrite
  /\ waiting' = FALSE
  /\ calls' = Return
  /\ UNCHANGED <<synths, done_actions, readers, writing, control, todo, graphics>>

H_s_new ==
  /\ At("s_new", "start")
  /\ CanWrite
  /\ \E s \in Synth, i \in Id, inTree \in BOOLEAN :
       /\ \A x \in Synth : synths[x].state = "unborn" <=> s <= x
       /\ Named(i) = {}
       /\ synths' = [synths EXCEPT ![s] =
            [state |-> "live", id |-> i, done |-> FALSE, setup |-> "pending", inTree |-> inTree]]
  /\ writing' = TRUE
  /\ waiting' = FALSE
  /\ calls' = [calls EXCEPT ![Len(calls)].step = "end"]
  /\ UNCHANGED <<done_actions, readers, control, todo, graphics>>

\* The arguments are set and process_c (0) run; an argument of the wrong type,
\* or the tree's refusal of a synth beside the root, ends the message with the
\* synth as it is.
H_s_new_setup ==
  /\ At("s_new", "end")
  /\ \E outcome \in {"complete", "broken"}, reports \in BOOLEAN :
       /\ outcome = "broken" => ~reports
       /\ synths' = [s \in Synth |->
            IF s \in Live /\ synths[s].setup = "pending"
            THEN [synths[s] EXCEPT !.setup = outcome, !.done = reports]
            ELSE synths[s]]
  /\ writing' = FALSE
  /\ calls' = Return
  /\ UNCHANGED <<done_actions, readers, waiting, control, todo, graphics>>

H_n_free ==
  /\ At("n_free", "start")
  /\ CanWrite
  /\ \E i \in Id : Named(i) # {} /\ synths' = Free(Named(i))
  /\ waiting' = FALSE
  /\ calls' = Return
  /\ UNCHANGED <<done_actions, readers, writing, control, todo, graphics>>

\* Which synths are in the group is the tree's business: any may be.
H_g_freeAll ==
  /\ At("g_freeAll", "start")
  /\ CanWrite
  /\ \E S \in SUBSET Live : synths' = Free(S)
  /\ waiting' = FALSE
  /\ calls' = Return
  /\ UNCHANGED <<done_actions, readers, writing, control, todo, graphics>>

\* /sync and /status answer under the read lock.
H_sync ==
  /\ At("sync", "start")
  /\ CanRead
  /\ calls' = Return
  /\ UNCHANGED <<synths, done_actions, lock, control, todo, graphics>>

\* A completion message is handled by a recursive call.
Nested ==
  LET outer == [calls EXCEPT ![Len(calls)].step = "end"] IN
  IF Top.inner = None THEN outer ELSE Append(outer, Message(Top.inner, None))

\* /b_read and /b_allocRead keep the read lock over that call, /d_recv lets go
\* of the write lock before it, and /b_zero takes none.
H_b_read ==
  /\ At("b_read", "start")
  /\ CanRead
  /\ Acquire("main")
  /\ calls' = Nested
  /\ UNCHANGED <<synths, done_actions, writing, waiting, control, todo, graphics>>

\* Mutant: the write lock is kept over the completion message.
H_d_recvKeepsLock ==
  /\ At("d_recv", "start")
  /\ CanWrite
  /\ writing' = TRUE
  /\ waiting' = FALSE
  /\ calls' = Nested
  /\ UNCHANGED <<synths, done_actions, readers, control, todo, graphics>>

H_d_recv ==
  /\ At("d_recv", "start")
  /\ CanWrite
  /\ waiting' = FALSE
  /\ calls' = Nested
  /\ UNCHANGED <<synths, done_actions, readers, writing, control, todo, graphics>>

H_b_zero ==
  /\ At("b_zero", "start")
  /\ calls' = Nested
  /\ UNCHANGED <<synths, done_actions, lock, control, todo, graphics>>

H_b_read_end ==
  /\ At("b_read", "end")
  /\ Release("main")
  /\ calls' = Return
  /\ UNCHANGED <<synths, done_actions, writing, waiting, control, todo, graphics>>

H_end ==
  /\ At("d_recv", "end") \/ At("b_zero", "end")
  /\ calls' = Return
  /\ UNCHANGED <<synths, done_actions, lock, control, todo, graphics>>

Handler == H_NoEffect \/ H_s_new \/ H_s_new_setup \/ H_n_free \/ H_g_freeAll \/ H_sync
           \/ H_b_read \/ H_b_read_end \/ H_d_recv \/ H_b_zero \/ H_end

\* The main thread has asked for the write lock and does not get it yet.
M_Wait ==
  /\ \/ graphics = "write"
     \/ \E cmd \in {"s_new", "n_free", "g_freeAll", "d_recv"} : At(cmd, "start")
  /\ ~CanWrite /\ ~waiting
  /\ waiting' = TRUE
  /\ UNCHANGED <<synths, done_actions, readers, writing, control, todo, graphics, calls>>

-----------------------------------------------------------------------------

Init ==
  /\ synths = [s \in Synth |-> [state |-> "unborn", id |-> CHOOSE i \in Id : TRUE,
                                done |-> FALSE, setup |-> "pending", inTree |-> FALSE]]
  /\ done_actions = {}
  /\ readers = [t \in Threads |-> 0]
  /\ writing = FALSE
  /\ waiting = FALSE
  /\ control = "between"
  /\ todo = {}
  /\ graphics = "between"
  /\ calls = <<>>

Next == ControlCycle \/ G_Timer \/ GraphicsCycle \/ HandleMessage \/ Handler \/ M_Wait

Spec == Init /\ [][Next]_vars

\* A cycle or a message that has begun runs on.  That one begins is not granted:
\* /controlRate 0 and /graphicsRate 0 end the cycles (control_loop.cc, graphic_loop.cc).
Fairness == /\ WF_vars(control # "between" /\ ControlCycle)
            /\ WF_vars(GraphicsCycle \/ Handler \/ M_Wait)

FairSpec == Spec /\ Fairness

-----------------------------------------------------------------------------
(* Properties *)

TypeOK ==
  /\ synths \in [Synth -> SynthRecord]
  /\ done_actions \subseteq [id: Id, by: Synth]
  /\ readers \in [Threads -> Nat]
  /\ writing \in BOOLEAN
  /\ waiting \in BOOLEAN
  /\ control \in {"between", "nodes", "persistent"}
  /\ todo \subseteq Synth
  /\ graphics \in {"between", "read", "nodes", "write", "persistent"}
  /\ calls \in Seq(Call)

\* The control cycle walks the tree by pointers while the main thread handles
\* messages: no node it has yet to reach is freed under it, and none is created
\* but not set up.
CycleSeesWholeSynths ==
  control = "nodes" => /\ todo \subseteq Live
                       /\ \A s \in todo : synths[s].setup # "pending"

\* A recorded done action comes from a synth whose unit reported one, and waits
\* under an id only: that id is its reporter's, or, once the reporter is freed,
\* that of a younger synth.
PendingNamesReporter ==
  \A d \in done_actions :
    /\ synths[d.by].done
    /\ \A s \in Named(d.id) : s = d.by \/ (d.by \notin Live /\ s > d.by)

\* Executing the done actions, by id, frees who has reported one, or the heir of
\* its id: a younger synth that got the id of a reporter which was freed between
\* the two cycles (scgraph.cc run_one_control_cycle, run_one_graphics_cycle).
DoneActionFreesReporterOrHeir ==
  [][graphics = "write" /\ graphics' = "persistent"
     => \A s \in Live \ Live' :
          \/ synths[s].done
          \/ \E d \in done_actions : d.id = synths[s].id /\ d.by \notin Live /\ d.by < s]_vars

\* The two threads together do no more to the synths than the tree promises.
Synths == INSTANCE SynthIds WITH named <- [s \in Live |-> synths[s].id]

ImplementsSynthIds == Synths!Spec

\* As long as control and graphics cycles go on to come, a synth in the tree whose
\* unit reports done action 2 goes, though its report passes through another
\* thread, a vector and an id (scgraph.cc run_one_control_cycle,
\* run_one_graphics_cycle).
DoneSynthsGo ==
  []<>(control = "nodes") /\ []<>(graphics = "read") =>
    \A s \in Synth : (s \in InTree /\ synths[s].done) ~> s \notin Live

\* Every message that is taken up is dealt with, its completion message too.
HandlerReturns == calls # <<>> ~> calls = <<>>
=============================================================================

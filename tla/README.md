# A verification development of the ScGraph server

ScGraph is a graphics server: clients send it OSC messages over UDP that put *synths* and
*groups* into a tree; a control thread runs the control units of the synths, the main thread
runs their graphics units and renders. This directory holds TLA+ models of its core, TLC
configurations that check them on small instances, and proofs that TLAPS checks for every
instance. `PROJECT.json` says which source lines each definition stands for, which runs and
theorems there are, which mutation of the code each property refutes, and where the code is
hard to test.

## 1. The system

| Component | State | Operations | Meets the others through |
|---|---|---|---|
| **Node tree** (`node_tree.*`, `tree.h`, `node.*`, `group.*`) | an intrusive tree: nodes with parent, previous, next, first and last child; `_node_map` from ids to nodes | `s_new`, `g_new` (add actions 0 to 4), `n_free`, `g_freeAll`, `done_action`, `n_set`, look-ups, iterators | calls from the OSC commands and the cycles; no lock of its own |
| **Server** (`scgraph.*`, `control_loop.*`, `graphic_loop.*`, `synth.*`, `unit.*`) | `_read_write_lock`, `_done_actions`, the persistent synths, each synth's units | control cycle (own thread), graphics cycle (Qt timer) | the lock; the vector of done actions; the busses |
| **OSC commands** (`osc_handler.cc`) | `_notifications` | one case per command; completion messages by a recursive call | the lock, held for each command's own stretch |
| **Receiver and shutdown** (`osc_handler.cc`, `oscpack/ip/posix/UdpSocket.cpp`, `main.cc`, `control_loop.cc`) | `break_`, the break pipe, the socket, Qt's queue of posted messages, `_quit`, `_freq` | receive, post, break, stop, join | a queued Qt signal to the main thread; the break pipe; a mutex |
| **Video textures** (`video_texture.*`, `plugins/quad.*`) | the decode queue, the worker's future, the two buffers of each quad | request, decode, flip | a thread of Qt's pool; queued signals in a circle quad, worker, renderer, quad |
| **Texture pool and windows** (`texture_pool.*`, `texture.*`, `plugins/gl_renderer.*`) | textures by index and frames by id in the pool; in each window a context, handles by index and id, the ring of past frames | load, change, paint, upload, delete, draw, open and close a window | queued Qt signals; OpenGL's current context |
| **Busses and controls** (`in_out.*`, `control.*`, `graphics_bus.*`) | control and graphics busses, last cycle's graphics busses, the parameters of synths | `In`, `InFeedback`, `Out`, `ReplaceOut`, `XOut`, `Control`, `TrigControl`, `/c_set`, `/n_set`, `/n_setn` | written by both threads, parameters partly without the lock |
| **Synth definitions, units** (`synthdef*`, `plugin*`, `synth.*`, `sc_*`) | pools of definitions and of plugins, the "current synth" of the pool, the units of each synth with their outputs | load, make a synth, adapt SuperCollider's units, mark a synth as done | the current synth; the done flag that the server's cycle reads |
| **Graphics units** (`cow_ptr.h`, `graphics.h`, `plugins/*`) | the pictures of each unit: cells for geometry, faces and transformations, shared by `cow_ptr`s | make, move, colour, fade, mix, put on a bus | the cells that units, busses and past busses share |
| **Renderer** (`plugins/gl_renderer.cc`) | the state of an OpenGL context, textures of a window | switch, draw, copy the frame | the graphics it takes in; the state it leaves for the next frame |
| Shader and string pools | programs and strings by index | set, change | a queued Qt signal |
| Object loader, options, JACK client | no protocol state | parsing, samples | values on the busses |

What is hard: the control thread walks by pointers a tree the main thread edits; done actions
travel from a unit to the tree by id, over a cycle of the other thread; commands recurse; the
lock is not recursive but the commands are; `g_freeAll` recurses by id while it follows saved
pointers; a sibling list is repaired by cases; parameters are written while they are read and
cleared; which synth is done is told by a global pointer; a picture that is written may be held by
others, in this cycle or from the last one; OpenGL keeps what a frame leaves; messages are lost,
repeated and reordered by UDP; threads are stopped by a flag and a pipe. What makes each component correct:

* **Node tree**: lists are well formed, nothing hangs below a freed node, what the map holds is
  alive, a live synth is the one its id names, `g_freeAll` empties its group and ends.
* **Server**: no cycle sees a synth that is freed or half made, done actions free the synths
  that reported them or the heirs of their ids, they arrive as long as cycles come, no thread
  waits for ever.
* **Receiver**: malformed packets do not stop it, the shutdown ends, and only after both threads
  are gone is anything deleted.
* **Video textures**: every request is decoded, by one worker at a time, into a buffer not shown.
* **Textures**: once the signals are delivered a window shows what the pool holds, but for frames
  it was never told of, and no texture of its context is lost.
* **Synths and busses**: units have run before a graphics cycle meets them, a trigger that was set
  under the lock arrives, a reader gets what the writer before it wrote in this cycle, a done action
  marks the synth whose unit reported, what is set reaches the control that puts it out, if cycles
  come and meet the synth.
* **Pictures**: what one unit does to a picture is not seen by those who share its cells, nor in
  the past bus; what a window draws depends on what it drew before only where the code sets nothing
  anew: the depth test, the shade model, the shader program.

The places where this code is hard to test, with the properties that cover them or the reason why
none does, are the `hazards` of `PROJECT.json`.

## 2. The modules

| Module | What it models |
|---|---|
| `SynthIds` | what the tree promises: synths come and go, each with an id no other has |
| `NodeTree` | the heap of nodes with their pointers, the id map, every command on the tree, `g_freeAll` loop turn by loop turn; implements `SynthIds` |
| `TreeWalk` | extends `NodeTree` by both iterators and `n_set` over a group, as functions of a state of the tree; a loop is the function from its turns to where it has come to |
| `Server` | both cycles, the timer, the lock, the OSC commands as handler steps with their locks, done actions; implements `SynthIds` too, with the tree taken as that set |
| `Synths` | the control side of the synths: definitions become units, units run in the control cycle, messages change parameters and the bus between and within cycles |
| `PictureValues` | what graphics units promise each other: a picture is a value |
| `Pictures` | the graphics cycle over shared `cow_ptr` cells, the graphics bus and its past; implements `PictureValues` |
| `Drawing` | what the graphics of a bus do to the state of an OpenGL context, from shape to shape and from frame to frame; used by `Pictures` |
| `Receiver` | the receive, main and control threads from start to the end of `main`: select, break pipe, exceptions, signals, `/quit` |
| `VideoTexture` | a quad, its two buffers, the decode queue, the workers, the renderer's part of the circle |
| `Textures` | the texture pool, the `/b_` commands, the windows with their contexts, handles and past frames |
| `DataLemmas` | facts about sequences, finite sets and loops written as recursive functions, on which several of the proofs rest |
| `NodeTreeProofs`, `ServerProofs`, `ReceiverProofs`, `VideoTextureProofs`, `SynthsProofs`, `TexturesProofs`, `PicturesProofs` | the theorems about the module of that name, `NodeTreeProofs` about `TreeWalk` too |
| `MC...` | values for the constants that a `.cfg` cannot write |

`NodeTree` and `Server` meet in `SynthIds`: the detailed tree is shown to be a set of uniquely
named synths, and `Server` uses it as one. `Server` has the lock and knows of a synth only whether
it is whole and done; `Synths` looks inside: a message that takes the write lock is a step between
two control cycles, one that does not is a step anywhere. `Pictures` goes on where `Synths` ends,
with the outputs of control units as the inputs of graphics units. `VideoTexture` follows one video
frame through all threads; `Textures` takes its worker as one step and follows what windows make of it.

### NodeTree

`heap` maps a node to its record (kind, id, parent, previous, next, start, end) or to a freed one;
nodes are numbered in the order of allocation and never given again, so that a pointer to a freed
node is told from one to its successor. `node_map` is `_node_map`. `walk` is the call stack of
`g_freeAll`: for each level the group and the child it has reached. A loop turn is a step
(`g_freeAll_synth`, `g_freeAll_group`, `g_freeAll_return`); nothing else runs meanwhile, for the
main thread alone edits the tree. Commands name ids that may be unknown, of the wrong kind, of the
root, or in use; an error path that leaves the tree changed (a node that is in the map and hangs
nowhere) is part of the action. If a command reaches a freed node through the map or a saved
pointer, `fault` becomes true and the behaviour ends: what the process does then is undefined.
`_last_id` is written and never read, and left out. `get_index` is a search in a list of names.

### Server

The control thread, the main thread and its timer. `/s_new` is two steps (the node is entered
under the write lock; the first control cycle and the arguments come after it), every other section
under the write lock is one step, for only the main thread writes. A reader section is as many
steps as the code leaves between its reads. A message may carry a completion message, which is
handled by a recursive call within the outer command's locks: `calls` is that stack. A synth is
"half made" between its insertion and the end of its set-up. A synth that is put beside the root
throws in the tree but stays in the map, and so does one that is put into a group of which that is
true: `inTree` is false of it, no cycle meets it (`InTree`), and a client reaches it by its id. A
done action other than 2 has no effect and is left out. Repeated reports of one synth in one control
cycle are one. The persistent synths, which the option `-s` makes from files before any thread
starts, hang in no tree and have no done actions: of them the model has the read section at the end
of each cycle.

### Synths

A definition is a sequence of units with a rate and the units that feed them. `synths` holds which
definition a synth has, how far `/s_new` came with it and by whom it was marked as done; `params`
are its `_parameters`, `outs` the outputs of its units, `ran` the units that have run (and so, for
the wrapper of a SuperCollider unit, whether its `_unit` is set). `current` is
`PluginPool::_current_synth`, which `process_c` sets for each synth and `fDoneAction` reads;
`GSynth`'s constructor runs the scalar units without setting it. `s_new` is the whole command:
create the units, run the scalar ones, set the arguments, `process_c(0)`. It fails where
`create_unit` or a scalar unit throws. A control unit that throws does not end `process_c`, which
catches. `C_Unit` runs one unit, and `RunUnits`, the loop over the units of one rate, is a recursive function
over their places. `order` is the list of synths by place, as a cycle meets them; a new synth may be
in none, if its group hangs nowhere; `n_free` takes a synth out of it if it is in it (`Leaves`).
`TrigControl` is two steps, `C_CopyTrigger` and `C_ClearTrigger`,
for `/n_set` with an index and `/n_setn` take no lock and can come between (`n_set_index`).
`misused` names the first use of a pointer that leads nowhere: a done action while no synth is
current, or the destructor of a wrapper that never ran. What follows is undefined, so the model
stops there; `MisusedByBadDefinition` says when it cannot come to that. Persistent synths are left
out: they would stand for one more synth that cycles meet and no message reaches.
`XOut` at control rate weighs the bus by 1 - input, as the code does, where the comment above it
says 1 - xfade.

### Pictures, PictureValues, Drawing

`memory` is the heap: cells for graphics, faces and transformations, and `at`, which leads from
each holder (a unit's own object or transformation, its output, the bus, the past bus) to the
sequence of cells it points to. A cell that nobody holds is gone (`Held`).
A command is made without a value: what it holds until its unit first runs is the constant `Unset`. `Touch` is
`cow_ptr::touch`: it copies the cell, and the copy has the same faces and transformations, which
are `cow_ptr`s to be touched in their turn. `Process` is `process_g` of one unit; shapes stand for
the families that write to a face (`quad`, `line`), or to a transformation (`cube`), commands for
those that only carry a switch. A unit that changes pictures in place does so with the output it
has just copied its input to, element by element (`Alter`, `AlterEach`, `Filter`). `PictureValues` has the same units over plain values; `Pictures`
implements it with `Picture`, the value behind a cell, as the mapping. A renderer draws its input:
`Drawing` has the state of blending, culling, light, depth test and shade model, and whether a shader
program is in use, after each picture; a command overwrites the modes it names and no other
(`Switched`). The build modelled is the usual one, with shaders (`HAVE_SHADERS`). A line switches
light on again by the window's setting, whatever a lighting command before it said; that is a
divergence from the help file of GLighting, noted in the hazards.

### Receiver

`SocketReceiveMultiplexer::Run` step by step, re-entered by `OscHandler::run` after an exception.
Packets are bundles whose elements may be malformed. The main thread's program: start the threads,
enter the event loop, handle posted messages, and on `/quit` or a signal leave it, break the
receiver, wait for it, stop the control loop, join it, delete. Failures of select and of the socket
end the process and are left out, as are oscpack's timers, of which there are none.

### VideoTexture

Requests carry the buffer and the frame; `_future` is the worker the video believes in. Workers are
started by `QtConcurrent::run`, queued for a pool of `PoolThreads` threads. The renderer's upload
takes two steps, so that a worker can write the texture it is reading. `late` and `failures` are
history variables.

### Textures

`textures` and `frames` are `_textures` and `_tmp_textures`; a picture is a number, and size and
pixels are left out. `events` is the queue of signals to the windows. `gl` gives each window's
context the picture behind each name and the texture that is bound; `current` is the context that
was made current last. `glGenTextures` gives the smallest unused name: one of the choices OpenGL
has, and the one under which names are given again soonest. `Draw` takes a scene, a sequence of
faces, and does what `draw_face` and the copy after it do to the bindings; the rest of drawing is
left out. A worker is one step, `really_get_frame`, with three ends: a picture is decoded and the
windows are told; nothing could be sought or no memory was there, and they are told all the same; or
the video is at its end, no frame comes or the scaling fails, and they are told nothing. In each case a
texture that was not there is in the pool by then, empty if no picture came (`Room`), and `announced`
remembers whether the windows heard of it when it was made. If they did not, all later signals say
that the texture is the one they know, and the pictures go to texture 0. `WindowShowsFrames` states
that exception and no other. The constant `Trouble` names three things that happen in the code and that break the
properties: a worker that decodes for a quad that is gone ("late"), a quad that changes to a video
of another size ("resize"), and a command with an argument of the wrong type ("malformed"). The run
leaves them out, and has one window; what follows from each, and from a second window, is in the
hazards.

## 3. The runs

| Run | Question and answer |
|---|---|
| `tree` | After any sequence of commands with every add action: are lists, groups and the map consistent, does `g_freeAll` keep its place, empty its group and end, do both iterators visit each node once and in order, does `n_set` reach the group it names? Yes, up to the moment a freed node is used. |
| `tree_replace` | Is what the map leads to alive? Not after add action 4 (a finding); without it, it is (theorem `NothingDangles`). |
| `server` | With ids given again: does a cycle see only whole synths, does a done action free the synth that reported it or the heir of its id, do done synths go, does every message get its end, is no thread stuck? Yes, done synths as long as both cycles go on to come and if they are in the tree; deadlock is checked. |
| `server_completion` | Do `/b_read` and `/b_allocRead` return whatever their completion message? No (a finding). |
| `synths` | Have the units of a synth run before a graphics cycle meets it, do triggers arrive once, do readers see the writers before them, does a done action mark its own synth, do parameters reach their controls? Yes, the last for synths in the tree as long as control cycles come; and pointers lead nowhere only after a bad definition or a malformed message. |
| `pictures` | Do shared cells behave like values, is what a window draws independent of its earlier frames? Yes, but for the depth test and smooth shading, which blending ends for good, and for the shader program the last frame left, up to the first shader command. |
| `receiver` | Is everything that arrives handled, does a break end the loop, does `_quit` end the control thread, is nothing deleted while it is used? Yes, for breaks taken by the loop that is running. |
| `receiver_break` | Does a break end the receiver whenever it comes? No: `Run` forgets it at its beginning (a finding). |
| `video` | Does one worker decode at a time, does a worker leave nothing behind it, does the quad end up with the last picture it asked for? Yes, with the exceptions that `late` and `failures` name. |
| `video_buffers` | Does an upload read one whole picture? No (a finding). |
| `textures` | Does a window show the pool's images and the quads' frames once its signals are delivered, and lose no texture? Yes, with one window and without the troubles above, and but for a buffer whose first decoding came to nothing. |
| `textures_feedback` | Does a face get the past frame it asks for? No, if there is more than one (a finding). |

Each property of a passing run has a mutant in `PROJECT.json`: the change of the code's model that
the property refutes.

### Bounds

* `tree`: five allocations, of which the constructor takes two, and ids 0 to 2: three nodes come
  and go below two groups, requests collide, ids run out and are given again, groups nest,
  and a group's id can be taken by another while the group is still in the tree. About 70,000
  states. The theorems have no bound.
* `server`: two ids and two synths over time, so that an id is given again while a done action is
  pending and one synth is freed while the other is being made, each in the tree or not. 125,000 states. The theorems of
  `ServerProofs` have no bound.
* `synths`: two synths alive at a time, values 0 and 1, seven definitions: a
  parameter that is written to the bus behind a unit that throws, a reader of the bus, a trigger
  that is added to it, a SuperCollider unit at each rate, `XOut` before a `ReplaceOut`, one with an
  unknown unit and one whose scalar unit throws; each synth in the order of the cycles or not.
  182,000 states.
* `pictures`: four programs (makers, filters over a mix of shared inputs, a feedback loop, a
  renderer behind a shader, blending, lighting and culling command and a line), control values 0 and
  1, windows with light and with the clear mode, three cycles, so that a picture goes to the bus, to
  the past bus and back and a window draws after a frame that left each state behind, three synths
  made. 291,000 states.
* `receiver`: two packets, two signals, and at most one cycle owed to the control thread: enough
  for a malformed packet before a good one and a signal at each point of the shutdown. 68,000 states.
* `video`: four requests over two buffers and two pool threads, so that a second worker can start
  while the first returns; one failure of the library. 587,000 states.
* `textures`: two textures, one quad with two buffers, three pictures, two drawn frames, a ring of
  two, seven names (more than can be in use, so that the least name is always free), and no new
  command while more than one signal is queued, which leaves each signal of a change and of a quad's
  end in a queue with those of others. The two buffers are two users of the frames' names; quads
  share nothing else. 3.4 million states. The theorems have any number of quads.
* `textures_feedback`: three frames and a ring of two.

`CHECK_DEADLOCK FALSE` stands where the bounds run out (`tree`, `video`, `textures`, `pictures`),
where the model stops because a pointer led nowhere (`synths`), where the process ends (`receiver`),
and in the runs that show a finding. Run `server` models a system that never stops.

### Fairness

* `NodeTree`: a call of `g_freeAll` that has begun runs on; it is a loop in a single thread.
* `Server`: weak fairness of a control cycle that has begun, and of the main thread's current
  activity (a message, a graphics cycle, a wait for the lock), which the operating system's scheduler
  gives. That a cycle begins is not assumed: `/controlRate 0` and `/graphicsRate 0` end them for good.
  `DoneSynthsGo` has in its premise that both cycles go on to come. Messages need not come.
* `Synths`: weak fairness of a control cycle that has begun; `SetReachesOuts` has in its premise that
  cycles go on to come. Messages need not come.
* `Receiver`: weak fairness of each of the three threads. Nothing is assumed of the network or of
  signals.
* `VideoTexture`: weak fairness of the main thread and of the workers that the pool runs.
* `Textures` and `Pictures` state safety only.

## 4. The proofs

The theorems hold for every value of the constants: every number of nodes, ids, synths, packets,
pool threads, requests, textures and cycles, every set of definitions, programs and scenes.

| Module | Theorems | Say |
|---|---|---|
| `NodeTreeProofs` | `TypeCorrect`, `ListsWellFormed`, `NoOrphans`, `SynthsReachable`, `IdsNameTheNewest`, `FreeAllInPlace`, `LoopsClearGroups`, `RootStays` | invariants of run `tree`, and that the root group survives |
| | `NothingDangles` | without add action 4 the map leads to live nodes only and no freed node is ever used |
| | `TreeImplementsSynthIds` | `NodeTree` implements `SynthIds` |
| | `IteratorsInOrder`, `SetsReach` | in every state, both iterators visit each node of the tree once, in order, and end; `n_set` ends and reaches every synth it should |
| `ServerProofs` | `ServerTypeOK`, `CyclesSeeWholeSynths` | types, and that the lock keeps half made and freed synths from the control cycle |
| | `ReportsNameReporters`, `ReportersOrHeirsGo` | whom a pending done action names, and whom the graphics cycle frees |
| | `ServerImplementsSynthIds` | `Server` implements `SynthIds` |
| `ReceiverProofs` | `ReceiverTypeOK`, `DeletedAfterThreads` | nothing is deleted under a running thread |
| `VideoTextureProofs` | `VideoTypes`, `OneDecodes`, `QuietShowsLastHolds` | one worker at a time uses codec and stream, and a quad ends up with the picture it asked for last |
| `TexturesProofs` | `TexturesTypes` | the pool and the windows keep their types, whatever goes wrong |
| | `WindowShowsPoolHolds`, `WindowShowsFramesHolds`, `NoTextureLeaksHolds` | one window shows what the pool holds, but for frames it was never told of, and loses no texture |
| `SynthsProofs` | `SynthsTypes`, `DoneIsOwn`, `CurrentIsWhoRuns` | whom a done action marks |
| | `UnitsRunFirstHolds`, `MisusedByBadDefinitionHolds` | units have run before a graphics cycle meets them, and before their synth is freed |
| | `TriggersArriveOnceHolds`, `ReaderFollowsWriterHolds` | what is set, and what is written to the bus, arrives |
| `PicturesProofs` | `PicturesTypes`, `TouchKeepsPictures`, `WritesStayPrivate` | a touched cell is its holder's alone, and a write to it changes no other picture |
| | `CellsStandForValues` | `Pictures` implements `PictureValues` |
| | `FramesAreIndependentHolds` | how little of what a window draws depends on its earlier frames |

The only assumptions are those on the constants that the modules declare, and what these theorems
state in front of them: `NothingDangles` that 4 is no add action, the last three of
`TexturesProofs` that there is one window and none of the troubles. TLC evaluates the former in
the runs, and the constants of run `textures` satisfy the latter; run `tree_replace` shows that
`NothingDangles` needs its own. Each inductive invariant below was checked by TLC on all states of
its run before it was proved.

*Node tree.* None of the invariants is inductive alone: that `Delete` leaves the lists well formed needs to know
that what is deleted is closed below, which needs that every child lies below a group older than it
(`BelowOlderGroup`, which also rules out cycles), that a synth has no children, and that the map's
newest entry is the one a look-up returns. `IInv` is their conjunction with the place of the walk.
The proof has three layers: lemmas on the heap operations (what `Fresh`, `Splice`, `Unlink` and
`Delete` do to well-formed lists); one lemma per action, under it a step per part of `IInv`; and
`NextKeepsIInv`, from which the theorems follow. The refinement is proved from the same
invariant: a step of the tree adds one synth whose id is unused, or removes some, or stutters.
`LoopsClearGroups` says what a whole loop of `g_freeAll` has done. Its invariant `Cleared` gives
each record of the call stack the set of nodes that its loop will still meet: all synths of the
group are in it, and every node of it is the one met next or comes right behind another. A list of
siblings has no circle (its nodes can be ranked, `NoCircle`), so at the end of the loop, where no
node is met next, the set is empty. Between, calls for other groups free nodes and sets; that they
free none that a loop further up is to meet next is `FreeAllInPlace` again.

*The walks.* They change nothing, so everything is proved of one state in which `IInv` holds. The
stack of an iterator is a path from the root (`Path`), with one sibling at most of each list on it
and every group around a node of it on it too. `PostAhead` and `PreAhead` say what is ahead of the
loop: with the set R of nodes not yet visited, which siblings and which children of a node are in R,
by where the node lies with respect to the stack. One lemma per case of `++` shows that a turn takes
the top of the stack out of R and leaves the rest as it should be (`PostNext`, `PreDown`, `PreOn`,
`PreEnds`). As no node is visited twice, by the pigeonhole principle the loop is over within
`MaxNode` turns (`LoopEnds`, `LoopVisits`), and then R is empty. What is ahead when a node is visited
comes after it: that is the order. `n_set` calls itself for younger nodes only (`CallsYounger`, from
`NewestOwnsId`), so it ends; the oldest node on the way to a synth that it did not come to would be
a child of one it did.

*Server.* `IInv` is `Data` (what a synth's record, the pending reports and the call stack may be)
and `Lock` (how often each thread holds the lock follows from where it is, and a synth is half
made only while the main thread writes). The second is what the invariant of the cycle rests on: a
control thread that walks holds the lock for reading, so nobody writes, so whatever is in `todo` is
alive and whole. Every step is one of six kinds (it leaves the synths alone, begins a cycle,
reports, frees, enters a synth, completes one); each kind keeps `Data`, and each maps to a step of
`SynthIds` or a stutter.

*Receiver.* `StopOrder` follows the main thread through the shutdown: what each of its places says
about the two threads. The join of a thread needs that it has ended, and it never starts again.

*Video textures.* Workers succeed each other: a worker that leaves requests behind starts the next one
and then assigns it to `_future`. `Succession` says that only the youngest is at work, and that
whoever asks whether one is running is led to it from the worker `_future` belongs to, over workers
that have yet to assign their successors. A late assignment to `_future` breaks this, and the
theorem excludes it as the invariant of the run does. `Delivery` adds what happens to a request:
`Rest`, the last one is in the queue, with the youngest worker, in a texture whose signal is under
way, or shown; `Room`, requests queued and carried and signals together are no more than were
asked for, so that a bound on the queue is met by none; `Flawless`, what a failure may have left.

*Textures.* Types hold for any constants (`WellFormed`). The rest needs `Simple`: one window, no
trouble, and a scene that has a past frame draws one last, for the code copies the window to
whichever texture is bound at the end (finding `textures_feedback`). Then `Consistent` is
inductive. `Signals` is the grammar of the queue: word of a new texture for a buffer comes before
word of further pictures in it, unless it never came, and word of the buffer's end after all, each
about a quad that is there or whose end is in the queue. `Accounts`
gives every name in use exactly one owner (an image's handle, a buffer's handle of a quad that is
not forgotten, a place in the ring); so a name that is generated belongs to nobody, one that is
deleted is nobody's afterwards, and no upload and no copy of a frame writes to another's texture.
`ImagesShown` and `FramesShown` are the two properties themselves, for one open window.

*Synths.* `DoneInv`: while a cycle is on, the current synth is the one at the cycle's position, so
that `Mark` writes to it; between cycles only the scalar units of a new synth can mark.
`UnitsInv` adds which units have run (`StateOK`, `UnitsRunFirst`, `TriggersSet`): what one unit
changes is stated once (`UnitDoes`), and a loop over the units of a rate leaves what no turn of
it touches (`RunUnitsLeaves`). `Reading` is the invariant of a cycle for `ReaderFollowsWriter`: behind the cycle's place,
each `In` that follows a `ReplaceOut` holds the value that one wrote, and until another unit writes
the bus still has it. It needs that no step of the main thread which holds no lock writes to the
bus or to outputs.

*Pictures.* `WellFormed` is a heap where no pointer leads nowhere. `touch` leaves every picture as
it is and its result unshared, and a write to a face of an unshared cell leaves all other pictures
as they are. From these two, each operation changes the pictures of one place only (`OnlyAt`), the
place it writes to, and changes them there as `PictureValues` says; loops over an input keep this
turn by turn. A unit is a sequence of such operations (`ProcessOK`). `IInv` says of the whole state
that every graphics cell is held, that each live unit has the cells its constructor made and a freed
one has none (`Placed`), that what is drawn came through one frame (`Window`). The refinement then
goes action by action. `FramesAreIndependent` is proved over the states that
`Visited` goes through within a frame: two frames over the same input that begin differently agree
in blending, light and culling from `FrameStart` on; a depth test, or smooth shading, that one has lost
is never won back; and the first shader command makes the programs equal.

Loops that the code writes as loops are recursive functions over their turns here, and are proved
about with two lemmas of `DataLemmas`: what holds at first and is kept by each turn holds after
every turn (`EveryTurn`), and a loop of any number of turns has a result (`TurnsAdd`). Both are
stated with sets and functions, for induction over an operator is out of the provers' reach.

Model-checked only: liveness (`FreeAllEnds`, `DoneSynthsGo`, `HandlerReturns`, `AllIsHandled`,
`BreakEndsLoop`, `QuitEndsControl`, `WorkerEmptiesQueue`, `SetReachesOuts`), which with fairness and
`ENABLED` is out of the provers' reach. With more than one window, or with one of the
troubles, nothing of `Textures` but its types is claimed: the hazards say what happens then.


## 5. Not modelled

* `/notify` (a list of addresses), `/status`'s figures, the graphics rate, strings, fonts and shader
  programs: output, or a value stored for one reader.
* The pool of definitions, definition files and the loading of plugins: a map from names, parsing,
  and the dynamic linker. `Synths` takes definitions as given, malformed ones among them.
* Several busses of one rate: the number comes from an input, and busses do not affect each other.
  `XFade2` is the two halves of `XOut` without a bus.
* What the units of persistent synths do: no message reaches them, and their done actions are not
  looked at.
* What the numbers are: geometry, matrices, colours, materials, light sources, cameras. The other
  shapes and transformations are like the ones in `Pictures` with other numbers.
* The recorder and the object loader: files. Options: read once, before any thread starts.
* The JACK client: an optional input behind a try-lock.
* SuperCollider's classes (`src/sc`): the client. Vendored code (GLEW is two thirds of all lines),
  but for the receive loop of oscpack.

## 6. Plan

In the order of their weight:

1. Clients that are notified (`/notify`, `/n_go`, `/n_end`), with messages that are lost.
2. Several videos and renderers on one pool of threads.

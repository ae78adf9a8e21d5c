---------------------------- MODULE VideoTexture ----------------------------
(***************************************************************************)
(* A video on a quad: TexQuad (plugins/quad.cc) asks VideoTexture          *)
(* (video_texture.cc) for a frame into the one of its two buffers that is  *)
(* not shown; a worker on a thread of Qt's pool decodes it into a texture  *)
(* of TexturePool; GLRenderer, on the main thread again, uploads the       *)
(* texture and tells the quad to show that buffer.                         *)
(*                                                                         *)
(* There is one quad, one video and one renderer.  Requests are numbered,  *)
(* and the number stands for the picture; 0 is a texture without one.      *)
(***************************************************************************)
EXTENDS Integers, Sequences, FiniteSets

CONSTANTS
  PoolThreads,   (* QThreadPool::maxThreadCount                            *)
  MaxRequests,   (* bound: frames asked for in a behaviour                 *)
  MaxFailures    (* bound: failures of the video library in a behaviour    *)

ASSUME BoundsAssumption == PoolThreads \in Nat \ {0} /\ MaxRequests \in Nat /\ MaxFailures \in Nat

Buffer  == {"a", "b"}
Picture == 0..MaxRequests
None    == -1

VARIABLES
  asked,      (* how often the quad's frame index has changed              *)
  flip,       (* TexQuad::_flip: buffer a is shown                         *)
  main,       (* where the main thread is                                  *)
  fresh,      (* the worker it has started last                            *)
  queue,      (* _decode_queue                                             *)
  future,     (* _future: the worker it belongs to, 0 for none             *)
  workers,    (* the calls of really_get_frame, in the order of their start *)
  textures,   (* TexturePool::_tmp_textures                                *)
  handles,    (* GLRenderer::_tmp_texture_handles, by what they show       *)
  events,     (* queued signals to the main thread                         *)
  late,       (* history: an assignment to _future has hidden a newer worker *)
  failures    (* history: how often the video library has failed           *)

quadVars == <<asked, flip>>
history  == <<late, failures>>
vars == <<quadVars, main, fresh, queue, future, workers, textures, handles, events, history>>

-----------------------------------------------------------------------------
(* Data *)

Request == [buf: Buffer, pic: Picture]

Event == [kind: {"change", "flip"}, buf: Buffer, samep: BOOLEAN]

Worker == [at: {"pooled", "loop", "texture", "seek", "write", "check", "run", "assign", "done"},
           request: Request, samep: BOOLEAN, err: BOOLEAN, fresh: Nat]

NewWorker == [at |-> "pooled", request |-> [buf |-> "a", pic |-> 0], samep |-> FALSE,
              err |-> FALSE, fresh |-> 0]

Change(w) == [kind |-> "change", buf |-> workers[w].request.buf, samep |-> workers[w].samep]

Workers == 1..Len(workers)

Front == IF flip THEN "a" ELSE "b"
Back  == IF flip THEN "b" ELSE "a"

\* Inside really_get_frame's loop body, with the codec, the stream and _ctxt.
Decoding == {w \in Workers : workers[w].at \in {"seek", "write"}}

IsRunning == future # 0 /\ workers[future].at # "done"

Assigned(w) == future' = w /\ late' = (late \/ future > w)

\* Back at the head of the loop, or past it, no local variable but err counts.
Looped(err) == [NewWorker EXCEPT !.at = "loop", !.err = err]

Moved(w, at) == workers' = [workers EXCEPT ![w] = [NewWorker EXCEPT !.at = at]]

-----------------------------------------------------------------------------
(* The quad, on the main thread *)

\* process_g with a new frame index: get_frame queues the request ...
Q_process ==
  /\ main = "loop" /\ asked < MaxRequests
  /\ asked' = asked + 1
  /\ queue' = Append(queue, [buf |-> Back, pic |-> asked'])
  /\ main' = "asked"
  /\ UNCHANGED <<flip, fresh, future, workers, textures, handles, events, history>>

\* Mutant: a worker is started for every request.
Q_isRunningNot ==
  /\ main = "asked"
  /\ main' = "check"
  /\ UNCHANGED <<quadVars, fresh, queue, future, workers, textures, handles, events, history>>

\* ... and starts a worker through processing_done, unless one is running.
Q_isRunning ==
  /\ main = "asked"
  /\ main' = IF IsRunning THEN "loop" ELSE "check"
  /\ UNCHANGED <<quadVars, fresh, queue, future, workers, textures, handles, events, history>>

Q_check ==
  /\ main = "check"
  /\ main' = IF queue = <<>> THEN "loop" ELSE "run"
  /\ UNCHANGED <<quadVars, fresh, queue, future, workers, textures, handles, events, history>>

\* QtConcurrent::run; the worker may be under way before _future is assigned.
Q_run ==
  /\ main = "run"
  /\ workers' = Append(workers, NewWorker)
  /\ fresh' = Len(workers')
  /\ main' = "assign"
  /\ UNCHANGED <<quadVars, queue, future, textures, handles, events, history>>

Q_assign ==
  /\ main = "assign"
  /\ Assigned(fresh)
  /\ fresh' = 0
  /\ main' = "loop"
  /\ UNCHANGED <<quadVars, queue, workers, textures, handles, events, failures>>

\* Mutant: every picture that is loaded turns the buffers round.
Q_flipTurns ==
  /\ main = "loop"
  /\ events # <<>> /\ Head(events).kind = "flip"
  /\ flip' = ~flip
  /\ events' = Tail(events)
  /\ UNCHANGED <<asked, main, fresh, queue, future, workers, textures, handles, history>>

\* The quad's slot for texture_loaded.
Q_flip ==
  /\ main = "loop"
  /\ events # <<>> /\ Head(events).kind = "flip"
  /\ flip' = (Head(events).buf = "a")
  /\ events' = Tail(events)
  /\ UNCHANGED <<asked, main, fresh, queue, future, workers, textures, handles, history>>

-----------------------------------------------------------------------------
(* The renderer, on the main thread: change_tmp_texture *)

R_upload ==
  /\ main = "loop"
  /\ events # <<>> /\ Head(events).kind = "change"
  /\ main' = "upload"
  /\ UNCHANGED <<quadVars, fresh, queue, future, workers, textures, handles, events, history>>

\* The picture goes to a new handle, or to the one there is if the texture is the
\* same; without one it goes to OpenGL's texture 0.
R_uploaded ==
  /\ main = "upload"
  /\ LET e == Head(events) IN
     /\ handles' = IF e.samep /\ handles[e.buf] = None THEN handles
                   ELSE [handles EXCEPT ![e.buf] = textures[e.buf]]
     /\ events' = Append(Tail(events), [e EXCEPT !.kind = "flip"])
  /\ main' = "loop"
  /\ UNCHANGED <<quadVars, fresh, queue, future, workers, textures, history>>

-----------------------------------------------------------------------------
(* A worker: really_get_frame *)

W_start(w) ==
  /\ workers[w].at = "pooled"
  /\ Cardinality({x \in Workers : workers[x].at \notin {"pooled", "done"}}) < PoolThreads
  /\ Moved(w, "loop")
  /\ UNCHANGED <<quadVars, main, fresh, queue, future, textures, handles, events, history>>

W_take(w) ==
  /\ workers[w].at = "loop"
  /\ IF queue = <<>>
     THEN Moved(w, "check") /\ UNCHANGED queue
     ELSE /\ workers' = [workers EXCEPT ![w].at = "texture", ![w].request = Head(queue)]
          /\ queue' = Tail(queue)
  /\ UNCHANGED <<quadVars, main, fresh, future, textures, handles, events, history>>

\* All textures of a video have one size.
W_texture(w) ==
  /\ workers[w].at = "texture"
  /\ LET b == workers[w].request.buf IN
     /\ workers' = [workers EXCEPT ![w].at = "seek", ![w].samep = textures[b] # None]
     /\ textures' = IF textures[b] = None THEN [textures EXCEPT ![b] = 0] ELSE textures
  /\ UNCHANGED <<quadVars, main, fresh, queue, future, handles, events, history>>

\* Mutant: a seek that fails is reported, and the frame decoded all the same.
W_seekGoesOn(w) ==
  /\ workers[w].at = "seek"
  /\ \E err \in BOOLEAN :
       /\ workers' = [workers EXCEPT ![w].at = "write"]
       /\ events' = IF err THEN Append(events, Change(w)) ELSE events
  /\ UNCHANGED <<quadVars, main, fresh, queue, future, textures, handles, history>>

\* No seek if the frame follows the last one: err is then what it was for that.
W_seek(w) ==
  /\ workers[w].at = "seek"
  /\ \E err \in BOOLEAN, seeks \in BOOLEAN :
       /\ ~seeks => err = workers[w].err
       /\ failures' = IF seeks /\ err THEN failures + 1 ELSE failures
       /\ failures' <= MaxFailures
       /\ workers' = [workers EXCEPT ![w] = IF err THEN Looped(TRUE)
                                            ELSE [@ EXCEPT !.at = "write", !.err = FALSE]]
       /\ events' = IF seeks /\ err THEN Append(events, Change(w)) ELSE events
  /\ UNCHANGED <<quadVars, main, fresh, queue, future, textures, handles, late>>

\* Mutant: the worker returns after one frame.
W_writeReturns(w) ==
  /\ workers[w].at = "write"
  /\ Moved(w, "done")
  /\ textures' = [textures EXCEPT ![workers[w].request.buf] = workers[w].request.pic]
  /\ events' = Append(events, Change(w))
  /\ UNCHANGED <<quadVars, main, fresh, queue, future, handles, history>>

W_write(w) ==
  /\ workers[w].at = "write"
  /\ workers' = [workers EXCEPT ![w] = Looped(FALSE)]
  /\ textures' = [textures EXCEPT ![workers[w].request.buf] = workers[w].request.pic]
  /\ events' = Append(events, Change(w))
  /\ UNCHANGED <<quadVars, main, fresh, queue, future, handles, history>>

\* The end of the stream or a packet that cannot be decoded.
W_writeNothing(w) ==
  /\ workers[w].at = "write"
  /\ \E err \in BOOLEAN :
       workers' = [workers EXCEPT ![w] = Looped(err)]
  /\ failures < MaxFailures
  /\ failures' = failures + 1
  /\ UNCHANGED <<quadVars, main, fresh, queue, future, textures, handles, events, late>>

\* No memory: the function returns at once, without processing_done.
W_noMemory(w) ==
  /\ workers[w].at = "write"
  /\ Moved(w, "done")
  /\ events' = Append(events, Change(w))
  /\ failures < MaxFailures
  /\ failures' = failures + 1
  /\ UNCHANGED <<quadVars, main, fresh, queue, future, textures, handles, late>>

\* processing_done: what has come in since goes to a new worker.
W_check(w) ==
  /\ workers[w].at = "check"
  /\ Moved(w, IF queue = <<>> THEN "done" ELSE "run")
  /\ UNCHANGED <<quadVars, main, fresh, queue, future, textures, handles, events, history>>

W_run(w) ==
  /\ workers[w].at = "run"
  /\ workers' = Append([workers EXCEPT ![w].at = "assign", ![w].fresh = Len(workers) + 1],
                       NewWorker)
  /\ UNCHANGED <<quadVars, main, fresh, queue, future, textures, handles, events, history>>

W_assign(w) ==
  /\ workers[w].at = "assign"
  /\ Assigned(workers[w].fresh)
  /\ Moved(w, "done")
  /\ UNCHANGED <<quadVars, main, fresh, queue, textures, handles, events, failures>>

-----------------------------------------------------------------------------

Init ==
  /\ asked = 0 /\ flip = FALSE
  /\ main = "loop" /\ fresh = 0
  /\ queue = <<>> /\ future = 0 /\ workers = <<>>
  /\ textures = [b \in Buffer |-> None]
  /\ handles = [b \in Buffer |-> None]
  /\ events = <<>>
  /\ late = FALSE /\ failures = 0

MainThread == Q_isRunning \/ Q_check \/ Q_run \/ Q_assign \/ Q_flip \/ R_upload \/ R_uploaded

WorkerThread(w) == W_start(w) \/ W_take(w) \/ W_texture(w) \/ W_seek(w) \/ W_write(w)
                   \/ W_writeNothing(w) \/ W_noMemory(w) \/ W_check(w) \/ W_run(w) \/ W_assign(w)

Next == Q_process \/ MainThread \/ \E w \in Workers : WorkerThread(w)

Spec == Init /\ [][Next]_vars

\* The main thread runs on, and so does the pool.
FairSpec == Spec /\ WF_vars(MainThread) /\ WF_vars(\E w \in Workers : WorkerThread(w))

-----------------------------------------------------------------------------
(* Properties *)

TypeOK ==
  /\ asked \in Picture
  /\ flip \in BOOLEAN
  /\ main \in {"loop", "asked", "check", "run", "assign", "upload"}
  /\ fresh \in 0..Len(workers)
  /\ queue \in Seq(Request)
  /\ future \in 0..Len(workers)
  /\ workers \in Seq(Worker)
  /\ textures \in [Buffer -> Picture \cup {None}]
  /\ handles \in [Buffer -> Picture \cup {None}]
  /\ events \in Seq(Event) /\ Len(events) <= asked
  /\ late \in BOOLEAN
  /\ failures \in 0..MaxFailures

\* Codec and stream belong to one worker at a time, as long as no thread is so
\* slow that it assigns to _future a worker which has been succeeded already.
OneWorkerDecodes == ~late => Cardinality(Decoding) <= 1

Quiet == queue = <<>> /\ events = <<>> /\ main = "loop" /\ \A w \in Workers : workers[w].at = "done"

\* When all is decoded and delivered, the quad shows the picture it asked for
\* last, whichever buffer each request went to and whenever the flips came.
QuietShowsLast == Quiet /\ ~late /\ failures = 0 /\ asked > 0 => handles[Front] = asked

\* A worker that is in its loop gets to the end of the queue.
WorkerEmptiesQueue == (\E w \in Workers : workers[w].at = "loop") ~> queue = <<>> \/ failures > 0

\* The buffers are double: no picture is written while it is uploaded.
UploadSeesWholePicture ==
  main = "upload" => \A w \in Workers : workers[w].at = "write"
                                        => workers[w].request.buf # Head(events).buf
=============================================================================

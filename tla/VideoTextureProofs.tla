------------------------- MODULE VideoTextureProofs -------------------------
(***************************************************************************)
(* Why one worker decodes at a time as long as no assignment to _future is *)
(* late, and why the quad then ends up with the picture it asked for last, *)
(* for any number of pool threads, requests and failures.                  *)
(*                                                                         *)
(* Workers succeed each other: only the youngest is at work, and whoever   *)
(* asks whether one is running is led to it from the worker that _future   *)
(* belongs to, over those that have yet to assign their successors.  The   *)
(* last request is in the queue, or with that worker, or in its texture    *)
(* with the signal that will upload it, or shown by the handle of a buffer *)
(* that the last flip turns to the front.                                  *)
(***************************************************************************)
EXTENDS VideoTexture, SequenceTheorems, FiniteSetTheorems, TLAPS

Last == Len(workers)

Types ==
  /\ asked \in Picture
  /\ queue \in Seq(Request)
  /\ workers \in Seq(Worker)
  /\ \A w \in Workers : workers[w].fresh \in 0..Last
  /\ future \in 0..Last
  /\ fresh \in 0..Last
  /\ late \in BOOLEAN

\* From worker f on all have yet to assign their successors, but the youngest.
Linked(f) == f > 0 /\ \A w \in Workers : f <= w /\ w < Last => workers[w].at = "assign"

Succession ==
  ~late =>
    /\ \A w \in Workers : w < Last => workers[w].at \in {"assign", "done"}
    /\ \A w \in Workers : workers[w].at = "assign" => workers[w].fresh = w + 1
    /\ main # "assign" /\ Last > 0 => Linked(future)
    /\ main = "assign" /\ future <= fresh => Linked(fresh)
    /\ main \in {"check", "run"} /\ Last > 0 => workers[Last].at = "done"

IInv == Types /\ Succession

-----------------------------------------------------------------------------
(* The records of the workers *)

Places == {"pooled", "loop", "texture", "seek", "write", "check", "run", "assign", "done"}

Placed(at) == [NewWorker EXCEPT !.at = at]

LEMMA NewRecord == NewWorker \in Worker /\ NewWorker.at = "pooled" /\ NewWorker.fresh = 0
BY BoundsAssumption DEF NewWorker, Worker, Request, Buffer, Picture

LEMMA PlacedRecord ==
  ASSUME NEW at \in Places
  PROVE  Placed(at) \in Worker /\ Placed(at).at = at /\ Placed(at).fresh = 0
BY NewRecord DEF Placed, Places, Worker

LEMMA LoopedRecord ==
  ASSUME NEW err \in BOOLEAN
  PROVE  Looped(err) \in Worker /\ Looped(err).at = "loop" /\ Looped(err).fresh = 0
BY NewRecord DEF Looped, Worker

Put(w, r) == [workers EXCEPT ![w] = r]

LEMMA Replaced ==
  ASSUME workers \in Seq(Worker), NEW w \in Workers, NEW r \in Worker
  PROVE  /\ Put(w, r) \in Seq(Worker) /\ Len(Put(w, r)) = Last /\ Put(w, r)[w] = r
         /\ \A x \in Workers : x # w => Put(w, r)[x] = workers[x]
BY ExceptSeq DEF Put, Workers, Last

-----------------------------------------------------------------------------
(* A worker at work moves on *)

Turns(w) ==
  /\ workers[w].at \notin {"assign", "done"}
  /\ \E r \in Worker : /\ workers' = Put(w, r)
                       /\ r.at # "assign" /\ r.fresh \in {workers[w].fresh, 0}
  /\ queue' \in Seq(Request)
  /\ UNCHANGED <<asked, main, fresh, future, late>>

\* It is the youngest, so that no link of the succession changes.
LEMMA TurnKeepsIInv ==
  ASSUME IInv, NEW w \in Workers, Turns(w)
  PROVE  IInv'
<1>1. PICK r \in Worker : /\ workers' = Put(w, r)
                          /\ r.at # "assign" /\ r.fresh \in {workers[w].fresh, 0}
  BY DEF Turns
<1>2. /\ workers' \in Seq(Worker) /\ Last' = Last /\ workers'[w] = r /\ Workers' = Workers
      /\ \A x \in Workers : x # w => workers'[x] = workers[x]
  <2>1. workers \in Seq(Worker)
    BY DEF IInv, Types
  <2>2. /\ workers' \in Seq(Worker) /\ Len(workers') = Last /\ workers'[w] = r
        /\ \A x \in Workers : x # w => workers'[x] = workers[x]
    BY <1>1, <2>1, Replaced
  <2> QED
    BY <2>2 DEF Last, Workers
<1>3. w \in 1..Last /\ Last \in Nat
  BY DEF IInv, Types, Workers, Last
<1>4. Types'
  <2>1. \A x \in Workers : workers'[x].fresh \in 0..Last
    <3>1. \A x \in Workers : workers[x].fresh \in 0..Last
      BY DEF IInv, Types
    <3>2. r.fresh \in 0..Last
      BY <1>1, <1>3, <3>1
    <3> QED
      BY <1>2, <3>1, <3>2
  <2>2. UNCHANGED <<asked, future, fresh, late>> /\ queue' \in Seq(Request)
    BY DEF Turns
  <2> QED
    BY <1>2, <2>1, <2>2 DEF IInv, Types, Picture
<1>5. Succession'
  <2> SUFFICES ASSUME ~late PROVE Succession'
    BY DEF Turns, Succession
  <2>1. w = Last
    BY <1>3 DEF Turns, IInv, Succession
  <2>2. \A f \in Nat : Linked(f) => Linked(f)'
    BY <1>2, <1>3, <2>1 DEF Linked, Workers
  <2>3. future \in Nat /\ fresh \in Nat /\ UNCHANGED <<future, fresh, main>>
    BY <1>3 DEF Turns, IInv, Types
  <2>4. main \notin {"check", "run"}
    BY <1>3, <2>1 DEF Turns, IInv, Succession
  <2>5. /\ \A x \in Workers : x < Last => workers'[x].at \in {"assign", "done"}
        /\ \A x \in Workers : workers'[x].at = "assign" => workers'[x].fresh = x + 1
    BY <1>1, <1>2, <1>3, <2>1 DEF IInv, Succession, Workers
  <2> QED
    BY <1>2, <2>2, <2>3, <2>4, <2>5 DEF IInv, Succession
<1> QED
  BY <1>4, <1>5 DEF IInv

\* Every step of a worker in its loop is such a turn.
LEMMA LoopTurns ==
  ASSUME IInv, NEW w \in Workers,
         \/ W_start(w) \/ W_take(w) \/ W_texture(w) \/ W_seek(w) \/ W_write(w)
         \/ W_writeNothing(w) \/ W_noMemory(w) \/ W_check(w)
  PROVE  Turns(w)
<1> DEFINE Turned(r) == /\ workers' = Put(w, r)
                        /\ r.at # "assign" /\ r.fresh \in {workers[w].fresh, 0}
<1>1. workers[w] \in Worker /\ queue \in Seq(Request)
  BY ElementOfSeq DEF IInv, Types, Workers
<1>2. workers[w].at \notin {"assign", "done"}
  BY DEF W_start, W_take, W_texture, W_seek, W_write, W_writeNothing, W_noMemory, W_check
<1>3. UNCHANGED <<asked, main, fresh, future, late>>
  BY DEF W_start, W_take, W_texture, W_seek, W_write, W_writeNothing, W_noMemory, W_check,
     quadVars, history
<1>4. ASSUME NEW at \in Places, at # "assign", Moved(w, at)
      PROVE  \E r \in Worker : Turned(r)
  <2>1. workers' = Put(w, Placed(at))
    BY <1>4 DEF Moved, Placed, Put
  <2> QED
    BY <1>4, <2>1, PlacedRecord
<1>5. ASSUME NEW err \in BOOLEAN, workers' = Put(w, Looped(err))
      PROVE  \E r \in Worker : Turned(r)
  BY <1>5, LoopedRecord
<1>6. /\ \E r \in Worker : Turned(r)
      /\ queue' \in Seq(Request)
  <2>1. CASE W_start(w)
    BY <1>1, <1>4, <2>1 DEF W_start, Places
  <2>2. CASE W_take(w) /\ queue = <<>>
    BY <1>1, <1>4, <2>2 DEF W_take, Places
  <2>3. CASE W_take(w) /\ queue # <<>>
    <3>1. Head(queue) \in Request /\ Tail(queue) \in Seq(Request)
      BY <1>1, <2>3, HeadTailProperties
    <3>2. PICK r : r = [workers[w] EXCEPT !.at = "texture", !.request = Head(queue)]
      OBVIOUS
    <3>3. r \in Worker /\ r.at = "texture" /\ r.fresh = workers[w].fresh
      BY <1>1, <3>1, <3>2 DEF Worker
    <3>4. workers' = Put(w, r) /\ queue' = Tail(queue)
      BY <2>3, <3>2 DEF W_take, Put
    <3> QED
      BY <3>1, <3>3, <3>4
  <2>4. CASE W_texture(w)
    <3>1. PICK b \in BOOLEAN : b = (textures[workers[w].request.buf] # None)
      OBVIOUS
    <3>2. PICK r : r = [workers[w] EXCEPT !.at = "seek", !.samep = b]
      OBVIOUS
    <3>3. r \in Worker /\ r.at = "seek" /\ r.fresh = workers[w].fresh
      BY <1>1, <3>1, <3>2 DEF Worker
    <3>4. workers' = Put(w, r) /\ queue' = queue
      BY <2>4, <3>1, <3>2 DEF W_texture, Put
    <3> QED
      BY <1>1, <3>3, <3>4
  <2>5. CASE W_seek(w)
    <3>1. PICK err \in BOOLEAN :
            workers' = [workers EXCEPT ![w] = IF err THEN Looped(TRUE)
                                              ELSE [workers[w] EXCEPT !.at = "write", !.err = FALSE]]
      BY <2>5 DEF W_seek
    <3>2. queue' = queue
      BY <2>5 DEF W_seek
    <3>3. CASE err
      <4>1. workers' = Put(w, Looped(TRUE))
        BY <3>1, <3>3 DEF Put
      <4> QED
        BY <1>1, <1>5, <3>2, <4>1
    <3>4. CASE ~err
      <4>1. PICK r : r = [workers[w] EXCEPT !.at = "write", !.err = FALSE]
        OBVIOUS
      <4>2. r \in Worker /\ r.at = "write" /\ r.fresh = workers[w].fresh
        BY <1>1, <4>1 DEF Worker
      <4>3. workers' = Put(w, r)
        BY <3>1, <3>4, <4>1 DEF Put
      <4> QED
        BY <1>1, <3>2, <4>2, <4>3
    <3> QED
      BY <3>3, <3>4
  <2>6. CASE W_write(w)
    BY <1>1, <1>5, <2>6 DEF W_write, Put
  <2>7. CASE W_writeNothing(w)
    BY <1>1, <1>5, <2>7 DEF W_writeNothing, Put
  <2>8. CASE W_noMemory(w)
    BY <1>1, <1>4, <2>8 DEF W_noMemory, Places
  <2>9. CASE W_check(w)
    BY <1>1, <1>4, <2>9 DEF W_check, Places
  <2> QED
    BY <2>1, <2>2, <2>3, <2>4, <2>5, <2>6, <2>7, <2>8, <2>9
<1> QED
  BY <1>2, <1>3, <1>6 DEF Turns

-----------------------------------------------------------------------------
(* A worker is succeeded *)

\* The youngest worker starts the next one.
LEMMA RunKeepsIInv ==
  ASSUME IInv, NEW w \in Workers, W_run(w)
  PROVE  IInv'
<1>1. workers \in Seq(Worker) /\ Last \in Nat /\ w \in 1..Last /\ workers[w] \in Worker
  BY ElementOfSeq DEF IInv, Types, Workers, Last
<1>2. PICK next \in Nat : next = Last + 1
  BY <1>1
<1>3. PICK r : r = [workers[w] EXCEPT !.at = "assign", !.fresh = next]
  OBVIOUS
<1>4. r \in Worker /\ r.at = "assign" /\ r.fresh = next
  BY <1>1, <1>2, <1>3 DEF Worker
<1>5. /\ Put(w, r) \in Seq(Worker) /\ Len(Put(w, r)) = Last /\ Put(w, r)[w] = r
      /\ \A x \in Workers : x # w => Put(w, r)[x] = workers[x]
  BY <1>1, <1>4, Replaced
<1>6. workers' = Append(Put(w, r), NewWorker)
  <2>1. Put(w, r) = [workers EXCEPT ![w].at = "assign", ![w].fresh = Last + 1]
    BY <1>2, <1>3 DEF Put
  <2> QED
    BY <2>1 DEF W_run, Last
<1>7. /\ workers' \in Seq(Worker) /\ Last' = next /\ Workers' = 1..next
      /\ workers'[w] = r /\ workers'[next] = NewWorker
      /\ \A x \in 1..Last : x # w => workers'[x] = workers[x]
  <2>1. /\ workers' \in Seq(Worker) /\ Len(workers') = next
        /\ \A x \in 1..Last : workers'[x] = Put(w, r)[x]
        /\ workers'[next] = NewWorker
    BY <1>1, <1>2, <1>5, <1>6, NewRecord, AppendProperties
  <2> QED
    BY <1>1, <1>5, <2>1 DEF Last, Workers
<1>8. workers[w].at = "run" /\ UNCHANGED <<asked, main, fresh, queue, future, late>>
  BY DEF W_run, quadVars, history
<1>9. Types'
  <2>1. \A x \in 1..next : workers'[x].fresh \in 0..next
    BY <1>1, <1>2, <1>4, <1>7, NewRecord DEF IInv, Types, Workers, Last
  <2>2. future \in 0..next /\ fresh \in 0..next
    BY <1>1, <1>2 DEF IInv, Types
  <2> QED
    BY <1>7, <1>8, <2>1, <2>2 DEF IInv, Types, Picture
<1>10. Succession'
  <2> SUFFICES ASSUME ~late PROVE Succession'
    BY <1>8 DEF Succession
  <2>1. w = Last
    BY <1>1, <1>8 DEF IInv, Succession
  <2>2. ASSUME NEW f \in Nat, Linked(f) PROVE Linked(f)'
    <3>1. \A x \in 1..next : f <= x /\ x < next => workers'[x].at = "assign"
      BY <1>1, <1>2, <1>4, <1>7, <2>1, <2>2 DEF Linked, Workers, Last
    <3> QED
      BY <1>7, <2>2, <3>1 DEF Linked
  <2>3. main \notin {"check", "run"}
    BY <1>1, <1>8, <2>1 DEF IInv, Succession
  <2>4. \A x \in 1..next : /\ x < next => workers'[x].at \in {"assign", "done"}
                           /\ workers'[x].at = "assign" => workers'[x].fresh = x + 1
    BY <1>1, <1>2, <1>4, <1>7, <2>1, NewRecord DEF IInv, Succession, Workers, Last
  <2>5. future \in Nat /\ fresh \in Nat /\ Last > 0
    BY <1>1 DEF IInv, Types
  <2> QED
    BY <1>7, <1>8, <2>2, <2>3, <2>4, <2>5 DEF IInv, Succession
<1> QED
  BY <1>9, <1>10 DEF IInv

\* It assigns its successor to _future; if that is not late, the links from there
\* on are those there were.
LEMMA AssignKeepsIInv ==
  ASSUME IInv, NEW w \in Workers, W_assign(w)
  PROVE  IInv'
<1>1. workers \in Seq(Worker) /\ Last \in Nat /\ w \in 1..Last
  BY DEF IInv, Types, Workers, Last
<1>2. workers' = Put(w, Placed("done"))
  BY DEF W_assign, Moved, Placed, Put
<1>3. Placed("done") \in Worker /\ Placed("done").at = "done" /\ Placed("done").fresh = 0
  BY PlacedRecord DEF Places
<1>4. /\ workers' \in Seq(Worker) /\ Last' = Last /\ workers'[w] = Placed("done")
      /\ Workers' = Workers /\ \A x \in Workers : x # w => workers'[x] = workers[x]
  <2>1. /\ workers' \in Seq(Worker) /\ Len(workers') = Last /\ workers'[w] = Placed("done")
        /\ \A x \in Workers : x # w => workers'[x] = workers[x]
    BY <1>1, <1>2, <1>3, Replaced
  <2> QED
    BY <2>1 DEF Last, Workers
<1>5. /\ workers[w].at = "assign" /\ UNCHANGED <<asked, main, fresh, queue>>
      /\ future' = workers[w].fresh /\ late' = (late \/ future > workers[w].fresh)
  BY DEF W_assign, Assigned, quadVars
<1>6. Types'
  BY <1>1, <1>3, <1>4, <1>5 DEF IInv, Types
<1>7. Succession'
  <2> SUFFICES ASSUME ~late' PROVE Succession'
    BY DEF Succession
  <2>1. ~late /\ workers[w].fresh = w + 1 /\ future <= w + 1 /\ future' = w + 1 /\ w < Last
    <3>1. ~late /\ ~(future > workers[w].fresh)
      BY <1>5
    <3>2. workers[w].fresh = w + 1 /\ workers[w].fresh \in 0..Last /\ future \in 0..Last
      BY <1>5, <3>1 DEF IInv, Types, Succession
    <3> QED
      BY <1>1, <1>5, <3>1, <3>2
  <2>2. ASSUME NEW f \in Nat, Linked(f), w < f
        PROVE  Linked(f)'
    BY <1>1, <1>4, <2>2 DEF Linked, Workers
  <2>3. main # "assign" => Linked(w + 1)'
    <3>1. SUFFICES ASSUME main # "assign" PROVE Linked(w + 1)'
      OBVIOUS
    <3>2. Linked(future)
      BY <1>1, <3>1, <2>1 DEF IInv, Succession
    <3>3. Linked(w + 1)
      BY <1>1, <3>2, <2>1 DEF Linked, Workers, IInv, Types
    <3> QED
      BY <1>1, <2>2, <3>3
  <2>4. main = "assign" /\ w + 1 <= fresh => Linked(fresh)'
    <3>1. SUFFICES ASSUME main = "assign", w + 1 <= fresh PROVE Linked(fresh)'
      BY <1>5
    <3>2. Linked(fresh)
      BY <1>1, <3>1, <2>1 DEF IInv, Succession, Types
    <3>3. Linked(fresh)'
      BY <1>1, <1>4, <1>5, <3>1, <3>2 DEF Linked, Workers, IInv, Types
    <3> QED
      BY <3>3
  <2>5. /\ \A x \in Workers : x < Last => workers'[x].at \in {"assign", "done"}
        /\ \A x \in Workers : workers'[x].at = "assign" => workers'[x].fresh = x + 1
        /\ main \in {"check", "run"} /\ Last > 0 => workers'[Last].at = "done"
    <3>1. /\ \A x \in Workers : x < Last => workers[x].at \in {"assign", "done"}
          /\ \A x \in Workers : workers[x].at = "assign" => workers[x].fresh = x + 1
          /\ main \in {"check", "run"} /\ Last > 0 => workers[Last].at = "done"
      BY <2>1 DEF IInv, Succession
    <3>2. \A x \in Workers : workers'[x] = workers[x] \/ workers'[x].at = "done"
      BY <1>3, <1>4
    <3>3. Last > 0 => Last \in Workers
      BY <1>1 DEF Workers, Last
    <3> QED
      BY <3>1, <3>2, <3>3
  <2> QED
    BY <1>4, <1>5, <2>1, <2>3, <2>4, <2>5 DEF Succession
<1> QED
  BY <1>6, <1>7 DEF IInv

-----------------------------------------------------------------------------
(* The main thread starts a worker *)

\* It asks whether one is running and believes _future.
LEMMA AskKeepsIInv ==
  ASSUME IInv, Q_process \/ Q_isRunning \/ Q_check \/ Q_flip \/ R_upload \/ R_uploaded
  PROVE  IInv'
<1>1. UNCHANGED <<workers, future, fresh, late>> /\ Last' = Last /\ Workers' = Workers
      /\ \A f : Linked(f)' = Linked(f)
  <2>1. UNCHANGED <<workers, future, fresh, late>>
    BY DEF Q_process, Q_isRunning, Q_check, Q_flip, R_upload, R_uploaded, quadVars, history
  <2> QED
    BY <2>1 DEF Last, Workers, Linked
<1>2. asked' \in Picture /\ queue' \in Seq(Request)
  <2>1. CASE Q_process
    <3>1. PICK n : n = asked + 1
      OBVIOUS
    <3>2. n \in Picture /\ Back \in Buffer
      BY <2>1, <3>1, BoundsAssumption DEF Q_process, IInv, Types, Picture, Back, Buffer
    <3>3. [buf |-> Back, pic |-> n] \in Request
      BY <3>2 DEF Request
    <3>4. asked' = n /\ queue' = Append(queue, [buf |-> Back, pic |-> n])
      BY <2>1, <3>1 DEF Q_process
    <3> QED
      BY <3>2, <3>3, <3>4, AppendProperties DEF IInv, Types
  <2>2. CASE Q_isRunning \/ Q_check \/ Q_flip \/ R_upload \/ R_uploaded
    BY <2>2 DEF Q_isRunning, Q_check, Q_flip, R_upload, R_uploaded, quadVars, IInv, Types, Picture
  <2> QED
    BY <2>1, <2>2
<1>3. Types'
  BY <1>1, <1>2 DEF IInv, Types, Picture
<1>4. main # "assign" /\ main' # "assign"
  BY DEF Q_process, Q_isRunning, Q_check, Q_flip, R_upload, R_uploaded
<1>5. ASSUME ~late, main' \in {"check", "run"}, Last > 0
      PROVE  workers[Last].at = "done"
  <2>1. CASE Q_isRunning
    <3>1. ~IsRunning /\ Linked(future) /\ Last \in Nat /\ future \in 0..Last
      BY <1>4, <1>5, <2>1 DEF Q_isRunning, IInv, Types, Succession, Last
    <3>2. future > 0 /\ workers[future].at = "done"
      BY <3>1 DEF IsRunning, Linked
    <3>3. future = Last
      BY <3>1, <3>2 DEF Linked, Workers, Last
    <3> QED
      BY <3>2, <3>3
  <2>2. CASE ~Q_isRunning
    <3>1. main \in {"check", "run"}
      BY <1>5, <2>2 DEF Q_process, Q_check, Q_flip, R_upload, R_uploaded
    <3> QED
      BY <1>5, <3>1 DEF IInv, Succession
  <2> QED
    BY <2>1, <2>2
<1>6. Succession'
  BY <1>1, <1>4, <1>5 DEF IInv, Succession
<1> QED
  BY <1>3, <1>6 DEF IInv

\* It starts one, when there is none at work ...
LEMMA StartKeepsIInv ==
  ASSUME IInv, Q_run
  PROVE  IInv'
<1>1. workers \in Seq(Worker) /\ Last \in Nat
  BY DEF IInv, Types, Last
<1>2. /\ workers' = Append(workers, NewWorker) /\ fresh' = Last'
      /\ main = "run" /\ main' = "assign" /\ UNCHANGED <<asked, queue, future, late>>
  BY DEF Q_run, quadVars, history, Last
<1>3. /\ workers' \in Seq(Worker) /\ Last' = Last + 1 /\ Workers' = 1..(Last + 1)
      /\ workers'[Last + 1] = NewWorker /\ \A x \in 1..Last : workers'[x] = workers[x]
  BY <1>1, <1>2, NewRecord, AppendProperties DEF Last, Workers
<1>4. Types'
  <2>1. \A x \in 1..(Last + 1) : workers'[x].fresh \in 0..(Last + 1)
    BY <1>1, <1>3, NewRecord DEF IInv, Types, Workers, Last
  <2>2. future \in 0..(Last + 1)
    BY <1>1 DEF IInv, Types
  <2>3. fresh' \in 0..(Last + 1)
    BY <1>1, <1>2, <1>3
  <2>4. asked' \in Picture /\ queue' \in Seq(Request) /\ late' \in BOOLEAN
    BY <1>2 DEF IInv, Types, Picture
  <2> QED
    BY <1>2, <1>3, <2>1, <2>2, <2>3, <2>4 DEF Types
<1>5. Succession'
  <2> SUFFICES ASSUME ~late PROVE Succession'
    BY <1>2 DEF Succession
  <2>1. \A x \in 1..Last : workers[x].at \in {"assign", "done"}
    BY <1>1, <1>2 DEF IInv, Succession, Workers, Last
  <2>2. \A x \in 1..Last : workers[x].at = "assign" => workers[x].fresh = x + 1
    BY <1>1 DEF IInv, Succession, Workers, Last
  <2>3. Linked(fresh)'
    BY <1>1, <1>2, <1>3 DEF Linked
  <2>4. \A x \in 1..(Last + 1) :
          /\ x < Last + 1 => workers'[x].at \in {"assign", "done"}
          /\ workers'[x].at = "assign" => workers'[x].fresh = x + 1
    BY <1>1, <1>3, <2>1, <2>2, NewRecord
  <2> QED
    BY <1>2, <1>3, <2>3, <2>4 DEF Succession
<1> QED
  BY <1>4, <1>5 DEF IInv

\* ... and assigns it to _future, unless its successors have been quicker.
LEMMA AdoptKeepsIInv ==
  ASSUME IInv, Q_assign
  PROVE  IInv'
<1>1. /\ main = "assign" /\ main' = "loop" /\ future' = fresh /\ fresh' = 0
      /\ late' = (late \/ future > fresh) /\ UNCHANGED <<asked, queue, workers>>
  BY DEF Q_assign, Assigned, quadVars
<1>2. Last' = Last /\ Workers' = Workers /\ \A f : Linked(f)' = Linked(f)
  BY <1>1 DEF Last, Workers, Linked
<1>3. Last \in Nat /\ future \in 0..Last /\ fresh \in 0..Last
  BY DEF IInv, Types, Last
<1>4. Types'
  BY <1>1, <1>2, <1>3 DEF IInv, Types, Picture
<1>5. Succession'
  <2> SUFFICES ASSUME ~late' PROVE Succession'
    BY DEF Succession
  <2>1. ~late /\ ~(future > fresh)
    BY <1>1
  <2>2. Linked(fresh)
    BY <1>1, <1>3, <2>1 DEF IInv, Succession
  <2>3. Linked(future)'
    BY <1>1, <2>2 DEF Linked, Workers, Last
  <2> QED
    BY <1>1, <1>2, <2>1, <2>3 DEF IInv, Succession
<1> QED
  BY <1>4, <1>5 DEF IInv

-----------------------------------------------------------------------------
(* The theorem *)

LEMMA InitIInv == Init => IInv
<1> SUFFICES ASSUME Init PROVE IInv
  OBVIOUS
<1>1. workers \in Seq(Worker) /\ queue \in Seq(Request) /\ Last = 0 /\ Workers = {}
  BY DEF Init, Last, Workers
<1>2. asked \in Picture /\ future = 0 /\ fresh = 0 /\ late = FALSE /\ main = "loop"
  BY BoundsAssumption DEF Init, Picture
<1>3. Types
  <2>1. late \in BOOLEAN
    BY <1>2
  <2>2. future \in 0..Last /\ fresh \in 0..Last
    BY <1>1, <1>2
  <2> QED
    BY <1>1, <1>2, <2>1, <2>2 DEF Types
<1>4. Succession
  BY <1>1, <1>2 DEF Succession
<1> QED
  BY <1>3, <1>4 DEF IInv

LEMMA AlwaysIInv == Spec => []IInv
<1>1. IInv /\ [Next]_vars => IInv'
  <2> SUFFICES ASSUME IInv, [Next]_vars PROVE IInv'
    OBVIOUS
  <2>1. CASE \E w \in Workers : WorkerThread(w)
    BY <2>1, LoopTurns, TurnKeepsIInv, RunKeepsIInv, AssignKeepsIInv DEF WorkerThread
  <2>2. CASE Q_process \/ MainThread
    BY <2>2, AskKeepsIInv, StartKeepsIInv, AdoptKeepsIInv DEF MainThread
  <2>3. CASE UNCHANGED vars
    <3>1. UNCHANGED <<asked, main, fresh, queue, future, workers, late>>
      BY <2>3 DEF vars, quadVars, history
    <3>2. Last' = Last /\ Workers' = Workers /\ \A f : Linked(f)' = Linked(f)
      BY <3>1 DEF Last, Workers, Linked
    <3> QED
      BY <3>1, <3>2 DEF IInv, Types, Succession, Picture
  <2> QED
    BY <2>1, <2>2, <2>3 DEF Next
<1> QED
  BY <1>1, InitIInv, PTL DEF Spec

\* Codec, stream and _ctxt, which have no lock, are used by one worker at a time,
\* as long as no assignment to _future was late.
THEOREM OneDecodes == Spec => []OneWorkerDecodes
<1>1. IInv => OneWorkerDecodes
  <2> SUFFICES ASSUME IInv, ~late PROVE Cardinality(Decoding) <= 1
    BY DEF OneWorkerDecodes
  <2>1. Last \in Nat /\ Workers = 1..Last
    BY DEF IInv, Types, Workers, Last
  <2>2. Decoding \subseteq {Last}
    BY <2>1 DEF IInv, Succession, Decoding
  <2>3. IsFiniteSet({Last}) /\ Cardinality({Last}) = 1
    BY FS_Singleton
  <2>4. Cardinality(Decoding) \in Nat /\ Cardinality(Decoding) <= Cardinality({Last})
    BY <2>2, <2>3, FS_Subset, FS_CardinalityType
  <2> QED
    BY <2>3, <2>4
<1> QED
  BY <1>1, AlwaysIInv, PTL

-----------------------------------------------------------------------------
(* The types, and that there are no more signals than requests *)

\* The workers that have taken a request and not yet told of it.
Carrying == {w \in Workers : workers[w].at \in {"texture", "seek", "write"}}

Rest ==
  /\ flip \in BOOLEAN
  /\ main \in {"loop", "asked", "check", "run", "assign", "upload"}
  /\ textures \in [Buffer -> Picture \cup {None}]
  /\ handles \in [Buffer -> Picture \cup {None}]
  /\ events \in Seq(Event)
  /\ main = "upload" => events # <<>> /\ Head(events).kind = "change"
  /\ failures \in 0..MaxFailures

\* Every request is in the queue, or with a worker, or a signal, or done with.
Room == Len(events) + Len(queue) + Cardinality(Carrying) <= asked

-----------------------------------------------------------------------------
(* What becomes of the last request, if nothing fails *)

ChangeOf(i, b) == events[i].kind = "change" /\ events[i].buf = b

\* There is a handle for the buffer, or one will be made by the i-th signal.
HasHandle(b, i) ==
  handles[b] # None \/ \E j \in DOMAIN events : j < i /\ ChangeOf(j, b) /\ ~events[j].samep

Decodes(w, b) == workers[w].at \in {"seek", "write"} /\ workers[w].request.buf = b

Handles ==
  /\ \A i \in DOMAIN events, b \in Buffer : ChangeOf(i, b) =>
       textures[b] # None /\ (events[i].samep => HasHandle(b, i))
  /\ \A w \in Workers, b \in Buffer : Decodes(w, b) =>
       textures[b] # None /\ (workers[w].samep => HasHandle(b, Len(events) + 1))
  /\ \A b \in Buffer : textures[b] # None =>
       HasHandle(b, Len(events) + 1) \/ \E w \in Workers : Decodes(w, b) /\ ~workers[w].samep

Queued == queue # <<>> /\ queue[Len(queue)].pic = asked

Taken == queue = <<>> /\ \E w \in Carrying : workers[w].request.pic = asked

Decoded(b) == queue = <<>> /\ Carrying = {} /\ textures[b] = asked

Told(b) == \E i \in DOMAIN events :
             ChangeOf(i, b) /\ \A j \in DOMAIN events : j > i => events[j].kind = "flip"

Uploaded(b) ==
  /\ handles[b] = asked /\ \A j \in DOMAIN events : events[j].kind = "flip"
  /\ IF events = <<>> THEN Front = b ELSE events[Len(events)].buf = b

LastRequest ==
  asked > 0 => Queued \/ Taken \/ \E b \in Buffer : Decoded(b) /\ (Told(b) \/ Uploaded(b))

Flawless ==
  ~late /\ failures = 0 => /\ \A w \in Workers : ~workers[w].err
                           /\ Handles /\ LastRequest

Delivery == Rest /\ Room /\ Flawless

-----------------------------------------------------------------------------
(* What the steps have in common *)

Carries == {"texture", "seek", "write"}

LEMMA Bounds ==
  ASSUME IInv, Rest
  PROVE  /\ workers \in Seq(Worker) /\ Last \in Nat /\ Workers = 1..Last
         /\ \A x \in Workers : workers[x] \in Worker
         /\ queue \in Seq(Request) /\ Len(queue) \in Nat
         /\ events \in Seq(Event) /\ Len(events) \in Nat
         /\ asked \in Nat
         /\ IsFiniteSet(Carrying) /\ Cardinality(Carrying) \in Nat
         /\ ~late => Carrying \subseteq {Last}
<1>1. workers \in Seq(Worker) /\ queue \in Seq(Request) /\ events \in Seq(Event)
  BY DEF IInv, Types, Rest
<1>2. Last \in Nat /\ Workers = 1..Last /\ Len(queue) \in Nat /\ Len(events) \in Nat
  BY <1>1 DEF Last, Workers
<1>3. \A x \in Workers : workers[x] \in Worker
  BY <1>1, ElementOfSeq DEF Workers
<1>4. asked \in Nat
  BY BoundsAssumption DEF IInv, Types, Picture
<1>5. IsFiniteSet(Carrying) /\ Cardinality(Carrying) \in Nat
  <2>1. IsFiniteSet(1..Last)
    BY <1>2, FS_Interval
  <2>2. Carrying \subseteq 1..Last
    BY <1>2 DEF Carrying
  <2> QED
    BY <2>1, <2>2, FS_Subset, FS_CardinalityType
<1>6. ~late => Carrying \subseteq {Last}
  BY <1>2 DEF IInv, Succession, Carrying
<1> QED
  BY <1>1, <1>2, <1>3, <1>4, <1>5, <1>6

\* One worker's record is replaced.
LEMMA PutWorkers ==
  ASSUME IInv, Rest, NEW w \in Workers, NEW r \in Worker, workers' = Put(w, r)
  PROVE  /\ Last' = Last /\ Workers' = Workers /\ workers'[w] = r
         /\ \A x \in Workers : x # w => workers'[x] = workers[x]
         /\ r.at \in Carries => Carrying' = Carrying \cup {w}
         /\ r.at \notin Carries => Carrying' = Carrying \ {w}
<1>1. workers \in Seq(Worker)
  BY Bounds
<1>2. /\ Len(workers') = Last /\ workers'[w] = r
      /\ \A x \in Workers : x # w => workers'[x] = workers[x]
  BY <1>1, Replaced
<1>3. Last' = Last /\ Workers' = Workers
  BY <1>2 DEF Last, Workers
<1>4. \A x \in Workers : x \in Carrying' <=> IF x = w THEN r.at \in Carries ELSE x \in Carrying
  BY <1>2, <1>3 DEF Carrying, Carries
<1>5. Carrying \subseteq Workers /\ Carrying' \subseteq Workers
  BY <1>3 DEF Carrying
<1> QED
  BY <1>2, <1>3, <1>4, <1>5

\* How many requests are with workers.
LEMMA CarryingCount ==
  ASSUME IInv, Rest, NEW w \in Workers
  PROVE  /\ w \in Carrying =>
              /\ Carrying \cup {w} = Carrying
              /\ Cardinality(Carrying \ {w}) \in Nat /\ Cardinality(Carrying \ {w}) + 1 = Cardinality(Carrying)
         /\ w \notin Carrying =>
              /\ Carrying \ {w} = Carrying
              /\ Cardinality(Carrying \cup {w}) = Cardinality(Carrying) + 1
<1>1. IsFiniteSet(Carrying) /\ Cardinality(Carrying) \in Nat
  BY Bounds
<1>2. CASE w \in Carrying
  <2>1. Cardinality(Carrying \ {w}) = Cardinality(Carrying) - 1 /\ IsFiniteSet(Carrying \ {w})
    BY <1>1, <1>2, FS_RemoveElement
  <2>2. Cardinality(Carrying \ {w}) \in Nat
    BY <2>1, FS_CardinalityType
  <2> QED
    BY <1>1, <1>2, <2>1, <2>2
<1>3. CASE w \notin Carrying
  <2>1. Cardinality(Carrying \cup {w}) = Cardinality(Carrying) + 1
    BY <1>1, <1>3, FS_AddElement
  <2>2. Carrying \ {w} = Carrying
    BY <1>3
  <2> QED
    BY <1>3, <2>1, <2>2
<1> QED
  BY <1>2, <1>3

\* A worker reports.
LEMMA Reported ==
  ASSUME Rest, NEW e \in Event, events' = Append(events, e)
  PROVE  /\ events' \in Seq(Event) /\ Len(events') = Len(events) + 1
         /\ DOMAIN events = 1..Len(events) /\ DOMAIN events' = 1..(Len(events) + 1)
         /\ \A i \in 1..Len(events) : events'[i] = events[i]
         /\ events'[Len(events) + 1] = e
         /\ events # <<>> => events' # <<>> /\ Head(events') = Head(events)
<1>1. events \in Seq(Event) /\ Len(events) \in Nat
  BY DEF Rest
<1>2. /\ events' \in Seq(Event) /\ Len(events') = Len(events) + 1
      /\ \A i \in 1..Len(events) : events'[i] = events[i]
      /\ events'[Len(events) + 1] = e
  BY <1>1, AppendProperties
<1>3. DOMAIN events = 1..Len(events) /\ DOMAIN events' = 1..(Len(events) + 1)
  BY <1>1, <1>2
<1>4. ASSUME events # <<>> PROVE events' # <<>> /\ Head(events') = Head(events)
  <2>1. Len(events) > 0
    BY <1>1, <1>4, EmptySeq
  <2>2. events' # <<>>
    BY <1>1, <1>2
  <2>3. Head(events) = events[1] /\ Head(events') = events'[1]
    OBVIOUS
  <2> QED
    BY <1>1, <1>2, <2>1, <2>2, <2>3
<1> QED
  BY <1>1, <1>2, <1>3, <1>4

\* What a worker's step leaves of the main thread's state.
LEMMA WorkerRest ==
  ASSUME Rest, UNCHANGED <<flip, main, handles>>, events' \in Seq(Event),
         events # <<>> => events' # <<>> /\ Head(events') = Head(events),
         textures' \in [Buffer -> Picture \cup {None}], failures' \in 0..MaxFailures
  PROVE  Rest'
BY DEF Rest, Picture

-----------------------------------------------------------------------------
(* Steps after which the workers carry what they carried *)

Continues ==
  /\ Workers \subseteq Workers'
  /\ \A x \in Carrying : /\ workers'[x].at = workers[x].at
                         /\ workers'[x].request = workers[x].request
                         /\ workers'[x].samep = workers[x].samep
  /\ \A x \in Workers' : x \in Carrying \/ workers'[x].at \notin Carries
  /\ \A x \in Workers' : workers'[x].err => x \in Workers /\ workers[x].err
  /\ UNCHANGED <<asked, flip, queue, textures, handles, events, failures>>
  /\ late => late'

LEMMA ContinuesKeepDelivery ==
  ASSUME IInv, Delivery, Continues, main' \in {"loop", "asked", "check", "run", "assign", "upload"},
         main' = "upload" => events # <<>> /\ Head(events).kind = "change"
  PROVE  Delivery'
<1>1. Carrying' = Carrying
  BY DEF Continues, Carrying, Carries
<1>2. Rest'
  BY DEF Continues, Delivery, Rest, Picture
<1>3. Room'
  BY <1>1 DEF Continues, Delivery, Room
<1>4. /\ \A x \in Workers, b \in Buffer : Decodes(x, b) => x \in Workers' /\ Decodes(x, b)'
      /\ \A x \in Workers', b \in Buffer : Decodes(x, b)' => x \in Workers /\ Decodes(x, b)
      /\ \A x \in Workers, b \in Buffer : Decodes(x, b) => workers'[x].samep = workers[x].samep
  BY <1>1 DEF Continues, Decodes, Carrying, Carries
<1>5. /\ \A i, b : ChangeOf(i, b)' <=> ChangeOf(i, b)
      /\ \A i, b : HasHandle(b, i)' <=> HasHandle(b, i)
  BY DEF Continues, ChangeOf, HasHandle
<1>6. Flawless'
  <2> SUFFICES ASSUME ~late', failures' = 0
               PROVE  (\A w \in Workers : ~workers[w].err)' /\ Handles' /\ LastRequest'
    BY DEF Flawless
  <2>1. (\A w \in Workers : ~workers[w].err) /\ Handles /\ LastRequest
    BY DEF Continues, Delivery, Flawless
  <2>2. (\A w \in Workers : ~workers[w].err)'
    BY <2>1 DEF Continues
  <2>3. Handles'
    <3>1. UNCHANGED <<events, textures>>
      BY DEF Continues
    <3> QED
      BY <1>4, <1>5, <2>1, <3>1 DEF Handles
  <2>4. LastRequest'
    <3>1. /\ Queued' <=> Queued
          /\ Taken' <=> Taken
          /\ \A b \in Buffer : /\ Decoded(b)' <=> Decoded(b)
                               /\ Told(b)' <=> Told(b)
                               /\ Uploaded(b)' <=> Uploaded(b)
      BY <1>1 DEF Continues, Queued, Taken, Decoded, Told, Uploaded, ChangeOf, Front
    <3>2. asked' = asked
      BY DEF Continues
    <3> QED
      BY <2>1, <3>1, <3>2 DEF LastRequest
  <2> QED
    BY <2>2, <2>3, <2>4
<1> QED
  BY <1>2, <1>3, <1>6 DEF Delivery

\* A worker at work, but without a request, moves on ...
LEMMA PlacedContinues ==
  ASSUME IInv, Delivery, NEW w \in Workers, w \notin Carrying, NEW at \in Places \ Carries,
         Moved(w, at), UNCHANGED <<asked, flip, queue, textures, handles, events, failures>>,
         late => late'
  PROVE  Continues
<1>1. workers' = Put(w, Placed(at))
  BY DEF Moved, Placed, Put
<1>2. Placed(at) \in Worker /\ Placed(at).at = at
  BY PlacedRecord
<1>3. Placed(at).err = FALSE
  BY DEF Placed, NewWorker
<1>4. /\ Workers' = Workers /\ workers'[w] = Placed(at)
      /\ \A x \in Workers : x # w => workers'[x] = workers[x]
  BY <1>1, <1>2, PutWorkers DEF Delivery
<1>5. Carrying \subseteq Workers
  BY DEF Carrying
<1>6. \A x \in Workers : x \in Carrying \/ workers[x].at \notin Carries
  BY DEF Carrying, Carries
<1> QED
  BY <1>2, <1>3, <1>4, <1>5, <1>6 DEF Continues

\* ... or starts another.
LEMMA GrownContinues ==
  ASSUME IInv, Delivery, NEW old, Len(old) = Last, old \in Seq(Worker),
         \A x \in Workers : old[x] = workers[x] \/ (/\ x \notin Carrying /\ old[x].at \notin Carries
                                                   /\ old[x].err = workers[x].err),
         workers' = Append(old, NewWorker),
         UNCHANGED <<asked, flip, queue, textures, handles, events, failures>>, late => late'
  PROVE  Continues
<1>1. Last \in Nat /\ Workers = 1..Last
  BY Bounds DEF Delivery
<1>2. Workers' = 1..(Last + 1) /\ workers'[Last + 1] = NewWorker /\ \A x \in 1..Last : workers'[x] = old[x]
  <2>1. /\ Len(workers') = Last + 1 /\ workers'[Last + 1] = NewWorker
        /\ \A x \in 1..Last : workers'[x] = old[x]
    BY NewRecord, AppendProperties
  <2> QED
    BY <1>1, <2>1 DEF Workers
<1>3. Carrying \subseteq Workers /\ \A x \in Workers : x \in Carrying \/ workers[x].at \notin Carries
  BY DEF Carrying, Carries
<1>4. NewWorker.at \notin Carries /\ NewWorker.err = FALSE
  BY DEF NewWorker, Carries
<1> QED
  BY <1>1, <1>2, <1>3, <1>4 DEF Continues

LEMMA IdleStepsKeepDelivery ==
  ASSUME IInv, Delivery, NEW w \in Workers,
         W_start(w) \/ (W_take(w) /\ queue = <<>>) \/ W_check(w) \/ W_run(w) \/ W_assign(w)
  PROVE  Delivery'
<1>1. w \notin Carrying
  BY DEF Carrying, W_start, W_take, W_check, W_run, W_assign
<1>2. UNCHANGED <<asked, flip, main, queue, textures, handles, events, failures>> /\ (late => late')
  <2>1. UNCHANGED <<asked, flip, main, queue, textures, handles, events, failures>>
    BY DEF W_start, W_take, W_check, W_run, W_assign, quadVars, history
  <2>2. late => late'
    <3>1. CASE W_assign(w)
      BY <3>1, Zenon DEF W_assign, Assigned
    <3>2. CASE ~W_assign(w)
      BY <3>2 DEF W_start, W_take, W_check, W_run, history
    <3> QED
      BY <3>1, <3>2
  <2> QED
    BY <2>1, <2>2
<1>3. Continues
  <2>1. CASE W_run(w)
    <3>1. workers \in Seq(Worker) /\ Last \in Nat /\ workers[w] \in Worker
      BY Bounds DEF Delivery
    <3>. PICK next \in Nat : next = Len(workers) + 1
      BY <3>1 DEF Last
    <3>2. PICK r : r = [workers[w] EXCEPT !.at = "assign", !.fresh = next]
      OBVIOUS
    <3>3. r \in Worker /\ r.at = "assign" /\ r.err = workers[w].err
      BY <3>1, <3>2 DEF Worker
    <3>4. workers' = Append(Put(w, r), NewWorker)
      <4>1. Put(w, r) = [workers EXCEPT ![w].at = "assign", ![w].fresh = Len(workers) + 1]
        BY <3>2 DEF Put
      <4> QED
        BY <2>1, <4>1 DEF W_run
    <3>5. /\ Put(w, r) \in Seq(Worker) /\ Len(Put(w, r)) = Last /\ Put(w, r)[w] = r
          /\ \A x \in Workers : x # w => Put(w, r)[x] = workers[x]
      BY <3>1, <3>3, Replaced
    <3>6. \A x \in Workers : Put(w, r)[x] = workers[x]
            \/ (x \notin Carrying /\ Put(w, r)[x].at \notin Carries /\ Put(w, r)[x].err = workers[x].err)
      BY <1>1, <3>3, <3>5 DEF Carries
    <3> QED
      BY <1>2, <3>4, <3>5, <3>6, GrownContinues
  <2>2. CASE W_start(w)
    BY <1>1, <1>2, <2>2, PlacedContinues DEF W_start, Places, Carries
  <2>3. CASE W_take(w) /\ queue = <<>>
    BY <1>1, <1>2, <2>3, PlacedContinues DEF W_take, Places, Carries
  <2>4. CASE W_check(w)
    BY <1>1, <1>2, <2>4, PlacedContinues DEF W_check, Places, Carries
  <2>5. CASE W_assign(w)
    BY <1>1, <1>2, <2>5, PlacedContinues DEF W_assign, Places, Carries
  <2> QED
    BY <2>1, <2>2, <2>3, <2>4, <2>5
<1> QED
  BY <1>2, <1>3, ContinuesKeepDelivery DEF Delivery, Rest

LEMMA MainIdleKeepsDelivery ==
  ASSUME IInv, Delivery, Q_isRunning \/ Q_check \/ Q_run \/ Q_assign \/ R_upload
  PROVE  Delivery'
<1>1. UNCHANGED <<asked, flip, queue, textures, handles, events, failures>> /\ (late => late')
  <2>1. UNCHANGED <<asked, flip, queue, textures, handles, events, failures>>
    BY DEF Q_isRunning, Q_check, Q_run, Q_assign, R_upload, quadVars, history
  <2>2. late => late'
    <3>1. CASE Q_assign
      BY <3>1, Zenon DEF Q_assign, Assigned
    <3>2. CASE ~Q_assign
      BY <3>2 DEF Q_isRunning, Q_check, Q_run, R_upload, history
    <3> QED
      BY <3>1, <3>2
  <2> QED
    BY <2>1, <2>2
<1>2. /\ main' \in {"loop", "asked", "check", "run", "assign", "upload"}
      /\ main' = "upload" => events # <<>> /\ Head(events).kind = "change"
  BY DEF Q_isRunning, Q_check, Q_run, Q_assign, R_upload
<1>3. Continues
  <2>1. CASE Q_run
    <3>1. workers \in Seq(Worker) /\ Len(workers) = Last
      BY Bounds DEF Delivery, Last
    <3>2. workers' = Append(workers, NewWorker)
      BY <2>1 DEF Q_run
    <3> QED
      BY <1>1, <3>1, <3>2, GrownContinues
  <2>2. CASE Q_isRunning \/ Q_check \/ Q_assign \/ R_upload
    <3>1. UNCHANGED workers
      BY <2>2 DEF Q_isRunning, Q_check, Q_assign, R_upload
    <3> QED
      BY <1>1, <3>1 DEF Continues, Carrying, Carries, Workers
  <2> QED
    BY <2>1, <2>2
<1> QED
  BY <1>2, <1>3, ContinuesKeepDelivery

-----------------------------------------------------------------------------
(* A worker deals with a request *)

\* The decoding workers and their textures stay what they were.
SameDecoding ==
  /\ \A x \in Workers, b \in Buffer : Decodes(x, b) => x \in Workers' /\ Decodes(x, b)'
  /\ \A x \in Workers', b \in Buffer : Decodes(x, b)' => x \in Workers /\ Decodes(x, b)
  /\ \A x \in Workers, b \in Buffer : Decodes(x, b) => workers'[x].samep = workers[x].samep
  /\ UNCHANGED <<events, textures, handles>>

LEMMA SameDecodingKeepsHandles ==
  ASSUME Handles, SameDecoding
  PROVE  Handles'
<1>1. /\ \A i, b : ChangeOf(i, b)' <=> ChangeOf(i, b)
      /\ \A i, b : HasHandle(b, i)' <=> HasHandle(b, i)
  BY DEF SameDecoding, ChangeOf, HasHandle
<1>2. UNCHANGED <<events, textures>>
  BY DEF SameDecoding
<1> QED
  BY <1>1, <1>2 DEF Handles, SameDecoding

LEMMA TakeKeepsDelivery ==
  ASSUME IInv, Delivery, NEW w \in Workers, W_take(w), queue # <<>>
  PROVE  Delivery'
<1>1. /\ queue \in Seq(Request) /\ Len(queue) \in Nat /\ workers[w] \in Worker
      /\ Len(events) \in Nat /\ asked \in Nat /\ Cardinality(Carrying) \in Nat
  BY Bounds DEF Delivery
<1>2. /\ Head(queue) \in Request /\ Tail(queue) \in Seq(Request) /\ Len(Tail(queue)) = Len(queue) - 1
      /\ \A i \in 1..(Len(queue) - 1) : Tail(queue)[i] = queue[i + 1]
      /\ Head(queue) = queue[1] /\ Len(queue) > 0
  BY <1>1, HeadTailProperties, EmptySeq
<1>3. PICK r : r = [workers[w] EXCEPT !.at = "texture", !.request = Head(queue)]
  OBVIOUS
<1>4. r \in Worker /\ r.at = "texture" /\ r.request = Head(queue) /\ r.err = workers[w].err
  BY <1>1, <1>2, <1>3 DEF Worker
<1>5. /\ workers[w].at = "loop" /\ queue' = Tail(queue)
      /\ UNCHANGED <<asked, flip, main, textures, handles, events, failures, late>>
  BY DEF W_take, quadVars, history
<1>6. workers' = Put(w, r)
  BY <1>3 DEF W_take, Put
<1>7. /\ Last' = Last /\ Workers' = Workers /\ workers'[w] = r
      /\ \A x \in Workers : x # w => workers'[x] = workers[x]
      /\ Carrying' = Carrying \cup {w}
  BY <1>4, <1>6, PutWorkers DEF Delivery, Carries
<1>8. w \notin Carrying
  BY <1>5 DEF Carrying
<1>9. Rest'
  BY <1>5 DEF Delivery, Rest, Picture
<1>10. Room'
  <2>1. Cardinality(Carrying)' = Cardinality(Carrying) + 1
    BY <1>7, <1>8, CarryingCount DEF Delivery
  <2> QED
    BY <1>1, <1>2, <1>5, <2>1 DEF Delivery, Room
<1>11. Flawless'
  <2> SUFFICES ASSUME ~late, failures = 0
               PROVE  (\A x \in Workers : ~workers[x].err)' /\ Handles' /\ LastRequest'
    BY <1>5 DEF Flawless
  <2>1. (\A x \in Workers : ~workers[x].err) /\ Handles /\ LastRequest
    BY DEF Delivery, Flawless
  <2>2. (\A x \in Workers : ~workers[x].err)'
    BY <1>4, <1>7, <2>1
  <2>3. SameDecoding
    BY <1>4, <1>5, <1>7 DEF SameDecoding, Decodes
  <2>4. LastRequest'
    <3> SUFFICES ASSUME asked > 0 PROVE Queued' \/ Taken'
      BY <1>5 DEF LastRequest
    <3>1. Queued
      BY <2>1 DEF LastRequest, Taken, Decoded
    <3>2. CASE Len(queue) = 1
      <4>1. queue' = <<>>
        BY <1>2, <1>5, <3>2, EmptySeq
      <4>2. w \in Carrying' /\ workers'[w].request.pic = asked
        BY <1>2, <1>4, <1>7, <3>1, <3>2 DEF Queued
      <4> QED
        BY <1>5, <4>1, <4>2 DEF Taken
    <3>3. CASE Len(queue) > 1
      <4>1. Len(queue') > 0 /\ queue'[Len(queue')] = queue[Len(queue)]
        BY <1>1, <1>2, <1>5, <3>3
      <4>2. queue' # <<>>
        BY <4>1
      <4> QED
        BY <1>5, <3>1, <4>1, <4>2 DEF Queued
    <3> QED
      BY <1>1, <1>2, <3>2, <3>3
  <2> QED
    BY <2>1, <2>2, <2>3, <2>4, SameDecodingKeepsHandles
<1> QED
  BY <1>9, <1>10, <1>11 DEF Delivery

\* A worker with a request goes on with it.
GoesOn(w, r) ==
  /\ w \in Carrying /\ r \in Worker /\ r.at \in Carries /\ r.request = workers[w].request
  /\ workers' = Put(w, r)
  /\ UNCHANGED <<asked, flip, main, queue, handles, events, late>>
  /\ textures' \in [Buffer -> Picture \cup {None}]
  /\ failures' \in 0..MaxFailures /\ (failures > 0 => failures' > 0)
  /\ ~late /\ failures' = 0 => ~r.err /\ Handles'

LEMMA GoingOnKeepsDelivery ==
  ASSUME IInv, Delivery, NEW w \in Workers, NEW r, GoesOn(w, r)
  PROVE  Delivery'
<1>1. /\ Last' = Last /\ Workers' = Workers /\ workers'[w] = r
      /\ \A x \in Workers : x # w => workers'[x] = workers[x]
      /\ Carrying' = Carrying
  BY PutWorkers, CarryingCount DEF GoesOn, Delivery
<1>2. UNCHANGED <<asked, flip, main, queue, handles, events, late>>
  BY DEF GoesOn
<1>3. Rest'
  BY <1>2 DEF GoesOn, Delivery, Rest, Picture
<1>4. Room'
  BY <1>1, <1>2 DEF Delivery, Room
<1>5. Flawless'
  <2> SUFFICES ASSUME ~late, failures' = 0
               PROVE  (\A x \in Workers : ~workers[x].err)' /\ Handles' /\ LastRequest'
    BY <1>2 DEF Flawless
  <2>1. (\A x \in Workers : ~workers[x].err) /\ LastRequest
    <3>1. failures \in Nat /\ ~(failures > 0)
      BY BoundsAssumption DEF GoesOn, Delivery, Rest
    <3> QED
      BY <3>1 DEF Delivery, Flawless
  <2>2. (\A x \in Workers : ~workers[x].err)'
    BY <1>1, <2>1 DEF GoesOn
  <2>3. LastRequest'
    <3> SUFFICES ASSUME asked > 0 PROVE Queued' \/ Taken'
      BY <1>2 DEF LastRequest
    <3>1. Queued \/ Taken
      BY <2>1 DEF LastRequest, Decoded, GoesOn
    <3>2. Queued => Queued'
      BY <1>2 DEF Queued
    <3>3. Taken => Taken'
      <4>1. \A x \in Carrying : workers'[x].request = workers[x].request
        BY <1>1 DEF GoesOn, Carrying
      <4> QED
        BY <1>1, <1>2, <4>1 DEF Taken
    <3> QED
      BY <3>1, <3>2, <3>3
  <2> QED
    BY <2>2, <2>3 DEF GoesOn
<1> QED
  BY <1>3, <1>4, <1>5 DEF Delivery

\* It finds its texture or makes it; only a texture that is new gets a new handle.
LEMMA TextureKeepsDelivery ==
  ASSUME IInv, Delivery, NEW w \in Workers, W_texture(w)
  PROVE  Delivery'
<1>1. workers[w] \in Worker /\ w \in Carrying /\ workers[w].at = "texture"
  BY Bounds DEF Delivery, W_texture, Carrying
<1>2. PICK b \in Buffer : b = workers[w].request.buf
  BY <1>1 DEF Worker, Request
<1>3. PICK samep \in BOOLEAN : samep = (textures[b] # None)
  OBVIOUS
<1>4. PICK r : r = [workers[w] EXCEPT !.at = "seek", !.samep = samep]
  OBVIOUS
<1>5. /\ r \in Worker /\ r.at = "seek" /\ r.samep = samep /\ r.request = workers[w].request
      /\ r.err = workers[w].err
  BY <1>1, <1>3, <1>4 DEF Worker
<1>6. workers' = Put(w, r)
  BY <1>2, <1>3, <1>4 DEF W_texture, Put
<1>7. UNCHANGED <<asked, flip, main, queue, handles, events, late, failures>>
  BY DEF W_texture, quadVars, history
<1>8. /\ textures' \in [Buffer -> Picture \cup {None}]
      /\ textures'[b] # None
      /\ \A c \in Buffer : textures[c] # None => textures'[c] # None
      /\ \A c \in Buffer : c # b => textures'[c] = textures[c]
  <2>1. textures' = IF textures[b] = None THEN [textures EXCEPT ![b] = 0] ELSE textures
    BY <1>2 DEF W_texture
  <2>2. textures \in [Buffer -> Picture \cup {None}] /\ 0 \in Picture /\ None # 0
    BY BoundsAssumption DEF Delivery, Rest, Picture, None
  <2> QED
    BY <2>1, <2>2
<1>9. /\ Last' = Last /\ Workers' = Workers /\ workers'[w] = r
      /\ \A x \in Workers : x # w => workers'[x] = workers[x]
  BY <1>5, <1>6, PutWorkers DEF Delivery
<1>10. ASSUME ~late, failures' = 0 PROVE Handles'
  <2>1. Handles /\ Carrying \subseteq {Last}
    BY <1>7, <1>10, Bounds DEF Delivery, Flawless
  <2>2. \A x \in Workers, c \in Buffer : ~Decodes(x, c)
    BY <1>1, <2>1 DEF Decodes, Carrying
  <2>3. \A x \in Workers, c \in Buffer : Decodes(x, c)' => x = w /\ c = b
    BY <1>2, <1>5, <1>9, <2>2 DEF Decodes
  <2>4. Decodes(w, b)' /\ workers'[w].samep = samep
    BY <1>2, <1>5, <1>9 DEF Decodes
  <2>5. /\ \A i, c : ChangeOf(i, c)' <=> ChangeOf(i, c)
        /\ \A i, c : HasHandle(c, i)' <=> HasHandle(c, i)
    BY <1>7 DEF ChangeOf, HasHandle
  <2>6. \A c \in Buffer : textures[c] # None => HasHandle(c, Len(events) + 1)
    BY <2>1, <2>2 DEF Handles
  <2>7. \A i \in DOMAIN events, c \in Buffer : ChangeOf(i, c) =>
          textures[c] # None /\ (events[i].samep => HasHandle(c, i))
    BY <2>1 DEF Handles
  <2>8. /\ \A i \in DOMAIN events', c \in Buffer : ChangeOf(i, c)' =>
             textures'[c] # None /\ (events'[i].samep => HasHandle(c, i)')
        /\ \A x \in Workers', c \in Buffer : Decodes(x, c)' =>
             textures'[c] # None /\ (workers'[x].samep => HasHandle(c, Len(events) + 1)')
        /\ \A c \in Buffer : textures'[c] # None =>
             HasHandle(c, Len(events) + 1)' \/ \E x \in Workers' : Decodes(x, c)' /\ ~workers'[x].samep
    <3>1. \A i \in DOMAIN events', c \in Buffer : ChangeOf(i, c)' =>
             textures'[c] # None /\ (events'[i].samep => HasHandle(c, i)')
      BY <1>7, <1>8, <2>5, <2>7
    <3>2. \A c \in Buffer : HasHandle(c, Len(events) + 1)' <=> HasHandle(c, Len(events) + 1)
      BY <1>7, <2>5
    <3>3. \A x \in Workers', c \in Buffer : Decodes(x, c)' =>
             textures'[c] # None /\ (workers'[x].samep => HasHandle(c, Len(events) + 1)')
      BY <1>3, <1>8, <1>9, <2>3, <2>4, <2>6, <3>2
    <3>4. \A c \in Buffer : textures'[c] # None =>
             HasHandle(c, Len(events) + 1)' \/ \E x \in Workers' : Decodes(x, c)' /\ ~workers'[x].samep
      BY <1>3, <1>8, <1>9, <2>4, <2>6, <3>2
    <3> QED
      BY <3>1, <3>3, <3>4
  <2> QED
    BY <2>8 DEF Handles
<1>11. GoesOn(w, r)
  <2>1. ~late /\ failures' = 0 => ~r.err
    BY <1>5, <1>7 DEF Delivery, Flawless
  <2>2. failures' \in 0..MaxFailures
    BY <1>7 DEF Delivery, Rest
  <2> QED
    BY <1>1, <1>5, <1>6, <1>7, <1>8, <1>10, <2>1, <2>2 DEF GoesOn, Carries
<1> QED
  BY <1>11, GoingOnKeepsDelivery

\* A worker gives a request up, with or without a report: that is a failure.
GivesUp(w, r) ==
  /\ w \in Carrying /\ r \in Worker /\ r.at \notin Carries
  /\ workers' = Put(w, r)
  /\ \/ events' = events
     \/ \E e \in Event : events' = Append(events, e)
  /\ UNCHANGED <<asked, flip, main, queue, textures, handles, late>>
  /\ failures' \in 1..MaxFailures

LEMMA GivingUpKeepsDelivery ==
  ASSUME IInv, Delivery, NEW w \in Workers, NEW r, GivesUp(w, r)
  PROVE  Delivery'
<1>1. UNCHANGED <<asked, flip, main, queue, textures, handles, late>> /\ failures' \in 1..MaxFailures
  BY DEF GivesUp
<1>2. /\ events' \in Seq(Event) /\ Len(events') \in Nat /\ Len(events') <= Len(events) + 1
      /\ events # <<>> => events' # <<>> /\ Head(events') = Head(events)
  <2>1. CASE events' = events
    BY <2>1, Bounds DEF Delivery
  <2>2. CASE \E e \in Event : events' = Append(events, e)
    BY <2>2, Reported, Bounds DEF Delivery
  <2> QED
    BY <2>1, <2>2 DEF GivesUp
<1>3. Rest'
  <2>1. textures' \in [Buffer -> Picture \cup {None}] /\ failures' \in 0..MaxFailures
    BY <1>1, BoundsAssumption DEF Delivery, Rest
  <2> QED
    BY <1>1, <1>2, <2>1, WorkerRest DEF Delivery
<1>4. Room'
  <2>1. Carrying' = Carrying \ {w}
    BY PutWorkers DEF GivesUp, Delivery
  <2>2. Cardinality(Carrying') \in Nat /\ Cardinality(Carrying') + 1 = Cardinality(Carrying)
    BY <2>1, CarryingCount DEF GivesUp, Delivery
  <2>3. Len(events) \in Nat /\ Len(queue) \in Nat /\ asked \in Nat
    BY Bounds DEF Delivery
  <2> QED
    BY <1>1, <1>2, <2>2, <2>3 DEF Delivery, Room
<1>5. Flawless'
  BY <1>1 DEF Flawless
<1> QED
  BY <1>3, <1>4, <1>5 DEF Delivery

LEMMA ChangeEvent ==
  ASSUME IInv, Rest, NEW w \in Workers
  PROVE  Change(w) \in Event
<1>1. workers[w] \in Worker
  BY Bounds
<1>2. workers[w].request.buf \in Buffer /\ workers[w].samep \in BOOLEAN
  BY <1>1 DEF Worker, Request
<1> QED
  BY <1>2 DEF Change, Event

LEMMA FailureKeepsDelivery ==
  ASSUME IInv, Delivery, NEW w \in Workers, W_writeNothing(w) \/ W_noMemory(w)
  PROVE  Delivery'
<1>1. w \in Carrying /\ failures' \in 1..MaxFailures
  <2>1. workers[w].at = "write" /\ failures < MaxFailures /\ failures' = failures + 1
    BY DEF W_writeNothing, W_noMemory
  <2>2. failures \in 0..MaxFailures /\ MaxFailures \in Nat
    BY BoundsAssumption DEF Delivery, Rest
  <2> QED
    BY <2>1, <2>2 DEF Carrying
<1>2. UNCHANGED <<asked, flip, main, queue, textures, handles, late>>
  BY DEF W_writeNothing, W_noMemory, quadVars
<1>3. events' = events \/ \E e \in Event : events' = Append(events, e)
  BY ChangeEvent DEF W_writeNothing, W_noMemory, Delivery
<1>4. \E r \in Worker : r.at \notin Carries /\ workers' = Put(w, r)
  <2>1. CASE W_writeNothing(w)
    <3>1. PICK err \in BOOLEAN : workers' = Put(w, Looped(err))
      BY <2>1 DEF W_writeNothing, Put
    <3> QED
      BY <3>1, LoopedRecord DEF Carries
  <2>2. CASE W_noMemory(w)
    <3>1. workers' = Put(w, Placed("done"))
      BY <2>2 DEF W_noMemory, Moved, Placed, Put
    <3> QED
      BY <3>1, PlacedRecord DEF Carries, Places
  <2> QED
    BY <2>1, <2>2
<1>5. PICK r : GivesUp(w, r)
  BY <1>1, <1>2, <1>3, <1>4 DEF GivesUp
<1> QED
  BY <1>5, GivingUpKeepsDelivery

\* A seek goes well, or it counts as a failure: err is not left over from before.
LEMMA SeekKeepsDelivery ==
  ASSUME IInv, Delivery, NEW w \in Workers, W_seek(w)
  PROVE  Delivery'
<1>1. workers[w] \in Worker /\ w \in Carrying /\ workers[w].at = "seek"
  BY Bounds DEF Delivery, W_seek, Carrying
<1>2. UNCHANGED <<asked, flip, main, queue, textures, handles, late>>
  BY DEF W_seek, quadVars
<1>3. PICK err \in BOOLEAN, seeks \in BOOLEAN :
         /\ ~seeks => err = workers[w].err
         /\ failures' = IF seeks /\ err THEN failures + 1 ELSE failures
         /\ failures' <= MaxFailures
         /\ workers' = [workers EXCEPT ![w] = IF err THEN Looped(TRUE)
                                              ELSE [workers[w] EXCEPT !.at = "write", !.err = FALSE]]
         /\ events' = IF seeks /\ err THEN Append(events, Change(w)) ELSE events
  BY DEF W_seek
<1>4. failures \in 0..MaxFailures /\ MaxFailures \in Nat
  BY BoundsAssumption DEF Delivery, Rest
<1>5. CASE ~err
  <2>1. PICK r : r = [workers[w] EXCEPT !.at = "write", !.err = FALSE]
    OBVIOUS
  <2>2. /\ r \in Worker /\ r.at = "write" /\ r.request = workers[w].request
        /\ r.samep = workers[w].samep /\ r.err = FALSE
    BY <1>1, <2>1 DEF Worker
  <2>3. workers' = Put(w, r) /\ events' = events /\ failures' = failures
    BY <1>3, <1>5, <2>1 DEF Put
  <2>4. ASSUME ~late, failures' = 0 PROVE Handles'
    <3>1. Handles
      BY <2>3, <2>4 DEF Delivery, Flawless
    <3>2. /\ Workers' = Workers /\ workers'[w] = r
          /\ \A x \in Workers : x # w => workers'[x] = workers[x]
      BY <2>2, <2>3, PutWorkers DEF Delivery
    <3>3. SameDecoding
      BY <1>1, <1>2, <2>2, <2>3, <3>2 DEF SameDecoding, Decodes
    <3> QED
      BY <3>1, <3>3, SameDecodingKeepsHandles
  <2>5. GoesOn(w, r)
    <3>1. textures' \in [Buffer -> Picture \cup {None}]
      BY <1>2 DEF Delivery, Rest, Picture
    <3>2. failures' \in 0..MaxFailures /\ (failures > 0 => failures' > 0)
      BY <1>4, <2>3
    <3> QED
      BY <1>1, <1>2, <2>2, <2>3, <2>4, <3>1, <3>2 DEF GoesOn, Carries
  <2> QED
    BY <2>5, GoingOnKeepsDelivery
<1>6. CASE err
  <2>1. workers' = Put(w, Looped(TRUE)) /\ Looped(TRUE) \in Worker /\ Looped(TRUE).at \notin Carries
    BY <1>3, <1>6, LoopedRecord DEF Put, Carries
  <2>2. events' = events \/ \E e \in Event : events' = Append(events, e)
    BY <1>3, ChangeEvent DEF Delivery
  <2>3. CASE failures' \in 1..MaxFailures
    <3>1. GivesUp(w, Looped(TRUE))
      BY <1>1, <1>2, <2>1, <2>2, <2>3 DEF GivesUp
    <3> QED
      BY <3>1, GivingUpKeepsDelivery
  <2>4. CASE failures' = 0
    <3>1. workers[w].err /\ failures = 0 /\ ~seeks /\ failures' = failures /\ events' = events
      <4>1. ~seeks
        BY <1>3, <1>4, <1>6, <2>4
      <4>2. failures' = failures /\ failures = 0 /\ events' = events
        BY <1>3, <2>4, <4>1
      <4>3. workers[w].err
        BY <1>3, <1>6, <4>1, Zenon
      <4> QED
        BY <4>1, <4>2, <4>3
    <3>2. late
      BY <3>1 DEF Delivery, Flawless
    <3>3. Rest'
      BY <1>2, <3>1 DEF Delivery, Rest, Picture
    <3>4. Room'
      <4>1. Carrying' = Carrying \ {w}
        BY <2>1, PutWorkers DEF Delivery
      <4>2. Cardinality(Carrying') \in Nat /\ Cardinality(Carrying') + 1 = Cardinality(Carrying)
        BY <1>1, <4>1, CarryingCount DEF Delivery
      <4>3. Len(events) \in Nat /\ Len(queue) \in Nat /\ asked \in Nat
        BY Bounds DEF Delivery
      <4> QED
        BY <1>2, <3>1, <4>2, <4>3 DEF Delivery, Room
    <3>5. Flawless'
      BY <1>2, <3>2 DEF Flawless
    <3> QED
      BY <3>3, <3>4, <3>5 DEF Delivery
  <2>5. failures' \in 0..MaxFailures
    BY <1>3, <1>4
  <2> QED
    BY <1>4, <2>3, <2>4, <2>5
<1> QED
  BY <1>5, <1>6

\* The picture is there, and a signal that will show it.
LEMMA WriteKeepsDelivery ==
  ASSUME IInv, Delivery, NEW w \in Workers, W_write(w)
  PROVE  Delivery'
<1>1. /\ workers[w] \in Worker /\ w \in Carrying /\ workers[w].at = "write"
      /\ Len(events) \in Nat /\ Len(queue) \in Nat /\ asked \in Nat
  BY Bounds DEF Delivery, W_write, Carrying
<1>2. UNCHANGED <<asked, flip, main, queue, handles, late, failures>>
  BY DEF W_write, quadVars, history
<1>3. PICK b \in Buffer, pic \in Picture : b = workers[w].request.buf /\ pic = workers[w].request.pic
  BY <1>1 DEF Worker, Request
<1>4. PICK e \in Event : e = Change(w)
  BY ChangeEvent DEF Delivery
<1>5. e.kind = "change" /\ e.buf = b /\ e.samep = workers[w].samep
  BY <1>3, <1>4 DEF Change
<1>6. /\ workers' = Put(w, Looped(FALSE)) /\ events' = Append(events, e)
      /\ textures' = [textures EXCEPT ![b] = pic]
  BY <1>3, <1>4 DEF W_write, Put
<1>7. Looped(FALSE) \in Worker /\ Looped(FALSE).at \notin Carries /\ Looped(FALSE).err = FALSE
  BY LoopedRecord DEF Looped, Carries, NewWorker
<1>8. /\ Workers' = Workers /\ workers'[w] = Looped(FALSE)
      /\ \A x \in Workers : x # w => workers'[x] = workers[x]
      /\ Carrying' = Carrying \ {w}
  BY <1>6, <1>7, PutWorkers DEF Delivery
<1>9. /\ events' \in Seq(Event) /\ Len(events') = Len(events) + 1
      /\ DOMAIN events = 1..Len(events) /\ DOMAIN events' = 1..(Len(events) + 1)
      /\ \A i \in 1..Len(events) : events'[i] = events[i]
      /\ events'[Len(events) + 1] = e
      /\ events # <<>> => events' # <<>> /\ Head(events') = Head(events)
  BY <1>6, Reported DEF Delivery
<1>10. /\ textures' \in [Buffer -> Picture \cup {None}] /\ textures'[b] = pic /\ pic # None
       /\ \A c \in Buffer : c # b => textures'[c] = textures[c]
  <2>1. textures \in [Buffer -> Picture \cup {None}]
    BY DEF Delivery, Rest
  <2>2. pic # None
    BY BoundsAssumption DEF Picture, None
  <2> QED
    BY <1>6, <2>1, <2>2
<1>11. Rest'
  BY <1>2, <1>9, <1>10, WorkerRest DEF Delivery, Rest
<1>12. Room'
  <2>1. Cardinality(Carrying') \in Nat /\ Cardinality(Carrying') + 1 = Cardinality(Carrying)
    BY <1>1, <1>8, CarryingCount DEF Delivery
  <2> QED
    BY <1>1, <1>2, <1>9, <2>1 DEF Delivery, Room
<1>13. ASSUME ~late, failures = 0
       PROVE  (\A x \in Workers : ~workers[x].err)' /\ Handles' /\ LastRequest'
  <2>1. /\ \A x \in Workers : ~workers[x].err
        /\ Handles /\ LastRequest /\ Carrying = {w}
    BY <1>1, <1>13, Bounds DEF Delivery, Flawless
  <2>2. (\A x \in Workers : ~workers[x].err)'
    BY <1>7, <1>8, <2>1
  <2>3. /\ \A x \in Workers', c \in Buffer : ~Decodes(x, c)'
        /\ Decodes(w, b)
        /\ \A x \in Workers, c \in Buffer : Decodes(x, c) => x = w /\ c = b
    BY <1>1, <1>3, <1>7, <1>8, <2>1 DEF Decodes, Carrying, Carries
  <2>4. PICK n \in Nat : n = Len(events)
    BY <1>1
  <2>5. /\ \A i \in 1..n : \A c : ChangeOf(i, c)' <=> ChangeOf(i, c)
        /\ ChangeOf(n + 1, b)' /\ \A c : ChangeOf(n + 1, c)' => c = b
    BY <1>5, <1>9, <2>4 DEF ChangeOf
  <2>6. \A i \in 1..(n + 1) : \A c : HasHandle(c, i) => HasHandle(c, i)'
    BY <1>2, <1>9, <2>4, <2>5 DEF HasHandle
  <2>7. Handles'
    <3>1. \A i \in 1..(n + 1), c \in Buffer : ChangeOf(i, c)' =>
             textures'[c] # None /\ (events'[i].samep => HasHandle(c, i)')
      <4> SUFFICES ASSUME NEW i \in 1..(n + 1), NEW c \in Buffer, ChangeOf(i, c)'
                   PROVE  textures'[c] # None /\ (events'[i].samep => HasHandle(c, i)')
        OBVIOUS
      <4>1. CASE i = n + 1
        <5>1. c = b
          BY <2>5, <4>1
        <5>2. workers[w].samep => HasHandle(b, n + 1)
          BY <2>1, <2>3, <2>4 DEF Handles
        <5> QED
          BY <1>5, <1>9, <1>10, <2>4, <2>6, <4>1, <5>1, <5>2
      <4>2. CASE i \in 1..n
        <5>1. textures[c] # None /\ (events[i].samep => HasHandle(c, i))
          BY <1>9, <2>1, <2>4, <2>5, <4>2 DEF Handles
        <5> QED
          BY <1>9, <1>10, <2>4, <2>6, <4>2, <5>1
      <4> QED
        BY <4>1, <4>2
    <3>2. \A c \in Buffer : textures'[c] # None => HasHandle(c, n + 2)'
      <4> SUFFICES ASSUME NEW c \in Buffer, textures'[c] # None PROVE HasHandle(c, n + 2)'
        OBVIOUS
      <4>1. CASE c = b /\ ~workers[w].samep
        BY <1>5, <1>9, <2>4, <2>5, <4>1 DEF HasHandle
      <4>2. CASE HasHandle(c, n + 1)
        BY <2>4, <2>6, <4>2, <1>9 DEF HasHandle
      <4>3. c = b => (workers[w].samep => HasHandle(c, n + 1))
        BY <2>1, <2>3, <2>4 DEF Handles
      <4>4. c # b => HasHandle(c, n + 1)
        BY <1>10, <2>1, <2>3, <2>4 DEF Handles
      <4> QED
        BY <4>1, <4>2, <4>3, <4>4
    <3>3. Len(events') + 1 = n + 2
      BY <1>9, <2>4
    <3> QED
      BY <1>9, <2>3, <2>4, <3>1, <3>2, <3>3 DEF Handles
  <2>8. LastRequest'
    <3> SUFFICES ASSUME asked > 0 PROVE LastRequest'
      BY <1>2 DEF LastRequest
    <3>1. Queued \/ Taken
      BY <2>1 DEF LastRequest, Decoded
    <3>2. Queued => Queued'
      BY <1>2 DEF Queued
    <3>3. ASSUME Taken PROVE Decoded(b)' /\ Told(b)'
      <4>1. pic = asked /\ queue = <<>>
        BY <1>3, <2>1, <3>3 DEF Taken
      <4>2. Decoded(b)'
        BY <1>2, <1>8, <1>10, <2>1, <4>1 DEF Decoded
      <4>3. Told(b)'
        <5>1. n + 1 \in DOMAIN events' /\ \A j \in DOMAIN events' : ~(j > n + 1)
          BY <1>9, <2>4
        <5> QED
          BY <2>5, <5>1 DEF Told
      <4> QED
        BY <4>2, <4>3
    <3> QED
      BY <3>1, <3>2, <3>3 DEF LastRequest
  <2> QED
    BY <2>2, <2>7, <2>8
<1>14. Flawless'
  BY <1>2, <1>13 DEF Flawless
<1> QED
  BY <1>11, <1>12, <1>14 DEF Delivery

-----------------------------------------------------------------------------
(* The main thread's part *)

LEMMA ProcessKeepsDelivery ==
  ASSUME IInv, Delivery, Q_process
  PROVE  Delivery'
<1>1. /\ queue \in Seq(Request) /\ Len(queue) \in Nat /\ Len(events) \in Nat /\ asked \in Nat
      /\ Cardinality(Carrying) \in Nat
  BY Bounds DEF Delivery
<1>2. PICK n \in Nat : n = asked + 1
  BY <1>1
<1>3. PICK q : q = [buf |-> Back, pic |-> n]
  OBVIOUS
<1>4. q \in Request /\ q.pic = n
  BY <1>1, <1>2, <1>3, BoundsAssumption DEF Q_process, Request, Back, Buffer, Picture
<1>5. /\ asked' = n /\ queue' = Append(queue, q) /\ main' = "asked" /\ main = "loop"
      /\ UNCHANGED <<flip, workers, textures, handles, events, failures, late>>
  BY <1>2, <1>3 DEF Q_process, history
<1>6. Len(queue') = Len(queue) + 1 /\ queue'[Len(queue) + 1] = q
  BY <1>1, <1>4, <1>5, AppendProperties
<1>7. Workers' = Workers /\ Carrying' = Carrying
  BY <1>5 DEF Workers, Carrying
<1>8. Rest'
  BY <1>5 DEF Delivery, Rest, Picture
<1>9. Room'
  BY <1>1, <1>2, <1>5, <1>6, <1>7 DEF Delivery, Room
<1>10. Flawless'
  <2> SUFFICES ASSUME ~late, failures = 0
               PROVE  (\A x \in Workers : ~workers[x].err)' /\ Handles' /\ LastRequest'
    BY <1>5 DEF Flawless
  <2>1. (\A x \in Workers : ~workers[x].err) /\ Handles
    BY DEF Delivery, Flawless
  <2>2. SameDecoding
    BY <1>5, <1>7 DEF SameDecoding, Decodes
  <2>3. Queued'
    <3>1. queue' # <<>> /\ queue'[Len(queue')].pic = n
      BY <1>1, <1>4, <1>6
    <3> QED
      BY <1>5, <3>1 DEF Queued
  <2> QED
    BY <1>5, <1>7, <2>1, <2>2, <2>3, SameDecodingKeepsHandles DEF LastRequest
<1> QED
  BY <1>8, <1>9, <1>10 DEF Delivery

\* The first signal.
LEMMA FirstEvent ==
  ASSUME Rest, events # <<>>
  PROVE  /\ Len(events) \in Nat /\ Len(events) > 0 /\ Head(events) = events[1] /\ events[1] \in Event
         /\ Tail(events) \in Seq(Event) /\ Len(Tail(events)) = Len(events) - 1
         /\ \A i \in 1..(Len(events) - 1) : Tail(events)[i] = events[i + 1]
         /\ DOMAIN events = 1..Len(events)
<1>1. events \in Seq(Event) /\ Len(events) \in Nat
  BY DEF Rest
<1>2. Len(events) > 0
  BY <1>1, EmptySeq
<1>3. /\ Tail(events) \in Seq(Event) /\ Len(Tail(events)) = Len(events) - 1
      /\ \A i \in 1..(Len(events) - 1) : Tail(events)[i] = events[i + 1]
  BY <1>1, HeadTailProperties
<1>4. events[1] \in Event
  BY <1>1, <1>2, ElementOfSeq
<1> QED
  BY <1>1, <1>2, <1>3, <1>4

LEMMA FlipKeepsDelivery ==
  ASSUME IInv, Delivery, Q_flip
  PROVE  Delivery'
<1>1. /\ Len(queue) \in Nat /\ asked \in Nat /\ Cardinality(Carrying) \in Nat
  BY Bounds DEF Delivery
<1>2. /\ events # <<>> /\ Head(events).kind = "flip" /\ events' = Tail(events)
      /\ flip' = (Head(events).buf = "a") /\ main = "loop" /\ main' = "loop"
      /\ UNCHANGED <<asked, queue, workers, textures, handles, failures, late>>
  BY DEF Q_flip, history
<1>3. PICK n \in Nat : n = Len(events) - 1
  <2>1. Len(events) \in Nat /\ Len(events) > 0
    BY <1>2, FirstEvent DEF Delivery
  <2>2. Len(events) - 1 \in Nat
    BY <2>1
  <2> QED
    BY <2>2
<1>4. /\ Len(events) = n + 1 /\ Len(events') = n /\ events' \in Seq(Event)
      /\ \A i \in 1..n : events'[i] = events[i + 1]
      /\ DOMAIN events = 1..(n + 1) /\ DOMAIN events' = 1..n
      /\ events[1] \in Event /\ events[1].kind = "flip" /\ flip' = (events[1].buf = "a")
  <2>1. events' \in Seq(Event) /\ Len(events') = n
    BY <1>2, <1>3, FirstEvent DEF Delivery
  <2> QED
    BY <1>2, <1>3, <2>1, FirstEvent DEF Delivery
<1>5. Workers' = Workers /\ Carrying' = Carrying
  BY <1>2 DEF Workers, Carrying
<1>6. Rest'
  <2>1. flip' \in BOOLEAN
    BY <1>2
  <2> QED
    BY <1>2, <1>4, <2>1 DEF Delivery, Rest, Picture
<1>7. Room'
  BY <1>1, <1>2, <1>4, <1>5 DEF Delivery, Room
<1>8. ASSUME ~late, failures = 0
      PROVE  (\A x \in Workers : ~workers[x].err)' /\ Handles' /\ LastRequest'
  <2>1. (\A x \in Workers : ~workers[x].err) /\ Handles /\ LastRequest
    BY <1>8 DEF Delivery, Flawless
  <2>2. \A i \in 1..n, c \in Buffer : ChangeOf(i, c)' <=> ChangeOf(i + 1, c)
    BY <1>4 DEF ChangeOf
  <2>3. \A c \in Buffer : ~ChangeOf(1, c)
    BY <1>4 DEF ChangeOf
  <2>4. ASSUME NEW i \in 1..(n + 1), NEW c \in Buffer, HasHandle(c, i + 1)
        PROVE  HasHandle(c, i)'
    <3>1. CASE handles[c] # None
      BY <1>2, <3>1 DEF HasHandle
    <3>2. CASE \E j \in DOMAIN events : j < i + 1 /\ ChangeOf(j, c) /\ ~events[j].samep
      <4>1. PICK j \in 1..(n + 1) : j < i + 1 /\ ChangeOf(j, c) /\ ~events[j].samep
        BY <1>4, <3>2
      <4>2. j # 1
        BY <2>3, <4>1
      <4>3. j - 1 \in 1..n /\ j - 1 < i /\ ChangeOf(j - 1, c)' /\ events'[j - 1] = events[j]
        BY <1>4, <2>2, <4>1, <4>2
      <4> QED
        BY <1>4, <4>1, <4>3 DEF HasHandle
    <3> QED
      BY <2>4, <3>1, <3>2 DEF HasHandle
  <2>5. Handles'
    <3>1. \A i \in 1..n, c \in Buffer : ChangeOf(i, c)' =>
            textures[c] # None /\ (events'[i].samep => HasHandle(c, i)')
      BY <1>4, <2>1, <2>2, <2>4 DEF Handles
    <3>2. \A x \in Workers, c \in Buffer : Decodes(x, c)' =>
            textures[c] # None /\ (workers[x].samep => HasHandle(c, n + 1)')
      BY <1>2, <1>4, <2>1, <2>4 DEF Handles, Decodes
    <3>3. \A c \in Buffer : textures[c] # None =>
            HasHandle(c, n + 1)' \/ \E x \in Workers : Decodes(x, c)' /\ ~workers[x].samep
      BY <1>2, <1>4, <2>1, <2>4 DEF Handles, Decodes
    <3> QED
      BY <1>2, <1>4, <1>5, <3>1, <3>2, <3>3 DEF Handles
  <2>6. LastRequest'
    <3> SUFFICES ASSUME asked > 0 PROVE LastRequest'
      BY <1>2 DEF LastRequest
    <3>1. (Queued => Queued') /\ (Taken => Taken')
      BY <1>2, <1>5 DEF Queued, Taken
    <3>2. ASSUME NEW b \in Buffer, Decoded(b), Told(b)
          PROVE  Decoded(b)' /\ Told(b)'
      <4>1. PICK i \in 1..(n + 1) : ChangeOf(i, b) /\ \A j \in 1..(n + 1) : j > i => events[j].kind = "flip"
        BY <1>4, <3>2 DEF Told
      <4>2. i # 1
        BY <2>3, <4>1
      <4>3. i - 1 \in 1..n /\ ChangeOf(i - 1, b)' /\ \A j \in 1..n : j > i - 1 => events'[j].kind = "flip"
        BY <1>4, <2>2, <4>1, <4>2
      <4>4. Told(b)'
        BY <1>4, <4>3 DEF Told
      <4> QED
        BY <1>2, <1>5, <3>2, <4>4 DEF Decoded
    <3>3. ASSUME NEW b \in Buffer, Decoded(b), Uploaded(b)
          PROVE  Decoded(b)' /\ Uploaded(b)'
      <4>1. handles'[b] = asked' /\ \A j \in 1..n : events'[j].kind = "flip"
        BY <1>2, <1>4, <3>3 DEF Uploaded
      <4>2. events[n + 1].buf = b
        BY <1>2, <1>4, <3>3 DEF Uploaded
      <4>3. CASE events' = <<>>
        <5>1. events[1].buf = b
          BY <1>4, <4>2, <4>3
        <5>2. Front' = b
          BY <1>4, <5>1 DEF Front, Buffer
        <5> QED
          BY <1>2, <1>4, <1>5, <3>3, <4>1, <4>3, <5>2 DEF Uploaded, Decoded
      <4>4. CASE events' # <<>>
        <5>1. n \in 1..n /\ events'[n].buf = b
          BY <1>4, <4>2, <4>4, EmptySeq
        <5> QED
          BY <1>2, <1>4, <1>5, <3>3, <4>1, <4>4, <5>1 DEF Uploaded, Decoded
      <4> QED
        BY <4>3, <4>4
    <3> QED
      BY <2>1, <3>1, <3>2, <3>3 DEF LastRequest
  <2> QED
    BY <1>2, <1>5, <2>1, <2>5, <2>6
<1>9. Flawless'
  BY <1>2, <1>8 DEF Flawless
<1> QED
  BY <1>6, <1>7, <1>9 DEF Delivery

\* The picture gets its handle, and the signal goes on to the quad.
LEMMA UploadKeepsDelivery ==
  ASSUME IInv, Delivery, R_uploaded
  PROVE  Delivery'
<1>1. /\ Len(queue) \in Nat /\ asked \in Nat /\ Cardinality(Carrying) \in Nat
  BY Bounds DEF Delivery
<1>2. /\ main = "upload" /\ main' = "loop" /\ events # <<>> /\ Head(events).kind = "change"
      /\ UNCHANGED <<asked, flip, queue, workers, textures, failures, late>>
  BY DEF R_uploaded, quadVars, history, Delivery, Rest
<1>3. PICK n \in Nat : n = Len(events) - 1
  <2>1. Len(events) \in Nat /\ Len(events) > 0
    BY <1>2, FirstEvent DEF Delivery
  <2>2. Len(events) - 1 \in Nat
    BY <2>1
  <2> QED
    BY <2>2
<1>4. PICK e \in Event : e = Head(events)
  BY <1>2, FirstEvent DEF Delivery
<1>5. PICK f : f = [e EXCEPT !.kind = "flip"]
  OBVIOUS
<1>6. f \in Event /\ f.kind = "flip" /\ f.buf = e.buf /\ e.buf \in Buffer
  BY <1>5 DEF Event
<1>7. /\ Len(events) = n + 1 /\ events[1] = e /\ e.kind = "change"
      /\ Len(events') = n + 1 /\ events' \in Seq(Event)
      /\ \A i \in 1..n : events'[i] = events[i + 1]
      /\ events'[n + 1] = f
      /\ DOMAIN events = 1..(n + 1) /\ DOMAIN events' = 1..(n + 1)
  <2>1. /\ Tail(events) \in Seq(Event) /\ Len(Tail(events)) = n /\ Len(events) = n + 1 /\ events[1] = e
        /\ \A i \in 1..n : Tail(events)[i] = events[i + 1] /\ DOMAIN events = 1..(n + 1)
    BY <1>2, <1>3, <1>4, FirstEvent DEF Delivery
  <2>2. events' = Append(Tail(events), f)
    BY <1>4, <1>5 DEF R_uploaded
  <2>3. /\ events' \in Seq(Event) /\ Len(events') = n + 1 /\ events'[n + 1] = f
        /\ \A i \in 1..n : events'[i] = Tail(events)[i]
    BY <1>6, <2>1, <2>2, AppendProperties
  <2>4. DOMAIN events' = 1..(n + 1) /\ DOMAIN events = 1..(n + 1)
    BY <2>1, <2>3 DEF Delivery, Rest
  <2> QED
    BY <1>2, <1>4, <2>1, <2>3, <2>4
<1>8. handles' = IF e.samep /\ handles[e.buf] = None THEN handles
                 ELSE [handles EXCEPT ![e.buf] = textures[e.buf]]
  BY <1>4 DEF R_uploaded
<1>9. Workers' = Workers /\ Carrying' = Carrying
  BY <1>2 DEF Workers, Carrying
<1>10. Rest'
  <2>1. handles' \in [Buffer -> Picture \cup {None}]
    BY <1>6, <1>8 DEF Delivery, Rest
  <2> QED
    BY <1>2, <1>7, <2>1 DEF Delivery, Rest, Picture
<1>11. Room'
  BY <1>1, <1>2, <1>7, <1>9 DEF Delivery, Room
<1>12. ASSUME ~late, failures = 0
       PROVE  (\A x \in Workers : ~workers[x].err)' /\ Handles' /\ LastRequest'
  <2>1. (\A x \in Workers : ~workers[x].err) /\ Handles /\ LastRequest
    BY <1>12 DEF Delivery, Flawless
  <2>2. /\ \A i \in 1..n : \A c \in Buffer : ChangeOf(i, c)' <=> ChangeOf(i + 1, c)
        /\ \A c \in Buffer : ~ChangeOf(n + 1, c)'
        /\ ChangeOf(1, e.buf) /\ \A c \in Buffer : ChangeOf(1, c) => c = e.buf
    BY <1>6, <1>7 DEF ChangeOf
  <2>3. textures[e.buf] # None /\ (e.samep => HasHandle(e.buf, 1))
    BY <1>6, <1>7, <2>1, <2>2 DEF Handles
  <2>4. e.samep => handles[e.buf] # None
    BY <1>7, <2>3 DEF HasHandle
  <2>5. /\ handles'[e.buf] = textures[e.buf] /\ handles'[e.buf] # None
        /\ \A c \in Buffer : c # e.buf => handles'[c] = handles[c]
    <3>1. handles' = [handles EXCEPT ![e.buf] = textures[e.buf]]
      BY <1>8, <2>4
    <3>2. handles \in [Buffer -> Picture \cup {None}]
      BY DEF Delivery, Rest
    <3> QED
      BY <1>6, <2>3, <3>1, <3>2
  <2>6. ASSUME NEW i \in 1..(n + 1), NEW c \in Buffer, HasHandle(c, i + 1)
        PROVE  HasHandle(c, i)' /\ HasHandle(c, n + 2)'
    <3>1. CASE handles[c] # None \/ c = e.buf
      BY <2>5, <3>1 DEF HasHandle
    <3>2. CASE c # e.buf /\ \E j \in DOMAIN events : j < i + 1 /\ ChangeOf(j, c) /\ ~events[j].samep
      <4>1. PICK j \in 1..(n + 1) : j < i + 1 /\ ChangeOf(j, c) /\ ~events[j].samep
        BY <1>7, <3>2
      <4>2. j # 1
        BY <2>2, <3>2, <4>1
      <4>3. /\ j - 1 \in 1..n /\ j - 1 < i /\ j - 1 < n + 2
            /\ ChangeOf(j - 1, c)' /\ events'[j - 1] = events[j]
        BY <1>7, <2>2, <4>1, <4>2
      <4> QED
        BY <1>7, <4>1, <4>3 DEF HasHandle
    <3> QED
      BY <2>6, <3>1, <3>2 DEF HasHandle
  <2>7. Handles'
    <3>1. \A i \in 1..(n + 1) : \A c \in Buffer : ChangeOf(i, c)' =>
            textures[c] # None /\ (events'[i].samep => HasHandle(c, i)')
      <4> SUFFICES ASSUME NEW i \in 1..(n + 1), NEW c \in Buffer, ChangeOf(i, c)'
                   PROVE  textures[c] # None /\ (events'[i].samep => HasHandle(c, i)')
        OBVIOUS
      <4>1. i \in 1..n /\ i + 1 \in 1..(n + 1)
        BY <2>2
      <4>2. ChangeOf(i + 1, c) /\ events'[i] = events[i + 1]
        BY <1>7, <2>2, <4>1
      <4>3. textures[c] # None /\ (events[i + 1].samep => HasHandle(c, i + 1))
        BY <1>7, <2>1, <4>1, <4>2 DEF Handles
      <4> QED
        BY <2>6, <4>2, <4>3
    <3>2. \A x \in Workers, c \in Buffer : Decodes(x, c)' =>
            textures[c] # None /\ (workers[x].samep => HasHandle(c, n + 2)')
      BY <1>2, <1>7, <2>1, <2>6 DEF Handles, Decodes
    <3>3. \A c \in Buffer : textures[c] # None =>
            HasHandle(c, n + 2)' \/ \E x \in Workers : Decodes(x, c)' /\ ~workers[x].samep
      BY <1>2, <1>7, <2>1, <2>6 DEF Handles, Decodes
    <3>4. Len(events') + 1 = n + 2
      BY <1>7
    <3> QED
      BY <1>2, <1>7, <1>9, <3>1, <3>2, <3>3, <3>4 DEF Handles
  <2>8. LastRequest'
    <3> SUFFICES ASSUME asked > 0 PROVE LastRequest'
      BY <1>2 DEF LastRequest
    <3>1. (Queued => Queued') /\ (Taken => Taken') /\ \A b \in Buffer : Decoded(b) => Decoded(b)'
      BY <1>2, <1>9 DEF Queued, Taken, Decoded
    <3>2. ASSUME NEW b \in Buffer, Decoded(b), Told(b)
          PROVE  Told(b)' \/ Uploaded(b)'
      <4>1. PICK i \in 1..(n + 1) : ChangeOf(i, b) /\ \A j \in 1..(n + 1) : j > i => events[j].kind = "flip"
        BY <1>7, <3>2 DEF Told
      <4>2. CASE i = 1
        <5>1. b = e.buf /\ textures[b] = asked
          BY <2>2, <3>2, <4>1, <4>2 DEF Decoded
        <5>2. \A j \in 1..(n + 1) : events'[j].kind = "flip"
          BY <1>6, <1>7, <4>1, <4>2
        <5>3. events' # <<>> /\ events'[Len(events')].buf = b
          BY <1>6, <1>7, <5>1
        <5>4. handles'[b] = asked'
          BY <1>2, <2>5, <5>1
        <5>5. Uploaded(b)'
          BY <1>7, <5>2, <5>3, <5>4 DEF Uploaded
        <5> QED
          BY <5>5
      <4>3. CASE i # 1
        <5>. PICK k \in 1..n : i = k + 1
          <6>1. i - 1 \in 1..n /\ i = (i - 1) + 1
            BY <4>3
          <6> QED
            BY <6>1
        <5>1. ChangeOf(k, b)'
          BY <2>2, <4>1
        <5>2. \A j \in 1..(n + 1) : j > k => events'[j].kind = "flip"
          <6>1. \A j \in 1..n : j > k => events[j + 1].kind = "flip"
            BY <4>1
          <6> QED
            BY <1>6, <1>7, <6>1
        <5>3. Told(b)'
          BY <1>7, <5>1, <5>2 DEF Told
        <5> QED
          BY <5>3
      <4> QED
        BY <4>2, <4>3
    <3>3. \A b \in Buffer : ~Uploaded(b)
      BY <1>7 DEF Uploaded
    <3> QED
      BY <2>1, <3>1, <3>2, <3>3 DEF LastRequest
  <2> QED
    BY <1>2, <1>9, <2>1, <2>7, <2>8
<1>13. Flawless'
  BY <1>2, <1>12 DEF Flawless
<1> QED
  BY <1>10, <1>11, <1>13 DEF Delivery

-----------------------------------------------------------------------------
(* The theorems *)

LEMMA InitDelivery == Init => Delivery
<1> SUFFICES ASSUME Init PROVE Delivery
  OBVIOUS
<1>1. events = <<>> /\ queue = <<>> /\ asked = 0 /\ Workers = {} /\ Carrying = {}
  BY DEF Init, Workers, Carrying
<1>2. Rest
  <2>1. textures \in [Buffer -> Picture \cup {None}] /\ handles \in [Buffer -> Picture \cup {None}]
    BY DEF Init
  <2>2. failures \in 0..MaxFailures /\ events \in Seq(Event)
    BY <1>1, BoundsAssumption DEF Init
  <2> QED
    BY <2>1, <2>2 DEF Init, Rest
<1>3. Room
  <2>1. Cardinality(Carrying) = 0
    BY <1>1, FS_EmptySet
  <2> QED
    BY <1>1, <2>1 DEF Room
<1>4. Handles
  BY <1>1 DEF Init, Handles
<1>5. LastRequest
  BY <1>1 DEF LastRequest
<1> QED
  BY <1>1, <1>2, <1>3, <1>4, <1>5 DEF Delivery, Flawless

LEMMA AlwaysDelivery == Spec => [](IInv /\ Delivery)
<1>1. IInv /\ Delivery /\ [Next]_vars => Delivery'
  <2> SUFFICES ASSUME IInv, Delivery, [Next]_vars PROVE Delivery'
    OBVIOUS
  <2>1. ASSUME NEW w \in Workers, WorkerThread(w)
        PROVE  Delivery'
    BY <2>1, IdleStepsKeepDelivery, TakeKeepsDelivery, TextureKeepsDelivery, SeekKeepsDelivery, WriteKeepsDelivery,
       FailureKeepsDelivery DEF WorkerThread
  <2>2. CASE Q_process \/ MainThread
    BY <2>2, ProcessKeepsDelivery, MainIdleKeepsDelivery, FlipKeepsDelivery, UploadKeepsDelivery DEF MainThread
  <2>3. CASE UNCHANGED vars
    <3>1. /\ Continues /\ main' = main
      BY <2>3 DEF vars, quadVars, history, Continues, Carrying, Carries, Workers
    <3> QED
      BY <3>1, ContinuesKeepDelivery DEF Delivery, Rest
  <2> QED
    BY <2>1, <2>2, <2>3 DEF Next
<1> QED
  BY <1>1, InitDelivery, AlwaysIInv, PTL DEF Spec

\* The state keeps its types, and there are never more signals than requests.
THEOREM VideoTypes == Spec => []TypeOK
<1>1. IInv /\ Delivery => TypeOK
  <2> SUFFICES ASSUME IInv, Delivery PROVE TypeOK
    OBVIOUS
  <2>1. Len(events) <= asked
    BY Bounds DEF Delivery, Room
  <2> QED
    BY <2>1 DEF IInv, Delivery, Types, Rest, TypeOK, Last
<1> QED
  BY <1>1, AlwaysDelivery, PTL

\* When all is decoded and delivered, the quad shows the picture it asked for last.
THEOREM QuietShowsLastHolds == Spec => []QuietShowsLast
<1>1. Delivery => QuietShowsLast
  <2> SUFFICES ASSUME Delivery, Quiet, ~late, failures = 0, asked > 0 PROVE handles[Front] = asked
    BY DEF QuietShowsLast
  <2>1. Carrying = {} /\ events = <<>> /\ queue = <<>>
    BY DEF Quiet, Carrying
  <2>2. LastRequest
    BY DEF Delivery, Flawless
  <2>3. PICK b \in Buffer : Decoded(b) /\ (Told(b) \/ Uploaded(b))
    BY <2>1, <2>2 DEF LastRequest, Queued, Taken
  <2>4. Uploaded(b)
    BY <2>1, <2>3 DEF Told
  <2> QED
    BY <2>1, <2>4 DEF Uploaded
<1> QED
  BY <1>1, AlwaysDelivery, PTL
=============================================================================

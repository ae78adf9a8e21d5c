------------------------------ MODULE Receiver ------------------------------
(***************************************************************************)
(* How messages come in and how the server goes down: the OSC receive      *)
(* thread (OscHandler::run over oscpack's select loop), the queue of Qt    *)
(* signals from it to the main thread, the control loop's thread, the      *)
(* signal handler and ScGraph::stop.                                       *)
(*                                                                         *)
(* A packet is the sequence of its elements, nested bundles flattened in   *)
(* the order ProcessBundle visits them; "bad" is an element whose parsing  *)
(* throws.  What a message does is modelled in Server, but for /quit and   *)
(* /controlRate, whose element is the rate it sets.                        *)
(***************************************************************************)
EXTENDS Integers, Sequences

CONSTANTS
  Packets,      (* the packets clients send                                *)
  MaxPackets,   (* bound: packets sent in a behaviour                      *)
  MaxSignals,   (* bound: signals sent in a behaviour                      *)
  MaxOwed       (* bound: control cycles that fall due in one iteration    *)

Rates    == {"negative", "zero", "positive"}
Messages == {"other", "quit"} \cup Rates
Elements == Messages \cup {"bad"}

ASSUME PacketsAssumption == Packets \subseteq Seq(Elements)
ASSUME BoundsAssumption == MaxPackets \in Nat /\ MaxSignals \in Nat /\ MaxOwed \in Nat

VARIABLES
  main,         (* where the main thread is                                *)
  exiting,      (* QApplication::exit has been called in the event loop    *)
  signalled,    (* signalled_again                                         *)
  receiver,     (* where the receive thread is                             *)
  break_,       (* oscpack's flag                                          *)
  pipe,         (* bytes in oscpack's break pipe                           *)
  socket,       (* datagrams that have arrived                             *)
  packet,       (* what is left of the packet being processed              *)
  posted,       (* messages posted to the main thread                      *)
  control,      (* where the control thread is                             *)
  quit,         (* ControlLoop::_quit                                      *)
  rate,         (* ControlLoop::_freq                                      *)
  owed,         (* control cycles in _sum_delta_t                          *)
  sent, signals (* how much the outside has sent                           *)

mainVars     == <<main, exiting, signalled>>
receiverVars == <<receiver, packet>>
breakVars    == <<break_, pipe>>
controlVars  == <<control, quit, rate, owed>>
outside      == <<sent, signals>>
vars == <<mainVars, receiverVars, breakVars, socket, posted, controlVars, outside>>

Alive == main \notin {"gone", "killed"}

-----------------------------------------------------------------------------
(* The outside: packets may be lost, repeated and reordered on their way      *)

Arrive ==
  /\ Alive /\ sent < MaxPackets
  /\ \E p \in Packets : socket' = Append(socket, p)
  /\ sent' = sent + 1
  /\ UNCHANGED <<mainVars, receiverVars, breakVars, posted, controlVars, signals>>

\* signal_handler.  It runs on either thread; the receive thread's select then
\* fails with EINTR and leaves its set as it was: with the pipe marked ready.
\* Qt's exit has no effect before exec.
Signal ==
  /\ Alive /\ signals < MaxSignals
  /\ signals' = signals + 1
  /\ IF signalled
     THEN main' = "killed" /\ UNCHANGED <<exiting, signalled>>
     ELSE /\ signalled' = TRUE
          /\ exiting' = (exiting \/ main = "loop")
          /\ UNCHANGED main
  /\ receiver' \in {receiver, IF receiver = "select" THEN "pipe" ELSE receiver}
  /\ UNCHANGED <<packet, breakVars, socket, posted, controlVars, sent>>

-----------------------------------------------------------------------------
(* The receive thread                                                         *)

\* Run begins by taking back whatever break there was.
R_Enter ==
  /\ Alive /\ receiver = "enter"
  /\ break_' = FALSE
  /\ receiver' = "check"
  /\ UNCHANGED <<mainVars, packet, pipe, socket, posted, controlVars, outside>>

R_Check ==
  /\ Alive /\ receiver = "check"
  /\ receiver' = IF break_ THEN "done" ELSE "select"
  /\ UNCHANGED <<mainVars, packet, breakVars, socket, posted, controlVars, outside>>

R_Select ==
  /\ Alive /\ receiver = "select"
  /\ pipe > 0 \/ socket # <<>>
  /\ receiver' = IF pipe > 0 THEN "pipe" ELSE "look"
  /\ UNCHANGED <<mainVars, packet, breakVars, socket, posted, controlVars, outside>>

\* The read blocks if select left the pipe marked for nothing.
R_ReadPipe ==
  /\ Alive /\ receiver = "pipe"
  /\ pipe > 0
  /\ pipe' = pipe - 1
  /\ receiver' = "look"
  /\ UNCHANGED <<mainVars, packet, break_, socket, posted, controlVars, outside>>

R_Look ==
  /\ Alive /\ receiver = "look"
  /\ IF break_ \/ socket = <<>>
     THEN /\ receiver' = IF break_ THEN "done" ELSE "check"
          /\ UNCHANGED <<packet, socket>>
     ELSE /\ receiver' = "process"
          /\ packet' = Head(socket)
          /\ socket' = Tail(socket)
  /\ UNCHANGED <<mainVars, breakVars, posted, controlVars, outside>>

\* ProcessMessage posts what parses, ...
R_Post ==
  /\ Alive /\ receiver = "process"
  /\ packet # <<>> /\ Head(packet) \in Messages
  /\ posted' = Append(posted, Head(packet))
  /\ packet' = Tail(packet)
  /\ UNCHANGED <<mainVars, receiver, breakVars, socket, controlVars, outside>>

\* Mutant: the thread ends with a malformed packet.
R_ThrowOut ==
  /\ Alive /\ receiver = "process"
  /\ packet # <<>> /\ Head(packet) = "bad"
  /\ packet' = <<>>
  /\ receiver' = "done"
  /\ UNCHANGED <<mainVars, breakVars, socket, posted, controlVars, outside>>

\* ... and what does not throws out of Run, which is then entered again.
R_Throw ==
  /\ Alive /\ receiver = "process"
  /\ packet # <<>> /\ Head(packet) = "bad"
  /\ packet' = <<>>
  /\ receiver' = "enter"
  /\ UNCHANGED <<mainVars, breakVars, socket, posted, controlVars, outside>>

R_Processed ==
  /\ Alive /\ receiver = "process"
  /\ packet = <<>>
  /\ receiver' = "check"
  /\ UNCHANGED <<mainVars, packet, breakVars, socket, posted, controlVars, outside>>

ReceiveThread == R_Enter \/ R_Check \/ R_Select \/ R_ReadPipe \/ R_Look \/ R_Post
                 \/ R_Throw \/ R_Processed

-----------------------------------------------------------------------------
(* The control thread.  Its mutex is held for single reads and writes only.   *)

\* Mutant: the thread does not look at _quit.
C_CheckNot ==
  /\ Alive /\ control = "check"
  /\ control' = "cycles" /\ owed' \in 0..MaxOwed
  /\ UNCHANGED <<mainVars, receiverVars, breakVars, socket, posted, quit, rate, outside>>

\* _quit is read; if it is not set, the time that has passed is measured.
C_Check ==
  /\ Alive /\ control = "check"
  /\ \/ quit /\ control' = "done" /\ UNCHANGED owed
     \/ ~quit /\ control' = "cycles" /\ owed' \in 0..MaxOwed
  /\ UNCHANGED <<mainVars, receiverVars, breakVars, socket, posted, quit, rate, outside>>

\* Mutant: a cycle is run before its time has come.
DueEarly == rate # "zero"

\* A cycle is due while _sum_delta_t >= 1.0/_freq: never when the rate is 0, and
\* always when it is negative, for subtracting the period then adds to the sum.
Due == rate = "negative" \/ (rate = "positive" /\ owed > 0)

C_Cycle ==
  /\ Alive /\ control = "cycles"
  /\ Due
  /\ owed' = IF rate = "negative" THEN owed ELSE owed - 1
  /\ UNCHANGED <<mainVars, receiverVars, breakVars, socket, posted, control, quit, rate, outside>>

C_Sleep ==
  /\ Alive /\ control = "cycles"
  /\ ~Due
  /\ control' = "check"
  /\ UNCHANGED <<mainVars, receiverVars, breakVars, socket, posted, quit, rate, owed, outside>>

ControlThread == C_Check \/ C_Cycle \/ C_Sleep

-----------------------------------------------------------------------------
(* The main thread: main, and ScGraph::stop step by step                      *)

M_Start ==
  /\ main = "starting"
  /\ main' = "exec"
  /\ receiver' = "enter"
  /\ control' = "check"
  /\ UNCHANGED <<exiting, signalled, packet, breakVars, socket, posted, quit, rate, owed, outside>>

M_Exec ==
  /\ main = "exec"
  /\ main' = "loop"
  /\ UNCHANGED <<exiting, signalled, receiverVars, breakVars, socket, posted, controlVars, outside>>

\* handle_message, while the event loop runs and for what it still delivers
\* after exit.
M_Handle ==
  /\ main = "loop"
  /\ posted # <<>>
  /\ exiting' = (exiting \/ Head(posted) = "quit")
  /\ rate' = IF Head(posted) \in Rates THEN Head(posted) ELSE rate
  /\ posted' = Tail(posted)
  /\ UNCHANGED <<main, signalled, receiverVars, breakVars, socket, control, quit, owed, outside>>

M_Leave ==
  /\ main = "loop"
  /\ exiting
  /\ main' = "break"
  /\ UNCHANGED <<exiting, signalled, receiverVars, breakVars, socket, posted, controlVars, outside>>

M_Break ==
  /\ main = "break"
  /\ break_' = TRUE
  /\ main' = "write"
  /\ UNCHANGED <<exiting, signalled, receiverVars, pipe, socket, posted, controlVars, outside>>

\* Mutant: the receive thread is not woken.
M_WriteNot ==
  /\ main = "write"
  /\ main' = "wait"
  /\ UNCHANGED <<exiting, signalled, receiverVars, breakVars, socket, posted, controlVars, outside>>

M_Write ==
  /\ main = "write"
  /\ pipe' = pipe + 1
  /\ main' = "wait"
  /\ UNCHANGED <<exiting, signalled, receiverVars, break_, socket, posted, controlVars, outside>>

\* Mutant: stop does not wait for the thread.
M_WaitNot ==
  /\ main = "wait"
  /\ main' = "quit"
  /\ UNCHANGED <<exiting, signalled, receiverVars, breakVars, socket, posted, controlVars, outside>>

M_Wait ==
  /\ main = "wait"
  /\ receiver = "done"
  /\ main' = "quit"
  /\ UNCHANGED <<exiting, signalled, receiverVars, breakVars, socket, posted, controlVars, outside>>

M_Quit ==
  /\ main = "quit"
  /\ quit' = TRUE
  /\ main' = "join"
  /\ UNCHANGED <<exiting, signalled, receiverVars, breakVars, socket, posted, control, rate, owed,
                 outside>>

\* The timer is stopped and ScGraph deleted, with the handler and its socket.
M_Join ==
  /\ main = "join"
  /\ control = "done"
  /\ main' = "gone"
  /\ UNCHANGED <<exiting, signalled, receiverVars, breakVars, socket, posted, controlVars, outside>>

MainThread == M_Start \/ M_Exec \/ M_Handle \/ M_Leave \/ M_Break \/ M_Write \/ M_Wait
              \/ M_Quit \/ M_Join

-----------------------------------------------------------------------------

\* After the signal handler is set; the rate comes from the command line.
Init ==
  /\ main = "starting" /\ exiting = FALSE /\ signalled = FALSE
  /\ receiver = "off" /\ packet = <<>>
  /\ break_ = FALSE /\ pipe = 0
  /\ socket = <<>> /\ posted = <<>>
  /\ control = "off" /\ quit = FALSE /\ rate \in {"zero", "positive"} /\ owed = 0
  /\ sent = 0 /\ signals = 0

Next == Arrive \/ Signal \/ ReceiveThread \/ ControlThread \/ MainThread

Spec == Init /\ [][Next]_vars

\* Each thread runs on.  The event loop that has been told to exit does so.
Fairness == /\ WF_vars(ReceiveThread)
            /\ WF_vars(ControlThread)
            /\ WF_vars(MainThread)

FairSpec == Spec /\ Fairness

-----------------------------------------------------------------------------
(* Properties *)

TypeOK ==
  /\ main \in {"starting", "exec", "loop", "break", "write", "wait", "quit", "join",
               "gone", "killed"}
  /\ exiting \in BOOLEAN
  /\ signalled \in BOOLEAN
  /\ receiver \in {"off", "enter", "check", "select", "pipe", "look", "process", "done"}
  /\ break_ \in BOOLEAN
  /\ pipe \in 0..1
  /\ socket \in Seq(Packets)
  /\ packet \in Seq(Elements)
  /\ posted \in Seq(Messages)
  /\ control \in {"off", "check", "cycles", "done"}
  /\ quit \in BOOLEAN
  /\ rate \in Rates
  /\ owed \in 0..MaxOwed
  /\ sent \in 0..MaxPackets
  /\ signals \in 0..MaxSignals

\* The handler, its socket and the control loop are deleted only when no thread
\* can use them any more.
DeletedWhenUnused == main = "gone" => receiver = "done" /\ control = "done"

\* As long as nobody signals or quits, all that arrives is handled, however many
\* malformed packets come with it.
AllIsHandled ==
  main = "loop" ~> \/ signalled \/ exiting
                   \/ socket = <<>> /\ packet = <<>> /\ posted = <<>>

\* A break that finds the receive thread inside Run's loop ends the thread.
BreakEndsLoop ==
  break_ /\ receiver \in {"check", "select", "pipe", "look"}
    ~> receiver = "done" \/ main = "killed"

\* The control thread ends when it is told to, unless its rate is negative.
QuitEndsControl == quit /\ rate # "negative" ~> control = "done" \/ main = "killed"

\* A break always ends the receive thread.  It does not: Run takes it back when
\* it is only entered after the break, be it for the first time or after a
\* malformed packet.
BreakEndsReceiver == break_ ~> receiver = "done" \/ main = "killed"
=============================================================================

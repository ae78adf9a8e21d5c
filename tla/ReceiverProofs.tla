--------------------------- MODULE ReceiverProofs ---------------------------
(***************************************************************************)
(* Why nothing is deleted under a running thread, for any packets, any     *)
(* number of them and of signals, and any number of control cycles owed.   *)
(***************************************************************************)
EXTENDS Receiver, SequenceTheorems, TLAPS

\* ScGraph::stop in its order: the byte in the pipe is the one it writes, and
\* each thread has ended before stop goes on.
StopOrder ==
  /\ main \in {"starting", "exec", "loop", "break", "write"} => pipe = 0
  /\ main \in {"quit", "join", "gone"} => receiver = "done"
  /\ main = "gone" => control = "done"

IInv == TypeOK /\ StopOrder

LEMMA InitIInv == Init => IInv
<1> SUFFICES ASSUME Init PROVE IInv
  OBVIOUS
<1>1. socket \in Seq(Packets) /\ packet \in Seq(Elements) /\ posted \in Seq(Messages)
  BY DEF Init
<1>2. owed \in 0..MaxOwed /\ sent \in 0..MaxPackets /\ signals \in 0..MaxSignals
  BY BoundsAssumption DEF Init
<1>3. rate \in Rates
  BY DEF Init, Rates
<1>4. StopOrder
  BY DEF Init, StopOrder
<1>5. /\ main = "starting" /\ exiting = FALSE /\ signalled = FALSE /\ receiver = "off"
      /\ break_ = FALSE /\ pipe = 0 /\ control = "off" /\ quit = FALSE
  BY DEF Init
<1>6. exiting \in BOOLEAN /\ signalled \in BOOLEAN /\ break_ \in BOOLEAN /\ quit \in BOOLEAN
  BY <1>5
<1>7. pipe \in 0..1
  BY <1>5
<1>8. /\ main \in {"starting", "exec", "loop", "break", "write", "wait", "quit", "join",
                  "gone", "killed"}
      /\ receiver \in {"off", "enter", "check", "select", "pipe", "look", "process", "done"}
      /\ control \in {"off", "check", "cycles", "done"}
  BY <1>5
<1> QED
  BY <1>1, <1>2, <1>3, <1>4, <1>6, <1>7, <1>8 DEF IInv, TypeOK

\* The outside: it may end the process, but moves no thread to its end.
LEMMA OutsideKeepsIInv ==
  ASSUME IInv, Arrive \/ Signal
  PROVE  IInv'
<1>1. CASE Arrive
  <2>1. PICK p \in Packets : socket' = Append(socket, p)
    BY <1>1 DEF Arrive
  <2>2. socket' \in Seq(Packets)
    BY <2>1, AppendProperties DEF IInv, TypeOK
  <2>3. sent' \in 0..MaxPackets
    BY <1>1, BoundsAssumption DEF Arrive, IInv, TypeOK
  <2> QED
    BY <1>1, <2>2, <2>3 DEF Arrive, IInv, TypeOK, StopOrder, mainVars, receiverVars, breakVars,
       controlVars
<1>2. CASE Signal
  <2>1. signals' \in 0..MaxSignals
    BY <1>2, BoundsAssumption DEF Signal, IInv, TypeOK
  <2>2. main' \in {main, "killed"} /\ exiting' \in BOOLEAN /\ signalled' \in BOOLEAN
    BY <1>2 DEF Signal, IInv, TypeOK
  <2>3. receiver' \in {receiver, "pipe"} /\ (receiver = "done" => receiver' = "done")
    BY <1>2 DEF Signal
  <2>4. main # "gone"
    BY <1>2 DEF Signal, Alive
  <2>5. UNCHANGED <<packet, break_, pipe, socket, posted, control, quit, rate, owed, sent>>
    BY <1>2 DEF Signal, breakVars, controlVars
  <2> QED
    BY <2>1, <2>2, <2>3, <2>4, <2>5 DEF IInv, TypeOK, StopOrder
<1> QED
  BY <1>1, <1>2

\* The receive thread: it never comes back from its end, and takes bytes out of
\* the pipe only.
LEMMA ReceiverKeepsIInv ==
  ASSUME IInv, ReceiveThread
  PROVE  IInv'
<1>1. UNCHANGED <<main, exiting, signalled, control, quit, rate, owed, sent, signals>>
  BY DEF ReceiveThread, R_Enter, R_Check, R_Select, R_ReadPipe, R_Look, R_Post, R_Throw,
     R_Processed, mainVars, controlVars, outside
<1>2. receiver # "done"
  BY DEF ReceiveThread, R_Enter, R_Check, R_Select, R_ReadPipe, R_Look, R_Post, R_Throw,
     R_Processed
<1>3. /\ receiver' \in {"off", "enter", "check", "select", "pipe", "look", "process", "done"}
      /\ break_' \in BOOLEAN
  BY DEF IInv, TypeOK, ReceiveThread, R_Enter, R_Check, R_Select, R_ReadPipe, R_Look, R_Post,
     R_Throw, R_Processed, receiverVars, breakVars
<1>4. pipe' \in 0..1 /\ (pipe = 0 => pipe' = 0)
  BY DEF IInv, TypeOK, ReceiveThread, R_Enter, R_Check, R_Select, R_ReadPipe, R_Look, R_Post,
     R_Throw, R_Processed, breakVars
<1>5. socket' \in Seq(Packets) /\ packet' \in Seq(Elements)
  <2>1. CASE R_Look /\ ~(break_ \/ socket = <<>>)
    <3>1. /\ socket \in Seq(Packets) /\ socket # <<>>
          /\ packet' = Head(socket) /\ socket' = Tail(socket)
      BY <2>1 DEF R_Look, IInv, TypeOK
    <3>2. Head(socket) \in Packets /\ Tail(socket) \in Seq(Packets)
      BY <3>1, HeadTailProperties
    <3> QED
      BY <3>1, <3>2, PacketsAssumption
  <2>2. CASE R_Post
    <3>1. /\ packet \in Seq(Elements) /\ packet # <<>> /\ packet' = Tail(packet)
          /\ socket' = socket
      BY <2>2 DEF R_Post, IInv, TypeOK
    <3> QED
      BY <3>1, HeadTailProperties DEF IInv, TypeOK
  <2>3. CASE R_Throw
    BY <2>3 DEF R_Throw, IInv, TypeOK
  <2>4. CASE UNCHANGED <<packet, socket>>
    BY <2>4 DEF IInv, TypeOK
  <2> QED
    BY <2>1, <2>2, <2>3, <2>4 DEF ReceiveThread, R_Enter, R_Check, R_Select, R_ReadPipe, R_Look,
       R_Processed
<1>6. posted' \in Seq(Messages)
  <2>1. CASE R_Post
    <3>1. Head(packet) \in Messages /\ posted' = Append(posted, Head(packet))
      BY <2>1 DEF R_Post
    <3> QED
      BY <3>1, AppendProperties DEF IInv, TypeOK
  <2>2. CASE UNCHANGED posted
    BY <2>2 DEF IInv, TypeOK
  <2> QED
    BY <2>1, <2>2 DEF ReceiveThread, R_Enter, R_Check, R_Select, R_ReadPipe, R_Look, R_Throw,
       R_Processed
<1> QED
  BY <1>1, <1>2, <1>3, <1>4, <1>5, <1>6 DEF IInv, TypeOK, StopOrder

\* The control thread: it ends once, and pays off no cycle it does not owe.
LEMMA ControlKeepsIInv ==
  ASSUME IInv, ControlThread
  PROVE  IInv'
<1>1. UNCHANGED <<main, exiting, signalled, receiver, packet, break_, pipe, socket, posted, quit,
                  rate, sent, signals>>
  BY DEF ControlThread, C_Check, C_Cycle, C_Sleep, mainVars, receiverVars, breakVars, outside
<1>2. main # "gone"
  BY DEF ControlThread, C_Check, C_Cycle, C_Sleep, Alive
<1>3. control' \in {"off", "check", "cycles", "done"}
  BY DEF IInv, TypeOK, ControlThread, C_Check, C_Cycle, C_Sleep
<1>4. owed' \in 0..MaxOwed
  <2>1. CASE C_Check
    BY <2>1 DEF C_Check, IInv, TypeOK
  <2>2. CASE C_Cycle
    BY <2>2, BoundsAssumption DEF C_Cycle, Due, IInv, TypeOK
  <2>3. CASE C_Sleep
    BY <2>3 DEF C_Sleep, IInv, TypeOK
  <2> QED
    BY <2>1, <2>2, <2>3 DEF ControlThread
<1> QED
  BY <1>1, <1>2, <1>3, <1>4 DEF IInv, TypeOK, StopOrder

\* The main thread: the event loop.
LEMMA HandleKeepsIInv ==
  ASSUME IInv, M_Handle
  PROVE  IInv'
<1>1. posted \in Seq(Messages) /\ posted # <<>> /\ posted' = Tail(posted)
  BY DEF M_Handle, IInv, TypeOK
<1>2. posted' \in Seq(Messages)
  BY <1>1, HeadTailProperties
<1>3. rate' \in Rates /\ exiting' \in BOOLEAN
  BY DEF M_Handle, IInv, TypeOK
<1> QED
  BY <1>2, <1>3 DEF M_Handle, IInv, TypeOK, StopOrder, receiverVars, breakVars, outside

\* The main thread: start and stop, where it waits for the others' ends.
LEMMA StopKeepsIInv ==
  ASSUME IInv, M_Start \/ M_Exec \/ M_Leave \/ M_Break \/ M_Write \/ M_Wait \/ M_Quit \/ M_Join
  PROVE  IInv'
<1>1. CASE M_Start
  BY <1>1 DEF M_Start, IInv, TypeOK, StopOrder, breakVars, outside
<1>2. CASE M_Exec \/ M_Leave \/ M_Break
  BY <1>2 DEF M_Exec, M_Leave, M_Break, IInv, TypeOK, StopOrder, receiverVars, breakVars,
     controlVars, outside
<1>3. CASE M_Write
  BY <1>3 DEF M_Write, IInv, TypeOK, StopOrder, receiverVars, breakVars, controlVars, outside
<1>4. CASE M_Wait \/ M_Quit \/ M_Join
  BY <1>4 DEF M_Wait, M_Quit, M_Join, IInv, TypeOK, StopOrder, receiverVars, breakVars,
     controlVars, outside
<1> QED
  BY <1>1, <1>2, <1>3, <1>4

LEMMA AlwaysIInv == Spec => []IInv
<1>1. IInv /\ [Next]_vars => IInv'
  <2> SUFFICES ASSUME IInv, [Next]_vars PROVE IInv'
    OBVIOUS
  <2>1. CASE UNCHANGED vars
    BY <2>1 DEF IInv, TypeOK, StopOrder, vars, mainVars, receiverVars, breakVars, controlVars,
       outside
  <2>2. CASE MainThread
    BY <2>2, HandleKeepsIInv, StopKeepsIInv DEF MainThread
  <2> QED
    BY <2>1, <2>2, OutsideKeepsIInv, ReceiverKeepsIInv, ControlKeepsIInv DEF Next
<1> QED
  BY <1>1, InitIInv, PTL DEF Spec

-----------------------------------------------------------------------------
(* The theorems *)

\* Types: the break pipe never holds more than the byte of the one break, and
\* the control thread never runs below what it owes.
THEOREM ReceiverTypeOK == Spec => []TypeOK
BY AlwaysIInv, PTL DEF IInv

\* When ScGraph is deleted, its two threads have ended: a signal, a malformed
\* packet or a /quit at whatever moment does not change the order of stop.
THEOREM DeletedAfterThreads == Spec => []DeletedWhenUnused
<1>1. IInv => DeletedWhenUnused
  BY DEF IInv, StopOrder, DeletedWhenUnused
<1> QED
  BY <1>1, AlwaysIInv, PTL
=============================================================================

------------------------------ MODULE MCSynths ------------------------------
(* Synths for TLC: definitions that write the bus, read it and pull a        *)
(* trigger, with units that throw, report or cannot be made.                 *)
EXTENDS Synths

Unit(kind, rate, ins) == [kind |-> kind, rate |-> rate, ins |-> ins]

MCDefinitions ==
  [writer  |-> <<Unit("graphics", 1, <<>>), Unit("Control", 1, <<>>), Unit("ReplaceOut", 1, <<2>>)>>,
   reader  |-> <<Unit("In", 1, <<>>), Unit("sc", 1, <<1>>)>>,
   gate    |-> <<Unit("TrigControl", 1, <<>>), Unit("Out", 1, <<1>>)>>,
   audio   |-> <<Unit("sc", 2, <<>>)>>,
   mixer   |-> <<Unit("sc", 0, <<>>), Unit("XOut", 1, <<1, 1>>), Unit("ReplaceOut", 1, <<1>>)>>,
   unknown |-> <<Unit("sc", 1, <<>>), Unit("unknown", 1, <<>>)>>,
   stopped |-> <<Unit("sc", 0, <<>>), Unit("graphics", 0, <<>>)>>]
=============================================================================

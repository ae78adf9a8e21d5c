----------------------------- MODULE MCReceiver -----------------------------
(* Receiver for TLC.                                                         *)
EXTENDS Receiver

\* A plain message, both kinds of bundle and every command of this module.
SomePackets ==
  {<<"other">>, <<"quit">>, <<"negative">>, <<"zero", "positive">>, <<"other", "bad">>}
=============================================================================

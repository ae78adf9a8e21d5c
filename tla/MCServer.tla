------------------------------ MODULE MCServer ------------------------------
(* Server for TLC.                                                           *)
EXTENDS Server

\* Completion messages that want no write lock from under a read lock.
SafeCompletions ==
  {<<"b_read", "sync">>} \cup {"d_recv", "b_zero"} \X {"s_new", "n_free"}

\* One that does.
ReadCompletions == {<<"b_read", "s_new">>}
=============================================================================

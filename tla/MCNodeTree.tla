----------------------------- MODULE MCNodeTree -----------------------------
(* NodeTree for TLC.  Bounds: MaxNode allocations, of which the constructor  *)
(* takes two, and ids 0..MaxId, so that requests collide, reuse ids and run  *)
(* out of them.                                                              *)
EXTENDS TreeWalk
=============================================================================

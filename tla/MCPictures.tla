----------------------------- MODULE MCPictures -----------------------------
EXTENDS Pictures

Source(kind)   == [kind |-> kind, ins |-> <<>>]
From(kind, i)  == [kind |-> kind, ins |-> <<i>>]

Both(kind, i, j) == [kind |-> kind, ins |-> <<i, j>>]

\* A shape with a moved copy; feedback faded in and everything coloured; commands
\* before a line; a window.
MCPrograms ==
  [maker  |-> <<Source("cube"), From("translate", 1), Both("mix", 1, 2), From("Out", 3)>>,
   mixer  |-> <<Source("InFeedback"), From("XOut", 1), Source("In"), From("color", 3),
                From("ReplaceOut", 4)>>,
   looks  |-> <<Source("shader"), Source("blending"), Both("mix", 1, 2), Source("lighting"),
                Source("culling"), Both("mix", 4, 5), Both("mix", 3, 6), Source("line"),
                Both("mix", 7, 8), From("Out", 9)>>,
   window |-> <<Source("In"), From("renderer", 1)>>]

(* Without light the window keeps what it drew before.                       *)
MCSettings == {[lighting |-> l, culling |-> FALSE, transparency |-> TRUE, clear |-> ~l] : l \in BOOLEAN}
=============================================================================

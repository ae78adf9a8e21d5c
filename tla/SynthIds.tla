------------------------------ MODULE SynthIds ------------------------------
(***************************************************************************)
(* What the node tree promises about synths, whatever tree they hang in: a *)
(* synth has one id from its creation to its end, and as long as it lives  *)
(* no other has it.  NodeTree implements this with an address and a map;   *)
(* Server, which knows no tree, relies on no more.                         *)
(***************************************************************************)
EXTENDS Functions

CONSTANTS Synth, Id

VARIABLE named    (* the synths alive, each with its id                     *)

Init == named = [s \in {} |-> CHOOSE i \in Id : TRUE]

\* Synths go, by whatever command or done action.
Free == \E S \in SUBSET DOMAIN named :
          named' = [s \in DOMAIN named \ S |-> named[s]]

\* A synth comes, and may take the place of others.
New == \E s \in Synth \ DOMAIN named, i \in Id \ Range(named) :
         \E S \in SUBSET DOMAIN named :
           named' = [x \in (DOMAIN named \ S) \cup {s} |-> IF x = s THEN i ELSE named[x]]

Next == New \/ Free

Spec == Init /\ [][Next]_named
=============================================================================

-------------------------- MODULE MCExtensionUpdate --------------------------
(* Instances of ExtensionUpdate for TLC. *)
EXTENDS ExtensionUpdate, TLC

CONSTANTS c1, c2, h1, h2

MCChecks == {c1, c2}
MCHandlers == {h1, h2}

\* Slots are interchangeable.
SlotSymmetry == Permutations(MCChecks) \union Permutations(MCHandlers)
=============================================================================

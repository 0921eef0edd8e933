--------------------------- MODULE MCLedgerEvents ---------------------------
(* Writers, layers and event identifiers are interchangeable.                *)
EXTENDS LedgerEvents, TLC

Symmetry == Permutations(Writer) \cup Permutations(Layer) \cup Permutations(Event)
=============================================================================

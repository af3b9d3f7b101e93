--------------------------- MODULE MCSymbolContext ---------------------------
(***************************************************************************)
(* Instances of SymbolContext for TLC: two names, x that is also declared  *)
(* global, cleared as global and resumed, and y that also holds a library. *)
(* In MCAliases both hold the same library.                                *)
(***************************************************************************)
EXTENDS SymbolContext

CONSTANTS x, y, num, lib

MCNames    == {x, y}
MCBindings == {<<x, num>>, <<y, num>>, <<y, lib>>}
MCAliases  == MCBindings \cup {<<x, lib>>}

=============================================================================

--------------------------- MODULE MCConsoleInput ----------------------------
(***************************************************************************)
(* Instances of ConsoleInput for TLC: commands of up to two statements,    *)
(* among them mscanf of one and of two lines, and callbacks that do not    *)
(* read.                                                                   *)
(***************************************************************************)
EXTENDS ConsoleInput

MCPrograms == {<<0>>, <<1>>, <<2, 0>>, <<0, 1>>}
MCCallbacks == {<<0, 0>>}

=============================================================================

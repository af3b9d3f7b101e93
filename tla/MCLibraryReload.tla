--------------------------- MODULE MCLibraryReload ---------------------------
(***************************************************************************)
(* Instances of LibraryReload for TLC.                                     *)
(***************************************************************************)
EXTENDS LibraryReload

MCDirOf == [f \in Files |-> CHOOSE d \in Dirs : TRUE]

=============================================================================

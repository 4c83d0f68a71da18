--------------------------- MODULE MCProjectFolder ---------------------------
(* A small instance of ProjectFolder.                                         *)
EXTENDS FolderPromises

CONSTANTS v1, v2, m1, m2
=============================================================================

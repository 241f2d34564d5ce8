-------------------------- MODULE MCDirectoryView --------------------------
(* Small instances of DirectoryView.                                       *)
EXTENDS DirectoryView

CONSTANTS d1, d2, a, b   \* folders and names
=============================================================================

--------------------------- MODULE MCFolderStore ---------------------------
(***************************************************************************)
(* Instances of FolderStore. Messages are interchangeable.                *)
(***************************************************************************)
EXTENDS FolderStore, TLC

Interchangeable == Permutations(Emails)
=============================================================================

----------------------------- MODULE MCFolderRows -----------------------------
(***************************************************************************)
(* Instances of FolderRows. Messages are interchangeable, and so are the   *)
(* sessions and the folders.                                               *)
(***************************************************************************)
EXTENDS FolderRows, TLC

Interchangeable ==
    Permutations(Emails) \cup Permutations(Sessions) \cup Permutations(Folders)

EveryKind == AllKinds
=============================================================================

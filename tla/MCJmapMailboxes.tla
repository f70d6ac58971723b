--------------------------- MODULE MCJmapMailboxes ---------------------------
(***************************************************************************)
(* Folder names that differ in case alone.                                 *)
(***************************************************************************)
EXTENDS JmapMailboxes

LowerNames == [INBOX |-> "inbox", Inbox |-> "inbox"]
==============================================================================

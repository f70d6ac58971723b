--------------------------- MODULE MCMailClients ---------------------------
(***************************************************************************)
(* Instances of MailClients. Messages are interchangeable.                *)
(***************************************************************************)
EXTENDS MailClients, TLC

Interchangeable == Permutations(Emails)
=============================================================================

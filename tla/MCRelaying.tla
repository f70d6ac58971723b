------------------------------ MODULE MCRelaying ------------------------------
(***************************************************************************)
(* Two messages: one to a hosted address and an address elsewhere, one to  *)
(* two hosted addresses, of which the second is in the sender's mailbox.   *)
(* The client gives the first a Message-ID.                                *)
(***************************************************************************)
EXTENDS Relaying

LettersTo == [m1 |-> {"ann", "cyd"}, m2 |-> {"ann", "bob"}]
AddressDomain == [ann |-> "here", bob |-> "here", cyd |-> "away"]
AddressBox == [ann |-> "boxA", bob |-> "boxB", cyd |-> "none"]
===============================================================================

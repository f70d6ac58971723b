----------------------------- MODULE MCDelivery -----------------------------
(***************************************************************************)
(* Instances of Delivery: job 1 goes to both mailboxes through three       *)
(* addresses and one address that did not resolve, job 2 is the same       *)
(* message sent again to one of them, job 3 is one without a Message-ID.   *)
(***************************************************************************)
EXTENDS Delivery

CONSTANTS j1, j2, j3, a, b, msgX

MCMessageIdOf == [j \in Jobs |-> IF j = j3 THEN NoMessageId ELSE msgX]

MCEnvelope ==
    [j \in Jobs |-> IF j = j1 THEN <<a, NoMailbox, b, a>> ELSE <<b>>]

AllFaults == FaultKinds
=============================================================================

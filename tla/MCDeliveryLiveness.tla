------------------------- MODULE MCDeliveryLiveness -------------------------
(***************************************************************************)
(* Job 1 goes to both mailboxes, job 2 is the same message sent again to   *)
(* one of them, and job 3 is a message without a Message-ID.               *)
(***************************************************************************)
EXTENDS DeliveryLiveness

CONSTANTS j1, j2, j3, a, b, msgX

MCMessageIdOf == [j \in Jobs |-> IF j = j3 THEN NoMessageId ELSE msgX]

MCEnvelope ==
    [j \in Jobs |-> IF j = j1 THEN <<a, NoMailbox, b, a>> ELSE <<b>>]

\* Faults that meet a job once it is in the stream.
QueueFaults == {"store_fails", "quota_fails", "handler_crash"}
=============================================================================

----------------------------- MODULE MCOutbound -----------------------------
(***************************************************************************)
(* Instances of Outbound: two messages of mailbox a, one of mailbox b.     *)
(***************************************************************************)
EXTENDS Outbound

CONSTANTS m1, m2, m3, a, b

MCMailboxOf == [e \in Mails |-> IF e = m3 THEN b ELSE a]

\* One message a day and two a month for the workspace; mailbox a has a
\* monthly limit only and mailbox b none.
MCLimit ==
    [c \in Scopes \X Spans |->
        CASE c = <<"workspace", "day">> -> 1
          [] c = <<"workspace", "month">> -> 2
          [] c = <<a, "month">> -> 1
          [] OTHER -> 0]

TwoPerDay == [c \in Scopes \X Spans |-> IF c = <<"workspace", "day">> THEN 2 ELSE 0]

AllFaults == FaultKinds
RelayFaults == {"relay_fails"}
=============================================================================

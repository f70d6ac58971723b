----------------------------- MODULE MCLifecycle -----------------------------
(***************************************************************************)
(* One handler, session, callback or ticker of each kind that stopping     *)
(* treats in a way of its own.                                             *)
(***************************************************************************)
EXTENDS Lifecycle

KindsOfWork == [j |-> "job", s |-> "smtp", p |-> "pop3", h |-> "http", w |-> "watch",
                t |-> "tick"]
==============================================================================

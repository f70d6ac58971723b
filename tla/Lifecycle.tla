------------------------------ MODULE Lifecycle ------------------------------
(***************************************************************************)
(* The process: App.Start brings the servers up one after the other,       *)
(* SIGTERM or an interrupt cancels the context that main waits on, and     *)
(* App.Stop takes the servers down.  What runs meanwhile are handlers,     *)
(* sessions, queue callbacks and the two tickers; each element of Work is  *)
(* one of them, with its kind:                                             *)
(*   job    NATSQueue.handle, on the subscription's goroutine              *)
(*   smtp, imap, http, grpc   the handler of one command or request        *)
(*   pop3   Server.serve, from the greeting to the client's last line      *)
(*   watch  a health Watch stream, open until its client leaves            *)
(*   tick   purgeArchivedEmails or deliverScheduledEmails                  *)
(* Closing an SMTP or IMAP server ends its connections and waits for the   *)
(* accept loop alone, so their handlers may run on; http, grpc and pop3    *)
(* wait for what is in hand.                                               *)
(***************************************************************************)
EXTENDS Naturals, Sequences

CONSTANTS Work,   \* the handlers, sessions, callbacks and tickers
          Kind    \* the kind of each

ASSUME KindAssumption ==
    Kind \in [Work -> {"job", "smtp", "imap", "pop3", "http", "grpc", "watch", "tick"}]

VARIABLES
    phase,      \* where main and App are
    steps,      \* the steps Start or Stop still has to take
    taking,     \* the servers that take new work
    signalled,  \* main's context was cancelled
    cancelled,  \* NATSQueue.ctx was cancelled
    shut,       \* "queue" and "clients" once they are closed
    doing       \* how far each element of Work has come

lifecycleVars == <<phase, steps, taking, signalled, cancelled, shut, doing>>

Phases == {"starting", "running", "stopping", "undoing", "ended", "failed"}

\* "called": the callback was dispatched and has not reached wg.Add yet.
\* "storing": a transaction of it is open.
Progress == {"none", "called", "busy", "storing"}

Optional == {"queue", "smtp", "imap", "pop3"}

\* The server an element of Work came in by.
Entry(w) == CASE Kind[w] = "job" -> "queue"
              [] Kind[w] = "watch" -> "grpc"
              [] OTHER -> Kind[w]

Under(server) == {w \in Work : Entry(w) = server}

\* What a server's own wait group or graceful stop still counts.
InHand(w) == doing[w] \in {"busy", "storing"}

\* A server is started; it takes no more work, its work in hand is waited for,
\* the queue's context is cancelled, and what is left is shut.  Start passes over
\* the optional servers that were not built.
StartOf(server, built) == IF server \in built THEN << <<"start", server>> >> ELSE <<>>

StartOrder(built) ==
    StartOf("queue", built) \o StartOf("smtp", built) \o StartOf("imap", built)
    \o StartOf("pop3", built) \o << <<"start", "grpc">>, <<"start", "http">> >>

StopOrder == <<
    <<"close", "smtp">>, <<"close", "imap">>, <<"close", "pop3">>, <<"wait", "pop3">>,
    <<"cancel", "queue">>, <<"close", "queue">>, <<"wait", "queue">>, <<"shut", "queue">>,
    <<"close", "http">>, <<"wait", "http">>, <<"close", "grpc">>, <<"wait", "grpc">>,
    <<"shut", "clients">> >>

UndoOrder == <<
    <<"close", "smtp">>, <<"cancel", "queue">>, <<"close", "queue">>, <<"wait", "queue">>,
    <<"shut", "queue">> >>

LifecycleTypeOK ==
    /\ phase \in Phases
    /\ steps \in Seq({"start", "close", "wait", "cancel", "shut"}
                     \X (Optional \cup {"grpc", "http", "clients"}))
    /\ taking \subseteq Optional \cup {"grpc", "http", "tick"}
    /\ signalled \in BOOLEAN /\ cancelled \in BOOLEAN
    /\ shut \subseteq {"queue", "clients"}
    /\ doing \in [Work -> Progress]

\* New builds the optional servers that the configuration names.
LifecycleInit ==
    /\ phase = "starting"
    /\ \E built \in SUBSET Optional : steps = StartOrder(built)
    /\ taking = {} /\ shut = {}
    /\ signalled = FALSE /\ cancelled = FALSE
    /\ doing = [w \in Work |-> "none"]

(***************************************************************************)
(* Start and Stop.                                                         *)
(***************************************************************************)
StartServer ==
    /\ phase = "starting"
    /\ Head(steps)[2] # "http"
    /\ taking' = taking \cup {Head(steps)[2]}
    /\ steps' = Tail(steps)
    /\ UNCHANGED <<phase, signalled, cancelled, shut, doing>>

\* The tickers and the HTTP server come last.
Serve ==
    /\ phase = "starting"
    /\ Head(steps)[2] = "http"
    /\ taking' = taking \cup {"http", "tick"}
    /\ phase' = "running" /\ steps' = <<>>
    /\ UNCHANGED <<signalled, cancelled, shut, doing>>

\* An SMTP or gRPC listener that cannot be opened closes the SMTP servers and
\* the queue before Start returns; the others return at once.
StartFails ==
    /\ phase = "starting"
    /\ Head(steps)[2] # "http"
    /\ IF Head(steps)[2] \in {"smtp", "grpc"}
         THEN phase' = "undoing" /\ steps' = UndoOrder
         ELSE phase' = "failed" /\ steps' = <<>>
    /\ UNCHANGED <<taking, signalled, cancelled, shut, doing>>

Signal ==
    /\ phase \in {"starting", "running"}
    /\ ~signalled
    /\ signalled' = TRUE
    /\ UNCHANGED <<phase, steps, taking, cancelled, shut, doing>>

\* main has seen the context end and calls Stop.
BeginStop ==
    /\ phase = "running"
    /\ signalled
    /\ phase' = "stopping" /\ steps' = StopOrder
    /\ UNCHANGED <<taking, signalled, cancelled, shut, doing>>

\* Mutant: NATSQueue.Close does not wait for its jobs.
WaitedExceptJobs(verb, server) ==
    verb = "wait" /\ server # "queue" => \A w \in Under(server) : ~InHand(w)

Waited(verb, server) == verb = "wait" => \A w \in Under(server) : ~InHand(w)

CloseStep ==
    /\ phase \in {"stopping", "undoing"}
    /\ steps # <<>>
    /\ LET verb == Head(steps)[1]
           server == Head(steps)[2]
       IN  /\ Waited(verb, server)
           /\ taking' = IF verb = "close" THEN taking \ {server} ELSE taking
           /\ cancelled' = (cancelled \/ verb = "cancel")
           /\ shut' = IF verb = "shut" THEN shut \cup {server} ELSE shut
    /\ steps' = Tail(steps)
    /\ UNCHANGED <<phase, signalled, doing>>

\* main returns, or ends in logging.Fatal: nothing runs any more.
Exit ==
    /\ phase \in {"stopping", "undoing"}
    /\ steps = <<>>
    /\ phase' = IF phase = "stopping" THEN "ended" ELSE "failed"
    /\ doing' = [w \in Work |-> "none"]
    /\ UNCHANGED <<steps, taking, signalled, cancelled, shut>>

(***************************************************************************)
(* What runs meanwhile.                                                    *)
(***************************************************************************)
Alive == phase \notin {"ended", "failed"}

\* A ticker begins nothing once the context is cancelled: its queries fail.
BeginWork(w) ==
    /\ Alive
    /\ doing[w] = "none"
    /\ Entry(w) \in taking
    /\ Kind[w] = "tick" => ~signalled
    /\ doing' = [doing EXCEPT ![w] = IF Kind[w] = "job" THEN "called" ELSE "busy"]
    /\ UNCHANGED <<phase, steps, taking, signalled, cancelled, shut>>

\* handle reaches wg.Add, perhaps after Close has waited.
JoinGroup(w) ==
    /\ Alive
    /\ doing[w] = "called"
    /\ doing' = [doing EXCEPT ![w] = "busy"]
    /\ UNCHANGED <<phase, steps, taking, signalled, cancelled, shut>>

\* Jobs run under the queue's context and ticks under main's; the handlers of
\* sessions and requests are not told of the shutdown.
Permitted(w) ==
    CASE Kind[w] = "job" -> ~cancelled
      [] Kind[w] = "tick" -> ~signalled
      [] OTHER -> TRUE

OpenTransaction(w) ==
    /\ Alive
    /\ doing[w] = "busy"
    /\ Permitted(w)
    /\ doing' = [doing EXCEPT ![w] = "storing"]
    /\ UNCHANGED <<phase, steps, taking, signalled, cancelled, shut>>

\* It commits or rolls back and the handler goes on.
CloseTransaction(w) ==
    /\ Alive
    /\ doing[w] = "storing"
    /\ doing' = [doing EXCEPT ![w] = "busy"]
    /\ UNCHANGED <<phase, steps, taking, signalled, cancelled, shut>>

\* A pop3 session and a watch end when their client says so: neither has a
\* deadline.
Finish(w) ==
    /\ Alive
    /\ doing[w] = "busy"
    /\ doing' = [doing EXCEPT ![w] = "none"]
    /\ UNCHANGED <<phase, steps, taking, signalled, cancelled, shut>>

LifecycleNext ==
    \/ StartServer \/ Serve \/ StartFails
    \/ Signal \/ BeginStop \/ CloseStep \/ Exit
    \/ \E w \in Work : \/ BeginWork(w) \/ JoinGroup(w)
                       \/ OpenTransaction(w) \/ CloseTransaction(w) \/ Finish(w)

\* The process runs, and every handler that does not wait for its client ends.
LifecycleFairness ==
    /\ WF_lifecycleVars(StartServer \/ Serve \/ BeginStop \/ CloseStep \/ Exit)
    /\ \A w \in Work : /\ WF_lifecycleVars(JoinGroup(w) \/ CloseTransaction(w))
                       /\ Kind[w] \notin {"pop3", "watch"} => WF_lifecycleVars(Finish(w))

LifecycleSpec == LifecycleInit /\ [][LifecycleNext]_lifecycleVars
LifecycleFairSpec == LifecycleSpec /\ LifecycleFairness

(***************************************************************************)
(* Once NATSQueue.Close has returned no job has a transaction open, even   *)
(* one whose callback reached wg.Add too late to be waited for; and the    *)
(* clients of the other services are closed only when no HTTP or gRPC      *)
(* request and no POP3 session can still call on them.  SMTP and IMAP      *)
(* sessions, which Stop does not wait for, and jobs that were counted too  *)
(* late may still find them closed.                                        *)
(***************************************************************************)
OrderlyStop ==
    /\ "queue" \in shut => \A w \in Under("queue") : doing[w] # "storing"
    /\ "clients" \in shut =>
           \A w \in Under("http") \cup Under("grpc") \cup Under("pop3") : doing[w] = "none"

(***************************************************************************)
(* A signal to a process that runs ends it.                                *)
(***************************************************************************)
StopFinishes == (phase = "running" /\ signalled) ~> (phase = "ended")
=============================================================================

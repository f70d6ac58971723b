----------------------------- MODULE SpamTraining -----------------------------
(***************************************************************************)
(* What the Bayes filter learns from users who move mail into Spam and     *)
(* back.  MoveEmail reads the old folder, commits the move and then talks  *)
(* to Redis, one call after the other: a marker per message digest, the    *)
(* counts of its tokens, batch by batch, and the class totals.  A count    *)
(* that went below zero is set to zero by a read and a write of its own.   *)
(* A call that fails is logged and the training goes on or stops, never    *)
(* the move.  Moves made by IMAP, POP3 and JMAP clients train nothing.     *)
(*                                                                         *)
(* Code: internal/spam/scorer.go, redis_store.go and bayes.go;             *)
(* trainSpamFromMove of internal/service/spam.go and MoveEmail of email.go.*)
(***************************************************************************)
EXTENDS Integers

CONSTANTS
    MovedMail,  \* messages, each with a digest of its own
    Movers,     \* requests that move a message
    Batches,    \* batches of tokens that every message has; a token stands for each
    MaxMoves    \* bound on the moves

ASSUME TrainingAssumption ==
    MovedMail # {} /\ Batches \in Nat \ {0} /\ MaxMoves \in Nat

VARIABLES
    folder,   \* folder[m]: emails.folder, "none" before the message comes
    marker,   \* marker[m]: the class its digest is marked with
    tokens,   \* tokens[b][c]: counts of the token of batch b in class c
    learns,   \* learns[c]: learns_spam and learns_ham
    mover,    \* mover[v]: how far a request is
    moves,    \* moves so far
    failed    \* a call to Redis has failed

trainingVars == <<folder, marker, tokens, learns, mover, moves, failed>>

Classes == {"spam", "ham"}
Folders == {"inbox", "spam", "archive"}
Resting == [at |-> "idle", msg |-> CHOOSE m \in MovedMail : TRUE, to |-> "inbox",
            was |-> "none", class |-> "spam", delta |-> 1, batch |-> 1, low |-> {}]

TrainingTypeOK ==
    /\ folder \in [MovedMail -> Folders \cup {"none"}]
    /\ marker \in [MovedMail -> Classes \cup {"none"}]
    /\ tokens \in [1 .. Batches -> [Classes -> Int]]
    /\ learns \in [Classes -> Int]
    /\ mover \in [Movers ->
            [at : {"idle", "moving", "marking", "counting", "checking", "flooring", "unmarking"},
             msg : MovedMail, to : Folders, was : Folders \cup {"none"}, class : Classes,
             delta : {-1, 1}, batch : 1 .. Batches, low : SUBSET {"token", "total"}]]
    /\ moves \in 0 .. MaxMoves
    /\ failed \in BOOLEAN

TrainingInit ==
    /\ folder = [m \in MovedMail |-> "none"]
    /\ marker = [m \in MovedMail |-> "none"]
    /\ tokens = [b \in 1 .. Batches |-> [c \in Classes |-> 0]]
    /\ learns = [c \in Classes |-> 0]
    /\ mover = [v \in Movers |-> Resting]
    /\ moves = 0
    /\ failed = FALSE

-----------------------------------------------------------------------------

\* ReceiveEmail files by the score, which trains nothing.
Arrive(m) ==
    /\ folder[m] = "none"
    /\ \E f \in {"inbox", "spam"} : folder' = [folder EXCEPT ![m] = f]
    /\ UNCHANGED <<marker, tokens, learns, mover, moves, failed>>

\* MoveEmail reads the folder the message is in,
ReadFolder(v, m, f) ==
    /\ mover[v].at = "idle"
    /\ folder[m] # "none"
    /\ moves < MaxMoves
    /\ moves' = moves + 1
    /\ mover' = [mover EXCEPT ![v] = [Resting EXCEPT
            !.at = "moving", !.msg = m, !.to = f, !.was = folder[m]]]
    /\ UNCHANGED <<folder, marker, tokens, learns, failed>>

\* What trainSpamFromMove makes of the folder that was read.
Lesson(v) ==
    IF mover[v].to = "spam" /\ mover[v].was # "spam" THEN "spam"
    ELSE IF mover[v].to = "inbox" /\ mover[v].was = "spam" THEN "ham"
    ELSE "none"

\* commits the move, and trains: Learn, or Unlearn and then Learn.
CommitMove(v) ==
    LET m == mover[v].msg IN
    /\ mover[v].at = "moving"
    /\ folder' = [folder EXCEPT ![m] = mover[v].to]
    /\ mover' = [mover EXCEPT
            ![v].at = CASE Lesson(v) = "spam" -> "marking"
                        [] Lesson(v) = "ham" -> "counting"
                        [] Lesson(v) = "none" -> "idle",
            ![v].delta = IF Lesson(v) = "ham" THEN -1 ELSE 1]
    /\ UNCHANGED <<marker, tokens, learns, moves, failed>>

\* MarkLearned is a SETNX whose key does not name the class.
Mark(v) ==
    LET m == mover[v].msg IN
    /\ mover[v].at = "marking"
    /\ IF marker[m] = "none"
       THEN /\ marker' = [marker EXCEPT ![m] = mover[v].class]
            /\ mover' = [mover EXCEPT ![v].at = "counting"]
       ELSE /\ mover' = [mover EXCEPT ![v] = Resting]
            /\ UNCHANGED marker
    /\ UNCHANGED <<folder, tokens, learns, moves, failed>>

\* Incr: a pipeline per batch, which adds to the class total every time.
Count(v) ==
    LET c == mover[v].class
        d == mover[v].delta
    IN
    /\ mover[v].at = "counting"
    /\ tokens' = [tokens EXCEPT ![mover[v].batch][c] = @ + d]
    /\ learns' = [learns EXCEPT ![c] = @ + d]
    /\ mover' = [mover EXCEPT ![v].at = "checking"]
    /\ UNCHANGED <<folder, marker, moves, failed>>

\* Where a request goes after a batch, or after the call that ends its part.
AfterBatch(v) ==
    IF mover[v].batch < Batches
    THEN [mover[v] EXCEPT !.at = "counting", !.batch = @ + 1, !.low = {}]
    ELSE IF mover[v].delta = -1 THEN [mover[v] EXCEPT !.at = "unmarking", !.low = {}]
    ELSE Resting

ToHam(v) == [mover[v] EXCEPT
    !.at = "marking", !.class = "ham", !.delta = 1, !.batch = 1, !.low = {}]

\* Mutant: the class total is not checked.
NegativeTokens(v) ==
    {x \in {"token"} : tokens[mover[v].batch][mover[v].class] < 0}

\* clampFields: one pipeline reads what it has just changed,
Negative(v) ==
    LET c == mover[v].class IN
    {x \in {"token", "total"} :
        (IF x = "token" THEN tokens[mover[v].batch][c] ELSE learns[c]) < 0}

Check(v) ==
    /\ mover[v].at = "checking"
    /\ mover' = [mover EXCEPT ![v] =
            IF Negative(v) = {} THEN AfterBatch(v)
            ELSE [mover[v] EXCEPT !.at = "flooring", !.low = Negative(v)]]
    /\ UNCHANGED <<folder, marker, tokens, learns, moves, failed>>

\* and another writes zero where it read less.
Floor(v) ==
    LET c == mover[v].class IN
    /\ mover[v].at = "flooring"
    /\ tokens' = IF "token" \in mover[v].low
                 THEN [tokens EXCEPT ![mover[v].batch][c] = 0] ELSE tokens
    /\ learns' = IF "total" \in mover[v].low THEN [learns EXCEPT ![c] = 0] ELSE learns
    /\ mover' = [mover EXCEPT ![v] = AfterBatch(v)]
    /\ UNCHANGED <<folder, marker, moves, failed>>

\* DeleteLearned removes the marker of either class.
Unmark(v) ==
    /\ mover[v].at = "unmarking"
    /\ marker' = [marker EXCEPT ![mover[v].msg] = "none"]
    /\ mover' = [mover EXCEPT ![v] = ToHam(v)]
    /\ UNCHANGED <<folder, tokens, learns, moves, failed>>

\* A call fails or runs out of time: after a failed Unlearn, ham is learned all
\* the same.
RedisFails(v) ==
    /\ mover[v].at \notin {"idle", "moving"}
    /\ failed' = TRUE
    /\ mover' = [mover EXCEPT ![v] =
            IF mover[v].class = "spam" /\ Lesson(v) = "ham" THEN ToHam(v) ELSE Resting]
    /\ UNCHANGED <<folder, marker, tokens, learns, moves>>

TrainingNext ==
    \/ \E m \in MovedMail : Arrive(m)
    \/ \E v \in Movers :
        \/ \E m \in MovedMail, f \in Folders : ReadFolder(v, m, f)
        \/ CommitMove(v) \/ Mark(v) \/ Count(v) \/ Check(v) \/ Floor(v) \/ Unmark(v)
        \/ RedisFails(v)

TrainingSpec == TrainingInit /\ [][TrainingNext]_trainingVars
-----------------------------------------------------------------------------

Trained == \A v \in Movers : mover[v].at \in {"idle", "moving"}

\* "Counts floor at 0" (store.go:18): once no training is under way and no call
\* has failed, no token count and no class total is negative, however the
\* increments, reads and writes of several requests fell between each other.
CountsFloorAtZero ==
    Trained /\ ~failed =>
        \A c \in Classes : learns[c] >= 0 /\ \A b \in 1 .. Batches : tokens[b][c] >= 0
=============================================================================

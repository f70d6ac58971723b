------------------------------- MODULE SenderAuth -------------------------------
(***************************************************************************)
(* Sender authentication of inbound mail: SPF, DKIM and DMARC one after    *)
(* the other, within the time one message may take, over TXT records that  *)
(* all sessions share in one cache.  The lock of the cache is not held     *)
(* while DNS is asked, so several sessions may ask for one name at a time, *)
(* and the answers may be stored in another order than they were given.    *)
(* What a record says is not modelled: one that was found may lead to any  *)
(* verdict. "other" stands for fail, softfail, neutral and permerror, and  *)
(* "policy" for what a DMARC record asks for.                              *)
(*                                                                         *)
(* Code: internal/senderauth/senderauth.go, spf.go, dkim.go and dmarc.go;  *)
(* verifySender of internal/smtp/server.go.                                *)
(***************************************************************************)
EXTENDS Naturals, Sequences, FiniteSets, SequencesExt

CONSTANTS
    TxtNames,     \* names with TXT records
    Asks,        \* Asks[s]: names that "spf", "dkim" and "dmarc" look up, in order
    Versions,    \* contents of a record
    NoRecord,    \* the answer that there is none
    Checks,      \* sessions that verify a message
    CacheMax, Ttl, NegativeTtl,
    MaxTime, MaxChanges   \* bounds on the clock and on changes to DNS

ASSUME AuthAssumption ==
    /\ CacheMax \in Nat \ {0} /\ Ttl \in Nat /\ NegativeTtl \in Nat
    /\ MaxTime \in Nat /\ MaxChanges \in Nat
    /\ Asks \in [{"spf", "dkim", "dmarc"} -> Seq(TxtNames)]
    /\ NoRecord \notin Versions

VARIABLES
    clock,
    dns,       \* dns[n]: what DNS answers for n
    until,     \* until[n][x]: when DNS last answered x
    changes,   \* changes to DNS so far
    cache,     \* cache[n]: an answer and its expiry, for n in its domain
    order,     \* cacheOrder
    check      \* check[c]: how far a verification is

authVars == <<clock, dns, until, changes, cache, order, check>>

Answers == Versions \cup {NoRecord}
Stages == {"spf", "dkim", "dmarc"}
NotBegun == [stage |-> "idle", at |-> "look", nth |-> 1, now |-> 0, got |-> NoRecord,
             expired |-> FALSE, marks |-> {}, passed |-> {}]

AuthTypeOK ==
    /\ clock \in 0 .. MaxTime
    /\ dns \in [TxtNames -> Answers]
    /\ until \in [TxtNames -> [Answers -> 0 .. MaxTime]]
    /\ changes \in 0 .. MaxChanges
    /\ DOMAIN cache \subseteq TxtNames
    /\ \A n \in DOMAIN cache : cache[n] \in [answer : Answers, expires : Nat]
    /\ order \in Seq(TxtNames)
    /\ check \in [Checks -> [
            stage : Stages \cup {"idle", "done"}, at : {"look", "ask", "store", "use"},
            nth : Nat, now : 0 .. MaxTime, got : Answers \cup {"error"}, expired : BOOLEAN,
            marks : SUBSET {"valid", "dnsFail"},
            passed : SUBSET {"spf", "dkim"}]]

\* Every name has a record at first; Publish takes one away or changes it.
AuthInit ==
    /\ clock = 0
    /\ dns \in {[n \in TxtNames |-> x] : x \in Versions}
    /\ until = [n \in TxtNames |-> [x \in Answers |-> 0]]
    /\ changes = 0
    /\ cache = <<>>
    /\ order = <<>>
    /\ check = [c \in Checks |-> NotBegun]

Name(c) == Asks[check[c].stage][check[c].nth]
Quiet == UNCHANGED <<clock, dns, until, changes>>

-----------------------------------------------------------------------------

Tick ==
    /\ clock < MaxTime
    /\ clock' = clock + 1
    /\ until' = [n \in TxtNames |-> [until[n] EXCEPT ![dns[n]] = clock + 1]]
    /\ UNCHANGED <<dns, changes, cache, order, check>>

\* The owner of a domain changes its record.
Publish(n, x) ==
    /\ changes < MaxChanges
    /\ x # dns[n]
    /\ changes' = changes + 1
    /\ dns' = [dns EXCEPT ![n] = x]
    /\ until' = [until EXCEPT ![n][x] = clock]
    /\ UNCHANGED <<clock, cache, order, check>>

StartCheck(c) ==
    /\ check[c].stage = "idle"
    /\ check' = [check EXCEPT ![c].stage = "spf"]
    /\ Quiet /\ UNCHANGED <<cache, order>>

\* The budget of the message runs out; calls to DNS fail from now on.
Expire(c) ==
    /\ check[c].stage \in Stages
    /\ ~check[c].expired
    /\ check' = [check EXCEPT ![c].expired = TRUE]
    /\ Quiet /\ UNCHANGED <<cache, order>>

Cached(n) == n \in DOMAIN cache /\ clock < cache[n].expires

\* lookupTXT: an answer of the cache, or DNS is asked.
LookUp(c) ==
    /\ check[c].stage \in Stages
    /\ check[c].at = "look"
    /\ check[c].nth <= Len(Asks[check[c].stage])
    /\ check' = [check EXCEPT ![c] =
            IF Cached(Name(c)) THEN [@ EXCEPT !.at = "use", !.got = cache[Name(c)].answer]
            ELSE [@ EXCEPT !.at = "ask", !.now = clock]]
    /\ Quiet /\ UNCHANGED <<cache, order>>

AskDns(c) ==
    /\ check[c].at = "ask"
    /\ ~check[c].expired
    /\ check' = [check EXCEPT ![c].at = "store", ![c].got = dns[Name(c)]]
    /\ Quiet /\ UNCHANGED <<cache, order>>

\* Mutant: a transient error is cached as an answer is.
DnsFailureKept(c) ==
    /\ check[c].at = "ask"
    /\ check' = [check EXCEPT ![c].at = "store", ![c].got = "error"]
    /\ Quiet /\ UNCHANGED <<cache, order>>

\* A transient error is not cached.
DnsFails(c) ==
    /\ check[c].at = "ask"
    /\ check' = [check EXCEPT ![c].at = "use", ![c].got = "error", ![c].now = 0]
    /\ Quiet /\ UNCHANGED <<cache, order>>

TtlOf(x) == IF x = NoRecord THEN NegativeTtl ELSE Ttl

\* Mutant: the time an answer may be kept starts when it is stored.
ExpiryFromNow(c) == clock + TtlOf(check[c].got)

Expiry(c) == check[c].now + TtlOf(check[c].got)

\* The name that came first makes room; one that is there already keeps its place.
StoreAnswer(c) ==
    LET n == Name(c)
        full == n \notin DOMAIN cache /\ Cardinality(DOMAIN cache) >= CacheMax
        kept == IF full THEN DOMAIN cache \ {Head(order)} ELSE DOMAIN cache
        entry == [answer |-> check[c].got, expires |-> Expiry(c)]
    IN
    /\ check[c].at = "store"
    /\ cache' = [m \in kept \cup {n} |-> IF m = n THEN entry ELSE cache[m]]
    /\ order' = IF n \in DOMAIN cache THEN order
                ELSE Append(IF full THEN Tail(order) ELSE order, n)
    /\ check' = [check EXCEPT ![c].at = "use", ![c].now = 0]
    /\ Quiet

\* Verify goes on with the next part, or at once through those that are left
\* when the time is up. Of a verdict DMARC will ask whether it was "pass".
Enter(c, verdict, stage) ==
    check' = [check EXCEPT ![c] = [NotBegun EXCEPT !.stage = stage, !.expired = check[c].expired,
        !.passed = check[c].passed \cup (IF verdict = "pass" THEN {check[c].stage} ELSE {})]]

\* evalSPF: a mechanism that matches ends it, an include without a record does
\* not match, and a lookup that fails ends it too, be it of an A or MX record,
\* which nothing keeps.
JudgeSpf(c, verdict) ==
    LET r == check[c] IN
    /\ r.stage = "spf" /\ r.at = "use"
    /\ CASE r.got = "error" -> verdict = "temperror"
         [] r.got = NoRecord /\ r.nth = 1 -> verdict = "none"
         [] OTHER -> verdict \in {"pass", "other", "temperror"}
    /\ Enter(c, verdict, "dkim")
    /\ Quiet /\ UNCHANGED <<cache, order>>

\* The record has an include to look at.
FollowInclude(c) ==
    /\ check[c].stage = "spf" /\ check[c].at = "use"
    /\ check[c].got # "error" /\ (check[c].got = NoRecord => check[c].nth > 1)
    /\ check[c].nth < Len(Asks["spf"])
    /\ check' = [check EXCEPT ![c].nth = @ + 1, ![c].at = "look"]
    /\ Quiet /\ UNCHANGED <<cache, order>>

\* One signature after the other: its key, then the digests.
TryKey(c, mark) ==
    LET r == check[c] IN
    /\ r.stage = "dkim" /\ r.at = "use"
    /\ mark \in (CASE r.got = "error" -> {"dnsFail"}
                   [] r.got = NoRecord -> {"failed"}
                   [] OTHER -> {"valid", "failed"})
    /\ check' = [check EXCEPT ![c].marks = @ \cup ({mark} \ {"failed"}),
            ![c].nth = @ + 1, ![c].at = "look"]
    /\ Quiet /\ UNCHANGED <<cache, order>>

JudgeDkim(c) ==
    LET r == check[c]
        verdict == IF Asks["dkim"] = <<>> THEN "none"
                   ELSE IF "valid" \in r.marks THEN "pass"
                   ELSE IF "dnsFail" \in r.marks THEN "temperror"
                   ELSE "other"
    IN
    /\ r.stage = "dkim" /\ r.at = "look"
    /\ r.nth > Len(Asks["dkim"])
    /\ Enter(c, verdict, "dmarc")
    /\ Quiet /\ UNCHANGED <<cache, order>>

\* The Result goes to the session that asked for it.
Conclude(c) == check' = [check EXCEPT ![c] = [NotBegun EXCEPT !.stage = "done"]]

\* A domain that SPF or DKIM passed may be aligned with the sender's or not.
JudgeDmarc(c, verdict) ==
    LET r == check[c] IN
    /\ r.stage = "dmarc" /\ r.at = "use"
    /\ IF r.got \in {"error", NoRecord} THEN verdict = "none"
       ELSE IF verdict = "allow" THEN r.passed # {}
       ELSE verdict \in {"none", "policy"}
    /\ Conclude(c)
    /\ Quiet /\ UNCHANGED <<cache, order>>

\* Verify finds the time up before a part, or a part between two signatures.
OutOfTime(c) ==
    LET r == check[c] IN
    /\ r.stage \in Stages /\ r.at = "look" /\ r.expired
    /\ CASE r.stage = "spf" -> Enter(c, "temperror", "dkim")
         [] r.stage = "dkim" ->
                Enter(c, IF "valid" \in r.marks THEN "pass" ELSE "temperror", "dmarc")
         [] r.stage = "dmarc" -> Conclude(c)
    /\ Quiet /\ UNCHANGED <<cache, order>>

AuthNext ==
    \/ Tick
    \/ \E n \in TxtNames, x \in Answers : Publish(n, x)
    \/ \E c \in Checks :
        \/ StartCheck(c) \/ Expire(c) \/ LookUp(c) \/ AskDns(c) \/ DnsFails(c)
        \/ StoreAnswer(c) \/ FollowInclude(c) \/ JudgeDkim(c) \/ OutOfTime(c)
        \/ \E v \in {"none", "pass", "other", "temperror"} : JudgeSpf(c, v)
        \/ \E v \in {"none", "allow", "policy"} : JudgeDmarc(c, v)
        \/ \E mark \in {"valid", "dnsFail", "failed"} : TryKey(c, mark)

AuthSpec == AuthInit /\ [][AuthNext]_authVars
-----------------------------------------------------------------------------

\* The cache is bounded, it evicts every name it holds in turn, and it never
\* answers with what DNS has not said within the TTL, however long a lookup took
\* and whichever of several for one name was stored last.
CacheIsSound ==
    /\ ToSet(order) = DOMAIN cache /\ Len(order) = Cardinality(DOMAIN cache)
    /\ Len(order) <= CacheMax
    /\ \A n \in TxtNames : Cached(n) =>
        until[n][cache[n].answer] + TtlOf(cache[n].answer) > clock
=============================================================================
